------------------------------ MODULE Eviction ------------------------------
(***************************************************************************)
(* How much a pass over all roots gives back, and whose bytes they are:    *)
(* runner/retention.ts planEviction and reclaimCaches, and the total that  *)
(* runner/housekeeping.ts carries from root to root.  A root is what is on *)
(* its disk: completed runs, shared caches, and the trash a crash left.    *)
(* Who may be evicted at all, and when, is the module Retention.           *)
(***************************************************************************)
EXTENDS Integers, FiniteSets, FiniteSetsExt, Sequences

CONSTANTS RETENTION,  \* the limits: maxAge, maxCompletedRuns, perRoot, userWide, cacheMaxAge
          Inventory   \* the roots a pass may find, in its order

\* The slot of a root is free, held, held by a run that a verdict says is idle, or
\* the root is quarantined.
SlotState == {"free", "idle", "held", "quarantined"}

\* A run is evictable or not; the deletion of a cache may fail (stuck).
Evidence == [id : Int, age : Int, bytes : Nat, evictable : BOOLEAN]
BuildCache == [id : Int, age : Int, bytes : Nat, stuck : BOOLEAN]
Root == [runs : SUBSET Evidence, caches : SUBSET BuildCache, trash : Nat, slot : SlotState, locked : BOOLEAN]

\* An id names one run, or one cache, of its root.
Listed(S) == IsFiniteSet(S) /\ \A x, y \in S : x.id = y.id => x = y

ASSUME InventoryAssumption ==
  /\ RETENTION \in [maxAge : Nat, maxCompletedRuns : Nat, perRoot : Nat, userWide : Nat, cacheMaxAge : Nat]
  /\ \A roots \in Inventory :
       roots \in Seq(Root) /\ \A k \in DOMAIN roots : Listed(roots[k].runs) /\ Listed(roots[k].caches)

BytesOf(S) == MapThenSumSet(LAMBDA x : x.bytes, S)

OnDisk(root) == BytesOf(root.runs) + BytesOf(root.caches) + root.trash

totalToolBytes(roots) == MapThenSumSet(LAMBDA k : OnDisk(roots[k]), DOMAIN roots)

Older(x, y) == x.age > y.age \/ (x.age = y.age /\ x.id < y.id)

Newest(S) == {x \in S : \A y \in S \ {x} : Older(y, x)}

\* What a byte target takes of S, of `total` bytes, the oldest first: whatever is
\* there when the older ones are gone and the rest is not within the target.
Shed(S, total, target) == {x \in S : total - BytesOf({y \in S : Older(y, x)}) > target}

\* Age and count are hard, the newest run is spared by the byte targets alone,
\* and the bytes of what goes anyway are not freed twice.
planEviction(runs, userWide) ==
  LET evictable == {r \in runs : r.evictable}
      young     == {r \in evictable : r.age <= RETENTION.maxAge}
      kept      == {r \in young : Cardinality({q \in young : Older(r, q)}) < RETENTION.maxCompletedRuns}
      newest    == Newest(evictable)
      perRoot   == Shed(kept \ newest, BytesOf(kept), RETENTION.perRoot)
      certain   == (evictable \ kept) \cup perRoot
  IN [certain  |-> certain,
      perRoot  |-> perRoot,
      userWide |-> Shed(kept \ (perRoot \cup newest), userWide - BytesOf(certain), RETENTION.userWide)]

\* No cache goes under a build: quarantine first, then the slot.
MayReclaim(root) == root.slot \in {"free", "idle"}

\* The caches that go, oldest first; one that cannot be deleted stays counted.
reclaimCaches(root, userWide) ==
  LET kept == BytesOf(root.runs) + BytesOf(root.caches)
      able == {x \in root.caches : ~x.stuck}
  IN IF MayReclaim(root)
     THEN {x \in able : x.age > RETENTION.cacheMaxAge}
          \cup Shed(able, kept, RETENTION.perRoot) \cup Shed(able, userWide, RETENTION.userWide)
     ELSE {}

NoPlan == [certain |-> {}, perRoot |-> {}, userWide |-> {}]

\* One root: the trash is emptied, the caches are reclaimed, and evidence goes
\* for what is left.  What the trash held is not among the bytes given back.
runRetention(root, userWide) ==
  LET caches == reclaimCaches(root, userWide)
      plan   == planEviction(root.runs, userWide - BytesOf(caches))
      runs   == plan.certain \cup plan.userWide
  IN [root       |-> [root EXCEPT !.trash = 0, !.runs = @ \ runs, !.caches = @ \ caches],
      plan       |-> plan,
      bytesFreed |-> BytesOf(runs) + BytesOf(caches)]

\* What a visit leaves to the rest of the pass: the bytes given back are off its
\* total.
CarriedUncredited(pass, k, report) ==
  [roots |-> [pass.roots EXCEPT ![k] = report.root], plan |-> report.plan, userWide |-> pass.userWide]

Carried(pass, k, report) ==
  [roots |-> [pass.roots EXCEPT ![k] = report.root], plan |-> report.plan,
   userWide |-> pass.userWide - report.bytesFreed]

\* The k-th root of a pass, unless its lock is held.
Visit(pass, k) ==
  IF pass.roots[k].locked THEN [pass EXCEPT !.plan = NoPlan]
  ELSE Carried(pass, k, runRetention(pass.roots[k], pass.userWide))

\* Where a pass stands after its k-th root.
Visits(roots) ==
  LET after[k \in 0 .. Len(roots)] ==
        IF k = 0 THEN [roots |-> roots, userWide |-> totalToolBytes(roots), plan |-> NoPlan]
        ELSE Visit(after[k - 1], k)
  IN after

-----------------------------------------------------------------------------
(* Properties. *)

\* Without its last eviction for the user's target, the disks would hold more
\* than that target: what another root, a cache or a harder rule has given back
\* is not asked of evidence again (housekeeping.ts, issue 151).
NothingFreedTwice(after, k) ==
  LET taken == after[k].plan.userWide IN
  \A last \in Newest(taken) : totalToolBytes(after[k].roots) + last.bytes > RETENTION.userWide

\* A run goes for a byte target only if no cache of its root could go instead
\* (runRetention, issue 96).
CachesGoFirst(after, k) ==
  LET root == after[k].roots[k] IN
  after[k].plan.perRoot \cup after[k].plan.userWide # {} /\ MayReclaim(root) => \A x \in root.caches : x.stuck

\* Where a target is not met, the evidence left is the newest run or may not
\* be evicted.
SparedOnly(root) ==
  LET evictable == {r \in root.runs : r.evictable} IN evictable = Newest(evictable)
TargetsAreMet(after, k) ==
  after[k].roots[k].locked
  \/ /\ BytesOf({r \in after[k].roots[k].runs : r.evictable}) <= RETENTION.perRoot \/ SparedOnly(after[k].roots[k])
     /\ totalToolBytes(after[k].roots) <= RETENTION.userWide \/ SparedOnly(after[k].roots[k])

\* A pass takes what it has to, and no evidence more for bytes: planEviction,
\* reclaimCaches and the total of runHousekeeping.
Warranted(roots) ==
  \A after \in {Visits(roots)}, k \in DOMAIN roots :
    NothingFreedTwice(after, k) /\ CachesGoFirst(after, k) /\ TargetsAreMet(after, k)

\* What a visited root holds, caches and all, is within its target or cannot go:
\* retention.ts on retainedBytes.
WithinTarget(roots) ==
  \A after \in {Visits(roots)}, k \in DOMAIN roots :
    roots[k].locked \/ OnDisk(after[k].roots[k]) <= RETENTION.perRoot \/ SparedOnly(after[k].roots[k])
=============================================================================
