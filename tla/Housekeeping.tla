---------------------------- MODULE Housekeeping ----------------------------
(***************************************************************************)
(* Maintenance of all storage roots of one user: runner/housekeeping.ts on *)
(* its worker thread (runner/housekeeping-entry.ts), and what a start of   *)
(* the plugin does to the same registry (adapter/startup-ports.ts,         *)
(* adapter/runtime.ts).                                                    *)
(*                                                                         *)
(* The registry and each root have a lock of their own, tried and never    *)
(* waited for.  A section under the registry lock is one action; that the  *)
(* lock may be held is the action RegistryBusy, or a choice of the caller. *)
(* What a visit does inside a root is module Retention.  Ages are compared *)
(* with two limits only, so an entry and a directory are fresh or stale.   *)
(***************************************************************************)
EXTENDS Integers, FiniteSetsExt, SequencesExt

CONSTANTS Key,          \* root keys, as numbers: they are visited in order
          Host,         \* OpenCode processes
          NoKey, NoHost,
          Used,         \* bound: the roots whose queue and leases change
          Forgotten,    \* bound: the roots that grow stale
          Budget,       \* visits every pass has time for
          MaxCrashes,   \* bound: processes that die
          Discoverer    \* the hosts that find a runtime and remember it

ASSUME HousekeepingAssumption ==
  /\ Key \subseteq Nat /\ IsFiniteSet(Key) /\ NoKey \notin Key /\ NoHost \notin Host
  /\ Used \subseteq Key /\ Forgotten \subseteq Key
  /\ Budget \in Nat /\ MaxCrashes \in Nat /\ Discoverer \subseteq Host

VARIABLES
  registry,   \* lastSeenAtMs by key, lastHousekeepingAtMs, pendingRoots
  dir,        \* per key: no root directory, or the age of one
  hold,       \* per key: what queue.json says
  lease,      \* per key: a read lease, and whether a collector could see it
  rootLock,   \* per key: the pass that holds the root's lock
  grave,      \* keys with a .collected- directory
  opening,    \* per host: the root it is opening
  copy,       \* per host: the registry rememberRuntime read
  pass,       \* per host: its housekeeping pass
  crashes,
  found       \* per host: 0 before rememberRuntime, 1 inside, 2 after

tree == <<dir, hold, lease, rootLock, grave>>
vars == <<registry, tree, opening, copy, pass, crashes, found>>

Age == {"fresh", "stale"}
Registry == [seen : [Key -> Age \cup {"absent"}], recent : BOOLEAN, pending : SUBSET Key]
Off == [phase |-> "off", order |-> <<>>, seen |-> [k \in Key |-> "absent"], todo |-> {}, at |-> NoKey,
        collected |-> {}, visits |-> 0, late |-> FALSE, unvisited |-> {}]
Rebuilt == [seen |-> [k \in Key |-> "absent"], recent |-> FALSE, pending |-> {}]

Registered == {k \in Key : registry.seen[k] # "absent"}
Sorted(keys) == SetToSortSeq(keys, <)

VisitingOrder ==
  LET pending == registry.pending \cap Registered IN Sorted(pending) \o Sorted(Registered \ pending)

Init ==
  /\ registry = Rebuilt
  /\ dir = [k \in Key |-> "none"] /\ hold = [k \in Key |-> "idle"] /\ lease = [k \in Key |-> "none"]
  /\ rootLock = [k \in Key |-> NoHost] /\ grave = {}
  /\ opening = [h \in Host |-> NoKey] /\ copy = [h \in Host |-> Rebuilt] /\ pass = [h \in Host |-> Off]
  /\ crashes = 0 /\ found = [h \in Host |-> IF h \in Discoverer THEN 0 ELSE 2]

-----------------------------------------------------------------------------
(* Time, and the tools that use a root meanwhile. *)

EntryAges(k) == /\ registry.seen[k] = "fresh" /\ registry' = [registry EXCEPT !.seen[k] = "stale"]
                /\ UNCHANGED <<tree, opening, copy, pass, crashes, found>>
DirectoryAges(k) == /\ dir[k] = "fresh" /\ dir' = [dir EXCEPT ![k] = "stale"]
                    /\ UNCHANGED <<registry, hold, lease, rootLock, grave, opening, copy, pass, crashes, found>>
IntervalPasses == /\ registry.recent /\ registry' = [registry EXCEPT !.recent = FALSE]
                  /\ UNCHANGED <<tree, opening, copy, pass, crashes, found>>

\* Admission, release and recovery: each under the root's lock.
QueueChanges(k) ==
  /\ dir[k] # "none" /\ rootLock[k] = NoHost
  /\ \E q \in {"idle", "inUse"} \ {hold[k]} : hold' = [hold EXCEPT ![k] = q]
  /\ UNCHANGED <<registry, dir, lease, rootLock, grave, opening, copy, pass, crashes, found>>

\* An inspection, under no lock: what a collector has read may be older.
LeaseChanges(k) ==
  /\ dir[k] # "none"
  /\ lease' = [lease EXCEPT ![k] = IF @ # "none" THEN "none" ELSE IF rootLock[k] = NoHost THEN "seen" ELSE "unseen"]
  /\ UNCHANGED <<registry, dir, hold, rootLock, grave, opening, copy, pass, crashes, found>>

-----------------------------------------------------------------------------
(* A start of the plugin. *)

PrepareStorage(h, k) ==
  /\ opening[h] = NoKey /\ opening' = [opening EXCEPT ![h] = k]
  /\ dir' = [dir EXCEPT ![k] = IF @ = "none" THEN "fresh" ELSE @]
  /\ UNCHANGED <<registry, hold, lease, rootLock, grave, copy, pass, crashes, found>>

NoteRootSeen(h) ==
  /\ opening[h] # NoKey /\ opening' = [opening EXCEPT ![h] = NoKey]
  /\ registry' \in {registry, [registry EXCEPT !.seen[opening[h]] = "fresh"]}
  /\ UNCHANGED <<tree, copy, pass, crashes, found>>

\* The whole registry is read and written, under no lock.
ReadForRuntime(h) ==
  /\ found[h] = 0
  /\ copy' = [copy EXCEPT ![h] = registry] /\ found' = [found EXCEPT ![h] = 1]
  /\ UNCHANGED <<registry, tree, opening, pass, crashes>>
RememberRuntime(h) ==
  /\ found[h] = 1
  /\ registry' = copy[h] /\ copy' = [copy EXCEPT ![h] = Rebuilt] /\ found' = [found EXCEPT ![h] = 2]
  /\ UNCHANGED <<tree, opening, pass, crashes>>

-----------------------------------------------------------------------------
(* One housekeeping pass. *)

Enter(h, p) == pass' = [pass EXCEPT ![h] = p]

ClaimPass(h) ==
  /\ pass[h].phase = "off" /\ ~registry.recent
  /\ registry' = [registry EXCEPT !.recent = TRUE]
  /\ Enter(h, [Off EXCEPT !.phase = "claimed", !.order = VisitingOrder])
  /\ UNCHANGED <<tree, opening, copy, crashes, found>>

DeadlinePasses(h) ==
  /\ pass[h].phase # "off" /\ ~pass[h].late /\ pass[h].visits >= Budget
  /\ Enter(h, [pass[h] EXCEPT !.late = TRUE])
  /\ UNCHANGED <<registry, tree, opening, copy, crashes, found>>

\* The registry once more, and every candidate: registered, or a directory.
Snapshot(h) ==
  /\ pass[h].phase = "claimed"
  /\ Enter(h, [pass[h] EXCEPT !.phase = "collecting", !.seen = registry.seen,
       !.todo = {k \in Key : k \in ToSet(pass[h].order) \/ dir[k] # "none"}])
  /\ UNCHANGED <<registry, tree, opening, copy, crashes, found>>

CandidateAge(h, k) == IF pass[h].seen[k] = "absent" THEN dir[k] ELSE pass[h].seen[k]
NextCandidate(h, k) ==
  pass[h].phase = "collecting" /\ ~pass[h].late /\ pass[h].todo # {} /\ k = Min(pass[h].todo)

\* Too young, or stale without a directory: then its entry is what goes.
JudgeKeepingEntry(h, k) ==
  /\ NextCandidate(h, k) /\ (CandidateAge(h, k) # "stale" \/ dir[k] = "none")
  /\ Enter(h, [pass[h] EXCEPT !.todo = @ \ {k}])
  /\ UNCHANGED <<registry, tree, opening, copy, crashes, found>>

Judge(h, k) ==
  /\ NextCandidate(h, k) /\ (CandidateAge(h, k) # "stale" \/ dir[k] = "none")
  /\ Enter(h, [pass[h] EXCEPT !.todo = @ \ {k},
       !.collected = IF CandidateAge(h, k) = "stale" THEN @ \cup {k} ELSE @])
  /\ UNCHANGED <<registry, tree, opening, copy, crashes, found>>

\* The lock is held, the queue cannot be read, or it says the root is in use.
Spare(h, k) ==
  /\ NextCandidate(h, k) /\ CandidateAge(h, k) = "stale" /\ dir[k] # "none"
  /\ Enter(h, [pass[h] EXCEPT !.todo = @ \ {k}])
  /\ UNCHANGED <<registry, tree, opening, copy, crashes, found>>

LockUnasked(h, k) ==
  /\ NextCandidate(h, k) /\ CandidateAge(h, k) = "stale" /\ dir[k] # "none" /\ rootLock[k] = NoHost
  /\ hold[k] = "idle"
  /\ rootLock' = [rootLock EXCEPT ![k] = h]
  /\ Enter(h, [pass[h] EXCEPT !.phase = "locked", !.at = k, !.todo = @ \ {k}])
  /\ UNCHANGED <<registry, dir, hold, lease, grave, opening, copy, crashes, found>>

LockStaleRoot(h, k) ==
  /\ NextCandidate(h, k) /\ CandidateAge(h, k) = "stale" /\ dir[k] # "none" /\ rootLock[k] = NoHost
  /\ hold[k] = "idle" /\ lease[k] = "none"
  /\ rootLock' = [rootLock EXCEPT ![k] = h]
  /\ Enter(h, [pass[h] EXCEPT !.phase = "locked", !.at = k, !.todo = @ \ {k}])
  /\ UNCHANGED <<registry, dir, hold, lease, grave, opening, copy, crashes, found>>

\* Moved aside, lock and all; a graveyard that is not empty refuses the move.
MoveAside(h) ==
  LET k == pass[h].at IN
  /\ pass[h].phase = "locked"
  /\ rootLock' = [rootLock EXCEPT ![k] = NoHost]
  /\ IF k \in grave
     THEN Enter(h, [pass[h] EXCEPT !.phase = "collecting", !.at = NoKey]) /\ UNCHANGED <<dir, hold, lease, grave>>
     ELSE /\ Enter(h, [pass[h] EXCEPT !.phase = "moved"])
          /\ dir' = [dir EXCEPT ![k] = "none"] /\ hold' = [hold EXCEPT ![k] = "idle"]
          /\ lease' = [lease EXCEPT ![k] = "none"] /\ grave' = grave \cup {k}
  /\ UNCHANGED <<registry, opening, copy, crashes, found>>

DeleteMoved(h) ==
  /\ pass[h].phase = "moved" /\ grave' = grave \ {pass[h].at}
  /\ Enter(h, [pass[h] EXCEPT !.phase = "collecting", !.at = NoKey, !.collected = @ \cup {pass[h].at}])
  /\ UNCHANGED <<registry, dir, hold, lease, rootLock, opening, copy, crashes, found>>

Surviving(h) == SelectSeq(pass[h].order, LAMBDA k : k \notin pass[h].collected)
EndOfCollection(h) == pass[h].phase = "collecting" /\ (pass[h].todo = {} \/ pass[h].late)

Unregister(h) ==
  /\ EndOfCollection(h)
  /\ registry' = [registry EXCEPT !.seen = [k \in Key |-> IF k \in pass[h].collected THEN "absent" ELSE @[k]]]
  /\ Enter(h, [pass[h] EXCEPT !.phase = "visiting", !.order = Surviving(h),
       !.seen = Off.seen, !.todo = {}, !.collected = {}])
  /\ UNCHANGED <<tree, opening, copy, crashes, found>>

\* Reconciled and retained under its lock, unless that is held or the
\* directory is gone; not visited at all once the deadline has passed.
Visit(h) ==
  /\ pass[h].phase = "visiting" /\ pass[h].order # <<>>
  /\ Enter(h, IF pass[h].late
              THEN [pass[h] EXCEPT !.order = Tail(@), !.unvisited = @ \cup {Head(pass[h].order)}]
              ELSE [pass[h] EXCEPT !.order = Tail(@), !.visits = Min({@ + 1, Budget})])
  /\ UNCHANGED <<registry, tree, opening, copy, crashes, found>>

Maintains(h, k) == Visit(h) /\ ~pass[h].late /\ k = Head(pass[h].order) /\ dir[k] # "none" /\ rootLock[k] = NoHost

RememberUnvisited(h) ==
  /\ pass[h].phase = "visiting" /\ pass[h].order = <<>>
  /\ registry' = [registry EXCEPT !.pending = pass[h].unvisited]
  /\ Enter(h, Off)
  /\ UNCHANGED <<tree, opening, copy, crashes, found>>

\* The registry lock is held by another at this instant: nothing is collected,
\* nothing unregistered, or nothing remembered, and the pass goes on.
RegistryBusy(h) ==
  /\ \/ pass[h].phase = "claimed" /\ Enter(h, [pass[h] EXCEPT !.phase = "visiting"])
     \/ EndOfCollection(h) /\ Enter(h, [pass[h] EXCEPT !.phase = "visiting", !.order = Surviving(h),
       !.seen = Off.seen, !.todo = {}, !.collected = {}])
     \/ pass[h].phase = "visiting" /\ pass[h].order = <<>> /\ Enter(h, Off)
  /\ UNCHANGED <<registry, tree, opening, copy, crashes, found>>

\* The process dies with its thread, its locks and its copies.
Dies(h) ==
  /\ crashes < MaxCrashes /\ crashes' = crashes + 1
  /\ Enter(h, Off) /\ opening' = [opening EXCEPT ![h] = NoKey]
  /\ copy' = [copy EXCEPT ![h] = Rebuilt] /\ found' = [found EXCEPT ![h] = 2]
  /\ rootLock' = [k \in Key |-> IF rootLock[k] = h THEN NoHost ELSE rootLock[k]]
  /\ UNCHANGED <<registry, dir, hold, lease, grave>>

-----------------------------------------------------------------------------
StartStep(h) ==
  (\E k \in Key : PrepareStorage(h, k)) \/ NoteRootSeen(h) \/ ReadForRuntime(h) \/ RememberRuntime(h)
PassStep(h) ==
  \/ ClaimPass(h) \/ Snapshot(h) \/ MoveAside(h) \/ DeleteMoved(h)
  \/ \E k \in Key : Judge(h, k) \/ Spare(h, k) \/ LockStaleRoot(h, k)
  \/ Unregister(h) \/ Visit(h) \/ RememberUnvisited(h) \/ RegistryBusy(h)

Next ==
  \/ \E k \in Forgotten : EntryAges(k) \/ DirectoryAges(k)
  \/ \E k \in Used : QueueChanges(k) \/ LeaseChanges(k)
  \/ IntervalPasses
  \/ \E h \in Host : StartStep(h) \/ PassStep(h) \/ DeadlinePasses(h) \/ Dies(h)

Spec == Init /\ [][Next]_vars

\* Plugins are started again and again, so a pass follows every interval; the
\* thread runs; the registry lock, when tried again and again, is found free,
\* also in a pass that still has time.
FairSpec ==
  /\ Spec
  /\ WF_vars(IntervalPasses)
  /\ \A h \in Host : /\ WF_vars(PassStep(h)) /\ SF_vars(~pass[h].late /\ Snapshot(h)) /\ SF_vars(pass[h].collected # {} /\ Unregister(h))
                     /\ SF_vars(RememberUnvisited(h)) /\ \A k \in Key : SF_vars(Judge(h, k))

-----------------------------------------------------------------------------
TypeOK ==
  /\ registry \in Registry /\ dir \in [Key -> Age \cup {"none"}]
  /\ hold \in [Key -> {"idle", "inUse"}] /\ lease \in [Key -> {"none", "seen", "unseen"}]
  /\ rootLock \in [Key -> Host \cup {NoHost}] /\ grave \subseteq Key
  /\ opening \in [Host -> Key \cup {NoKey}] /\ copy \in [Host -> Registry]
  /\ crashes \in 0 .. MaxCrashes /\ found \in [Host -> 0 .. 2]
  /\ \A h \in Host : LET p == pass[h] IN
       /\ p.phase \in {"off", "claimed", "collecting", "locked", "moved", "visiting"}
       /\ IsInjective(p.order) /\ ToSet(p.order) \subseteq Key /\ p.todo \subseteq Key
       /\ p.at \in Key \cup {NoKey} /\ p.unvisited \subseteq Key
       /\ p.collected \subseteq Key /\ p.late \in BOOLEAN /\ p.seen \in [Key -> Age \cup {"absent"}]

\* A root that has an owner of its slot, a quarantine, or a lease published
\* before the collector looked is never taken away, whichever passes, starts
\* and admissions interleave: housekeeping.ts collectStaleRoots.
RootInUseStays ==
  [][\A k \in Key : dir[k] # "none" /\ dir'[k] = "none" => hold[k] = "idle" /\ lease[k] # "seen"]_vars

\* An entry whose directory is gone does not stay for ever: once stale, it is
\* dropped, unless the root is opened again (housekeeping.ts, the reverse
\* orphan of collectStaleRoots).
DeadEntriesGo ==
  \A k \in Key : (registry.seen[k] = "stale" /\ dir[k] = "none") ~> (registry.seen[k] # "stale" \/ dir[k] # "none")

\* Every registered root is maintained again and again, however little time a
\* pass has: housekeeping.ts:58-62.  Refuted with three roots and time for
\* one: the roots left over are sorted, and the last never comes first.
EveryRootIsReached ==
  \A k \in Key :
    \/ []<><<\E h \in Host : Maintains(h, k)>>_vars
    \/ []<>(registry.seen[k] = "absent" \/ dir[k] = "none")

\* A tree that was moved aside is still being deleted by somebody: nothing
\* else ever looks for it.  Refuted by a crash between the move and the
\* deletion (housekeeping.ts:479-487).
MovedAsideIsDeleted ==
  \A k \in grave : \E h \in Host : pass[h].phase = "moved" /\ pass[h].at = k

\* An interval between two passes ends because it is over.  Refuted by
\* rememberRuntime, which writes back a registry it read before the claim
\* (runtime.ts:191).
IntervalsAreKept ==
  [][registry.recent /\ ~registry'.recent => found' = found]_vars

=============================================================================
