----------------------------- MODULE Retention -----------------------------
(***************************************************************************)
(* What is kept of the completed runs of one storage scope, and how it     *)
(* goes: runner/retention.ts, runner/leases.ts and runner/reclamation.ts,  *)
(* with the reader of adapter/service.ts.                                  *)
(*                                                                         *)
(* A retention pass works under the root lock, which admission, release    *)
(* and reconciliation take for one step each.  Readers and reclamations    *)
(* take no lock: a reader publishes a lease file, a reclamation reads a    *)
(* record back before it writes it.  Which evictable runs a pass evicts   *)
(* is left open here: their ages and sizes are those of Eviction, where    *)
(* planEviction picks the set.                                             *)
(***************************************************************************)
EXTENDS Integers, FiniteSets, Eviction

CONSTANTS Run,           \* run ids
          Old,           \* runs completed before the model starts
          Isolated,      \* runs with a DerivedData directory of their own
          Reader,        \* inspections
          Sweeper,       \* threads that run retention passes
          Reclaimer,     \* threads that reclaim DerivedData
          NoRun, NoTime,
          Lifetime,      \* LEASE_LIFETIME_MS
          TombstoneLife, \* RETENTION.tombstoneLifetimeMs
          Horizon,       \* bound: the clock stops there
          MaxCrashes     \* bound: passes that die

ASSUME RetentionAssumption ==
  /\ Old \subseteq Run /\ Isolated \subseteq Run
  /\ NoRun \notin Run \cup Sweeper /\ NoTime \notin Int
  /\ Lifetime \in Nat \ {0} /\ TombstoneLife \in Nat \ {0}
  /\ Horizon \in Nat /\ MaxCrashes \in Nat

VARIABLES
  clock,       \* the wall clock every process reads
  lock,        \* the pass that holds the root lock, or NoRun
  place,       \* where a run's directory is
  done,        \* the record says completed
  cleaned,     \* the record says derivedDataCleaned
  tree,        \* the run's isolated DerivedData is on disk
  tombstone,   \* expiresAtMs of the tombstone, NoTime without one
  swept,       \* history: tombstones that served their time
  slot, quarantined,   \* queue.json
  build,       \* a run's processes: none, owned by a live host, or orphaned
  cache,       \* the shared build cache exists
  leases,      \* lease files
  reader,      \* per inspection: its phase, its run, its shield
  pass,        \* per sweeper: the retention pass
  job,         \* per reclaimer: the deletion in flight
  crashes

disk == <<place, done, cleaned, tree, tombstone, swept, cache>>
coordination == <<lock, slot, quarantined, build>>
vars == <<clock, disk, coordination, leases, reader, pass, job, crashes>>

Time == 0 .. Horizon
Place == {"unborn", "runs", "trash", "gone"}
Phase == {"off", "begun", "reconciled", "locked", "trash", "evicting", "moved", "announced"}
Pass == [phase : Phase, now : Time, idle : BOOLEAN, owner : Run \cup {NoRun},
         spared : SUBSET Run, doomed : SUBSET Run, victim : Run \cup {NoRun}]
Lease == [reader : Reader, run : Run, since : Time, readable : BOOLEAN]
Inspection == [phase : {"idle", "leased", "reading", "answered"}, run : Run \cup {NoRun},
               shield : BOOLEAN]
Job == [step : {"idle", "deleting", "deleted", "failed", "writing"}, run : Run \cup {NoRun},
        ok : BOOLEAN, copy : BOOLEAN]

Off == [phase |-> "off", now |-> 0, idle |-> FALSE, owner |-> NoRun,
        spared |-> {}, doomed |-> {}, victim |-> NoRun]
Idle == [phase |-> "idle", run |-> NoRun, shield |-> FALSE]
Answered == [Idle EXCEPT !.phase = "answered"]
NoJob == [step |-> "idle", run |-> NoRun, ok |-> FALSE, copy |-> FALSE]

Init ==
  /\ clock = 0 /\ lock = NoRun /\ slot = NoRun /\ quarantined = FALSE /\ cache = TRUE
  /\ place = [r \in Run |-> IF r \in Old THEN "runs" ELSE "unborn"]
  /\ done = [r \in Run |-> r \in Old]
  /\ cleaned = [r \in Run |-> FALSE]
  /\ tree = [r \in Run |-> r \in Old \cap Isolated]
  /\ tombstone = [r \in Run |-> NoTime] /\ swept = {}
  /\ build = [r \in Run |-> "none"]
  /\ leases = {} /\ reader = [e \in Reader |-> Idle]
  /\ pass = [i \in Sweeper |-> Off] /\ job = [j \in Reclaimer |-> NoJob] /\ crashes = 0

Tick == clock < Horizon /\ clock' = clock + 1
        /\ UNCHANGED <<disk, coordination, leases, reader, pass, job, crashes>>

-----------------------------------------------------------------------------
(* Runs, as far as retention sees them. *)

Admit(r) ==
  /\ lock = NoRun /\ slot = NoRun /\ ~quarantined /\ place[r] = "unborn"
  /\ slot' = r /\ build' = [build EXCEPT ![r] = "owned"]
  /\ place' = [place EXCEPT ![r] = "runs"] /\ tree' = [tree EXCEPT ![r] = r \in Isolated]
  /\ cache' = TRUE
  /\ UNCHANGED <<clock, lock, quarantined, done, cleaned, tombstone, swept, leases, reader, pass, job, crashes>>

\* Its processes have ended and its record says completed; no lock is taken.
Complete(r) ==
  /\ place[r] = "runs" /\ ~done[r] /\ build[r] = "none"
  /\ done' = [done EXCEPT ![r] = TRUE]
  /\ UNCHANGED <<clock, place, cleaned, tree, tombstone, swept, cache, coordination, leases, reader, pass, job, crashes>>

\* The build ends, or its host dies and leaves it behind.
BuildChanges(r) ==
  /\ \/ build[r] = "owned" /\ \E b \in {"none", "orphaned"} : build' = [build EXCEPT ![r] = b]
     \/ build[r] = "orphaned" /\ build' = [build EXCEPT ![r] = "none"]
  /\ UNCHANGED <<clock, disk, lock, slot, quarantined, leases, reader, pass, job, crashes>>

ReleaseSlot(r) ==
  /\ lock = NoRun /\ slot = r /\ done[r] /\ slot' = NoRun
  /\ UNCHANGED <<clock, disk, lock, quarantined, build, leases, reader, pass, job, crashes>>

-----------------------------------------------------------------------------
(* Read leases and the inspection they cover. *)

\* A lease that cannot be parsed is held as long as its file is young.
Held(l, now) == IF l.readable THEN l.since + Lifetime > now ELSE l.since + Lifetime >= now

\* A pass between its reading of the leases and its end.
Committed(i) == pass[i].phase \in {"trash", "evicting", "moved", "announced"}

\* acquireReadLease: the file may fail to be written, or end up unreadable.
Acquire(e, r) ==
  /\ reader[e].phase = "idle" /\ place[r] # "unborn"
  /\ ~\E l \in leases : l.reader = e
  /\ \/ /\ \E readable \in BOOLEAN :
             leases' = leases \cup {[reader |-> e, run |-> r, since |-> clock, readable |-> readable]}
        /\ reader' = [reader EXCEPT ![e] = [phase |-> "leased", run |-> r,
             shield |-> place[r] = "runs" /\ ~\E i \in Sweeper : Committed(i)]]
     \/ /\ reader' = [reader EXCEPT ![e] = [Idle EXCEPT !.phase = "leased", !.run = r]]
        /\ UNCHANGED leases
  /\ UNCHANGED <<clock, disk, coordination, pass, job, crashes>>

\* The index, and then the Result Bundle, which is read lazily.  A run that is
\* not there is answered: expired with a tombstone, notFound without one, and
\* incomplete when only the bundle is missing.
ReadIndex(e) ==
  /\ reader[e].phase = "leased"
  /\ reader' = [reader EXCEPT ![e] = IF place[@.run] = "runs" THEN [@ EXCEPT !.phase = "reading"] ELSE Answered]
  /\ UNCHANGED <<clock, disk, coordination, leases, pass, job, crashes>>

ReadBundle(e) ==
  /\ reader[e].phase = "reading"
  /\ reader' = [reader EXCEPT ![e] = Answered]
  /\ UNCHANGED <<clock, disk, coordination, leases, pass, job, crashes>>

\* release() in the finally block; a release that fails leaves the file.
Release(e) ==
  /\ reader[e].phase = "answered"
  /\ reader' = [reader EXCEPT ![e] = Idle]
  /\ leases' \in {leases, {l \in leases : l.reader # e}}
  /\ UNCHANGED <<clock, disk, coordination, pass, job, crashes>>

-----------------------------------------------------------------------------
(* One retention pass, from the clock it reads to the lock it gives back. *)

Begin(i) ==
  /\ pass[i].phase = "off"
  /\ pass' = [pass EXCEPT ![i] = [Off EXCEPT !.phase = "begun", !.now = clock]]
  /\ UNCHANGED <<clock, disk, coordination, leases, reader, job, crashes>>

\* Recovery, under the lock and then out of it: it releases the slot of a
\* completed run, quarantines one whose processes it cannot account for, and
\* says of which slot owner nothing is alive.
Reconcile(i) ==
  LET orphaned == \E r \in Run : build[r] = "orphaned"
      owner == IF orphaned \/ (slot \in Run /\ done[slot]) THEN NoRun ELSE slot
  IN
  /\ pass[i].phase = "begun" /\ lock = NoRun
  /\ slot' = owner /\ quarantined' = orphaned
  /\ pass' = [pass EXCEPT ![i].phase = "reconciled", ![i].owner = owner,
       ![i].idle = \A r \in Run : build[r] = "none"]
  /\ UNCHANGED <<clock, disk, lock, build, leases, reader, job, crashes>>

\* A deferred or failed reconciliation reaches no verdict.
NoVerdict(i) ==
  /\ pass[i].phase = "begun"
  /\ pass' = [pass EXCEPT ![i].phase = "reconciled"]
  /\ UNCHANGED <<clock, disk, coordination, leases, reader, job, crashes>>

\* Tried, not waited for: another pass may hold it, or an admission that is in
\* its critical section at this instant.
TakeLock(i) ==
  /\ pass[i].phase = "reconciled"
  /\ \/ lock = NoRun /\ lock' = i /\ pass' = [pass EXCEPT ![i].phase = "locked"]
     \/ pass' = [pass EXCEPT ![i] = Off] /\ UNCHANGED lock
  /\ UNCHANGED <<clock, disk, slot, quarantined, build, leases, reader, job, crashes>>

\* What must not be evicted: leased runs and the slot's, or everything when a
\* lease or the queue cannot be read.  Expired leases go as they are passed.
SparedTrusting(now, readable) ==
  IF ~readable THEN Run ELSE {l.run : l \in {k \in leases : k.readable /\ Held(k, now)}} \cup ({slot} \cap Run)

SparedUnfiltered(now, readable) ==
  {l.run : l \in {k \in leases : Held(k, now)}} \cup {slot}

Spared(now, readable) ==
  LET held == {l \in leases : Held(l, now)} IN
  IF ~readable \/ \E l \in held : ~l.readable
  THEN Run ELSE {l.run : l \in held} \cup ({slot} \cap Run)

ReadLeases(i) ==
  /\ pass[i].phase = "locked"
  /\ \E queueReadable \in BOOLEAN :
       pass' = [pass EXCEPT ![i].phase = "trash", ![i].spared = Spared(pass[i].now, queueReadable)]
  /\ leases' = {l \in leases : Held(l, pass[i].now)}
  /\ UNCHANGED <<clock, disk, coordination, reader, job, crashes>>

\* reconcileTrash: what a crash left there is announced, then deleted.
Republish(i, r) ==
  /\ pass[i].phase = "trash" /\ place[r] = "trash" /\ tombstone[r] = NoTime
  /\ tombstone' = [tombstone EXCEPT ![r] = pass[i].now + TombstoneLife]
  /\ UNCHANGED <<clock, place, done, cleaned, tree, swept, cache, coordination, leases, reader, pass, job, crashes>>

EmptyTrashUnannounced(i, r) ==
  /\ pass[i].phase = "trash" /\ place[r] = "trash"
  /\ place' = [place EXCEPT ![r] = "gone"]
  /\ UNCHANGED <<clock, done, cleaned, tree, tombstone, swept, cache, coordination, leases, reader, pass, job, crashes>>

EmptyTrash(i, r) ==
  /\ pass[i].phase = "trash" /\ place[r] = "trash" /\ tombstone[r] # NoTime
  /\ place' = [place EXCEPT ![r] = "gone"]
  /\ UNCHANGED <<clock, done, cleaned, tree, tombstone, swept, cache, coordination, leases, reader, pass, job, crashes>>

Evictable(i, r) ==
  /\ place[r] = "runs" /\ done[r] /\ r \notin pass[i].spared
  /\ r \in Isolated => cleaned[r]

\* A verdict overrides only the slot it was reached about; a quarantine stands.
MayReclaimCacheOnAnyVerdict(i) == ~quarantined /\ (slot # NoRun => pass[i].idle)

MayReclaimCache(i) ==
  /\ ~quarantined
  /\ slot # NoRun => pass[i].idle /\ pass[i].owner = slot

\* collectRuns, then the caches, then the plan.
Collect(i) ==
  /\ pass[i].phase = "trash" /\ \A r \in Run : place[r] # "trash"
  /\ cache' \in (IF MayReclaimCache(i) THEN {cache, FALSE} ELSE {cache})
  /\ \E doomed \in SUBSET {r \in Run : Evictable(i, r)} :
       pass' = [pass EXCEPT ![i] = [Off EXCEPT !.phase = "evicting", !.now = pass[i].now, !.doomed = doomed]]
  /\ UNCHANGED <<clock, place, done, cleaned, tree, tombstone, swept, coordination, leases, reader, job, crashes>>

\* evictRun: move, announce, delete.
MoveToTrash(i, r) ==
  /\ pass[i].phase = "evicting" /\ r \in pass[i].doomed
  /\ place' = [place EXCEPT ![r] = "trash"]
  /\ pass' = [pass EXCEPT ![i].phase = "moved", ![i].victim = r, ![i].doomed = @ \ {r}]
  /\ UNCHANGED <<clock, done, cleaned, tree, tombstone, swept, cache, coordination, leases, reader, job, crashes>>

Announce(i) ==
  /\ pass[i].phase = "moved"
  /\ tombstone' = [tombstone EXCEPT ![pass[i].victim] = pass[i].now + TombstoneLife]
  /\ pass' = [pass EXCEPT ![i].phase = "announced"]
  /\ UNCHANGED <<clock, place, done, cleaned, tree, swept, cache, coordination, leases, reader, job, crashes>>

Delete(i) ==
  /\ pass[i].phase = "announced"
  /\ place' = [place EXCEPT ![pass[i].victim] = "gone"]
  /\ pass' = [pass EXCEPT ![i].phase = "evicting", ![i].victim = NoRun]
  /\ UNCHANGED <<clock, done, cleaned, tree, tombstone, swept, cache, coordination, leases, reader, job, crashes>>

\* sweepTombstones by age, and the end of the pass.
Sweep(i) ==
  LET over == {r \in Run : tombstone[r] # NoTime /\ tombstone[r] <= pass[i].now} IN
  /\ pass[i].phase = "evicting" /\ pass[i].doomed = {}
  /\ tombstone' = [r \in Run |-> IF r \in over THEN NoTime ELSE tombstone[r]]
  /\ swept' = swept \cup over
  /\ pass' = [pass EXCEPT ![i] = Off] /\ lock' = NoRun
  /\ UNCHANGED <<clock, place, done, cleaned, tree, cache, slot, quarantined, build, leases, reader, job, crashes>>

\* The process dies, and with it the lock.
PassDies(i) ==
  /\ pass[i].phase # "off" /\ crashes < MaxCrashes
  /\ pass' = [pass EXCEPT ![i] = Off]
  /\ lock' = IF lock = i THEN NoRun ELSE lock
  /\ crashes' = crashes + 1
  /\ UNCHANGED <<clock, disk, slot, quarantined, build, leases, reader, job>>

-----------------------------------------------------------------------------
(* Reclaiming a completed run's isolated DerivedData. *)

Reclaimable(r) == place[r] = "runs" /\ done[r] /\ r \in Isolated /\ ~cleaned[r]

\* A reclamation in flight on this thread is joined, not repeated.
StartReclaim(j, r) ==
  /\ job[j] = NoJob /\ Reclaimable(r)
  /\ job' = [job EXCEPT ![j] = [NoJob EXCEPT !.step = "deleting", !.run = r]]
  /\ UNCHANGED <<clock, disk, coordination, leases, reader, pass, crashes>>

\* A deletion that fails may have deleted nothing.
DeleteTree(j) ==
  /\ job[j].step = "deleting"
  /\ \/ /\ tree' = [tree EXCEPT ![job[j].run] = FALSE]
        /\ job' = [job EXCEPT ![j].step = "deleted", ![j].ok = TRUE]
     \/ job' = [job EXCEPT ![j].step = "failed"] /\ UNCHANGED tree
  /\ UNCHANGED <<clock, place, done, cleaned, tombstone, swept, cache, coordination, leases, reader, pass, crashes>>

\* The record is read again: gone, or cleaned by another, ends it.
ReadBack(j) ==
  LET r == job[j].run
      over == place[r] # "runs" \/ (~job[j].ok /\ cleaned[r])
  IN
  /\ job[j].step \in {"deleted", "failed"}
  /\ job' = [job EXCEPT ![j] = IF over THEN NoJob ELSE [@ EXCEPT !.step = "writing", !.copy = cleaned[r]]]
  /\ UNCHANGED <<clock, disk, coordination, leases, reader, pass, crashes>>

\* The whole record is written from the copy just read.
WriteBack(j) ==
  LET r == job[j].run IN
  /\ job[j].step = "writing"
  /\ cleaned' = IF place[r] = "runs" THEN [cleaned EXCEPT ![r] = job[j].ok \/ job[j].copy] ELSE cleaned
  /\ job' = [job EXCEPT ![j] = NoJob]
  /\ UNCHANGED <<clock, place, done, tree, tombstone, swept, cache, coordination, leases, reader, pass, crashes>>

\* Its process ends before the deletion does; a later pass names the run again.
ReclaimerDies(j) ==
  /\ job[j] # NoJob
  /\ job' = [job EXCEPT ![j] = NoJob]
  /\ UNCHANGED <<clock, disk, coordination, leases, reader, pass, crashes>>

-----------------------------------------------------------------------------
RunStep(r) == Admit(r) \/ Complete(r) \/ BuildChanges(r) \/ ReleaseSlot(r)
ReaderStep(e) == (\E r \in Run : Acquire(e, r)) \/ ReadIndex(e) \/ ReadBundle(e) \/ Release(e)
PassStep(i) ==
  \/ Begin(i) \/ Reconcile(i) \/ NoVerdict(i) \/ TakeLock(i) \/ ReadLeases(i) \/ Collect(i)
  \/ \E r \in Run : Republish(i, r) \/ EmptyTrash(i, r) \/ MoveToTrash(i, r)
  \/ Announce(i) \/ Delete(i) \/ Sweep(i)
ReclaimStep(j) == (\E r \in Run : StartReclaim(j, r)) \/ DeleteTree(j) \/ ReadBack(j) \/ WriteBack(j) \/ ReclaimerDies(j)

Next ==
  \/ Tick
  \/ \E r \in Run : RunStep(r)
  \/ \E e \in Reader : ReaderStep(e)
  \/ \E i \in Sweeper : PassStep(i) \/ PassDies(i)
  \/ \E j \in Reclaimer : ReclaimStep(j)

Spec == Init /\ [][Next]_vars

-----------------------------------------------------------------------------
TypeOK ==
  /\ clock \in Time /\ lock \in Sweeper \cup {NoRun} /\ crashes \in 0 .. MaxCrashes
  /\ place \in [Run -> Place] /\ done \in [Run -> BOOLEAN] /\ cleaned \in [Run -> BOOLEAN]
  /\ tree \in [Run -> BOOLEAN] /\ tombstone \in [Run -> Int \cup {NoTime}] /\ swept \in SUBSET Run
  /\ slot \in Run \cup {NoRun} /\ quarantined \in BOOLEAN /\ cache \in BOOLEAN
  /\ build \in [Run -> {"none", "owned", "orphaned"}]
  /\ leases \in SUBSET Lease /\ reader \in [Reader -> Inspection]
  /\ pass \in [Sweeper -> Pass] /\ job \in [Reclaimer -> Job]

\* A run whose evidence was deleted was announced by a tombstone first, which
\* stood for its lifetime, whatever crashed on the way: retention.ts evictRun
\* and reconcileTrash.
GoneWasAnnounced ==
  \A r \in Run : place[r] = "gone" => tombstone[r] # NoTime \/ r \in swept

\* A lease published over a run that was there, while no pass had read the
\* leases yet, keeps the run where it is for as long as the lease lives:
\* leases.ts acquireReadLease against housekeeping.ts runHousekeeping.
LeaseProtects ==
  \A e \in Reader : \A l \in leases :
    reader[e].shield /\ l.reader = e /\ clock < l.since + Lifetime => place[reader[e].run] = "runs"

\* No pass deletes the shared cache under a build that may be writing into it,
\* whatever its verdict said of an earlier owner of the slot: retention.ts
\* reclaimCaches.
BuildKeepsItsCache ==
  [][cache /\ ~cache' => \A r \in Run : build[r] = "none"]_vars

\* Every pass over every inventory of roots takes what it has to, and no
\* evidence for bytes that are free already (retention.ts planEviction and
\* reclaimCaches, housekeeping.ts 214-216).  What a pass decides depends on no
\* variable, so one state is enough to evaluate it in.
EvictionIsWarranted == Init => \A roots \in Inventory : Warranted(roots)

\* No pass leaves a root over its target with evidence that may go (retention.ts
\* 128-134).  Refuted: the target is compared with the evictable runs alone.
RetainedWithinTarget == Init => \A roots \in Inventory : WithinTarget(roots)

\* An inspection of a run that was evicted is never answered notFound: the
\* header of retention.ts.  Refuted by a reader between the move and the
\* tombstone, and for as long as a crash there is not made good.
EvictedIsNotUnknown ==
  \A e \in Reader : reader[e].phase = "leased" =>
    ~(place[reader[e].run] \in {"trash", "gone"} /\ tombstone[reader[e].run] = NoTime
      /\ reader[e].run \notin swept)

=============================================================================
