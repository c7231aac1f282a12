--------------------------- MODULE RetentionProofs ---------------------------
(***************************************************************************)
(* What holds of the retained evidence of every storage scope, for any     *)
(* number of runs, readers, passes and reclamations: evidence is announced *)
(* before it is gone, a lease in time keeps its run, and a build its cache.*)
(* Then what a pass over all roots evicts, for any roots and any limits.   *)
(***************************************************************************)
EXTENDS Retention, Sums

\* The phases of a pass that holds the root lock, and of one that may evict.
Holding == {"locked", "trash", "evicting", "moved", "announced"}
Evicting == {"evicting", "moved", "announced"}

\* A pass works in its lock, with a time that was read before, and what it
\* moved away is a run.
PassInv ==
  \A i \in Sweeper :
    /\ pass[i].phase \in Holding => lock = i
    /\ pass[i].now <= clock
    /\ pass[i].phase \in {"moved", "announced"} => pass[i].victim \in Run

JobInv == \A j \in Reclaimer : job[j].step # "idle" => job[j].run \in Run

\* What is announced stays so until its announcement has served its time.
AnnouncedInv ==
  /\ GoneWasAnnounced
  /\ \A i \in Sweeper : pass[i].phase = "announced" => tombstone[pass[i].victim] # NoTime

\* What a pass that has read the leases may not touch.
Keeps(i, r) ==
  /\ pass[i].phase = "trash" => r \in pass[i].spared
  /\ pass[i].phase \in Evicting => r \notin pass[i].doomed /\ r # pass[i].victim

\* A lease that was in time is of its reader's run, and no pass that has read
\* the leases means to evict that run while it lives.
ShieldInv ==
  \A e \in Reader : \A l \in leases :
    reader[e].shield /\ l.reader = e =>
      /\ l.run = reader[e].run
      /\ clock < l.since + Lifetime => place[l.run] = "runs" /\ \A i \in Sweeper : Keeps(i, l.run)

\* One run builds at a time: the owner of the slot, or one that lost its host
\* and is the reason of a quarantine.
BuildInv ==
  /\ slot \in Run => place[slot] # "unborn"
  /\ \A r \in Run : done[r] => place[r] # "unborn"
  /\ \A r \in Run : build[r] # "none" =>
       /\ ~done[r]
       /\ slot = r \/ (quarantined /\ build[r] = "orphaned")
       /\ \A q \in Run : build[q] # "none" => q = r

\* A verdict that a slot's owner is idle stays true of that owner.
VerdictInv ==
  \A i \in Sweeper :
    pass[i].idle /\ pass[i].owner \in Run => place[pass[i].owner] # "unborn" /\ build[pass[i].owner] = "none"

IInv ==
  /\ TypeOK
  /\ PassInv
  /\ JobInv
  /\ AnnouncedInv
  /\ ShieldInv
  /\ BuildInv
  /\ VerdictInv

-----------------------------------------------------------------------------
(* What each actor leaves alone. *)

\* A run's own steps touch no lease, pass, tombstone or reclamation.
LEMMA RunFrame ==
  ASSUME NEW r \in Run, RunStep(r)
  PROVE  UNCHANGED <<clock, lock, tombstone, swept, leases, reader, pass, job, crashes>>
BY DEF RunStep, Admit, Complete, BuildChanges, ReleaseSlot, disk, coordination

\* An inspection changes only its lease and itself.
LEMMA ReaderFrame ==
  ASSUME NEW e \in Reader, ReaderStep(e)
  PROVE  UNCHANGED <<clock, lock, slot, quarantined, build, place, done, cleaned, tree,
                     tombstone, swept, cache, pass, job, crashes>>
BY DEF ReaderStep, Acquire, ReadIndex, ReadBundle, Release, disk, coordination

\* A reclamation changes only a run's DerivedData and its record of it.
LEMMA ReclaimFrame ==
  ASSUME NEW j \in Reclaimer, ReclaimStep(j)
  PROVE  UNCHANGED <<clock, lock, slot, quarantined, build, place, done,
                     tombstone, swept, cache, leases, reader, pass, crashes>>
BY DEF ReclaimStep, StartReclaim, DeleteTree, ReadBack, WriteBack, ReclaimerDies, disk, coordination

\* A pass changes no inspection, build, record or reclamation, and no other pass.
LEMMA PassFrame ==
  ASSUME TypeOK, NEW i \in Sweeper, PassStep(i) \/ PassDies(i)
  PROVE  /\ UNCHANGED <<clock, build, done, cleaned, tree, reader, job>>
         /\ \A k \in Sweeper : k # i => pass'[k] = pass[k]
BY DEF TypeOK, PassStep, PassDies, Begin, Reconcile, NoVerdict, TakeLock, ReadLeases, Collect,
       Republish, EmptyTrash, MoveToTrash, Announce, Delete, Sweep, disk, coordination

\* What was admitted stays admitted.
LEMMA PlacesHold ==
  ASSUME TypeOK, NEW i \in Sweeper, PassStep(i) \/ PassDies(i),
         NEW r \in Run, place[r] # "unborn"
  PROVE  place'[r] # "unborn"
BY DEF TypeOK, PassStep, PassDies, Begin, Reconcile, NoVerdict, TakeLock, ReadLeases, Collect,
       Republish, EmptyTrash, MoveToTrash, Announce, Delete, Sweep, disk

\* Until a pass reads the leases, it changes nothing of what is kept.
LEMMA BeforeTheLeases ==
  ASSUME TypeOK, NEW i \in Sweeper,
         Begin(i) \/ Reconcile(i) \/ NoVerdict(i) \/ TakeLock(i) \/ PassDies(i)
  PROVE  /\ UNCHANGED <<place, tombstone, swept, leases>>
         /\ pass'[i].phase \in {"off", "begun", "reconciled", "locked"}
<1>1. UNCHANGED <<place, tombstone, swept, leases>>
  BY DEF Begin, Reconcile, NoVerdict, TakeLock, PassDies, disk
<1>2. CASE Begin(i)
  BY <1>1, <1>2 DEF Begin, Off, TypeOK
<1>3. CASE Reconcile(i)
  <2>1. \E o, b : pass' = [pass EXCEPT ![i].phase = "reconciled", ![i].owner = o, ![i].idle = b]
    BY <1>3 DEF Reconcile
  <2>2. QED
    BY <1>1, <2>1 DEF TypeOK, Pass
<1>4. CASE NoVerdict(i)
  BY <1>1, <1>4 DEF NoVerdict, TypeOK, Pass
<1>5. CASE TakeLock(i)
  BY <1>1, <1>5 DEF TakeLock, TypeOK, Pass, Off
<1>6. CASE PassDies(i)
  BY <1>1, <1>6 DEF PassDies, TypeOK, Off
<1>7. QED
  BY <1>1, <1>2, <1>3, <1>4, <1>5, <1>6

-----------------------------------------------------------------------------
(* The steps. *)

\* A pass keeps its lock, and dies with it.
LEMMA PassesHold == IInv /\ [Next]_vars => PassInv'
<1> SUFFICES ASSUME IInv, [Next]_vars
             PROVE  PassInv'
  OBVIOUS
<1> USE RetentionAssumption DEF IInv
<1>1. CASE Tick
  BY <1>1 DEF Tick, disk, coordination, PassInv, TypeOK, Time, Pass
<1>2. ASSUME UNCHANGED <<clock, lock, pass>>
      PROVE  PassInv'
  BY <1>2 DEF PassInv
<1>3. ASSUME NEW i \in Sweeper, PassStep(i) \/ PassDies(i)
      PROVE  PassInv'
  <2>0. /\ clock' = clock /\ clock \in Int /\ i # NoRun
        /\ \A k \in Sweeper : k # i => pass'[k] = pass[k]
        /\ pass[i] \in Pass /\ pass[i].phase \in Phase
    BY <1>3, PassFrame DEF TypeOK, Time, Pass
  <2> DEFINE Good(k) == /\ pass'[k].phase \in Holding => lock' = k
                        /\ pass'[k].now <= clock
                        /\ pass'[k].phase \in {"moved", "announced"} => pass'[k].victim \in Run
  <2>1. Good(i) /\ (lock' = lock \/ (lock \in {NoRun, i}))
    <3>1. CASE Begin(i)
      BY <2>0, <3>1 DEF Begin, disk, coordination, TypeOK, Off, Holding, Pass, Time
    <3>2. CASE Reconcile(i)
      BY <2>0, <3>2 DEF Reconcile, PassInv, TypeOK, Holding, Pass, Time
    <3>3. CASE NoVerdict(i)
      BY <2>0, <3>3 DEF NoVerdict, disk, coordination, PassInv, TypeOK, Holding, Pass, Time
    <3>4. CASE TakeLock(i)
      BY <2>0, <3>4 DEF TakeLock, PassInv, TypeOK, Off, Holding, Pass, Time
    <3>5. CASE ReadLeases(i)
      BY <2>0, <3>5 DEF ReadLeases, disk, coordination, PassInv, TypeOK, Holding, Pass, Time
    <3>6. CASE Collect(i)
      BY <2>0, <3>6 DEF Collect, disk, coordination, PassInv, TypeOK, Off, Holding, Pass, Time
    <3>7. CASE \E r \in Run : Republish(i, r) \/ EmptyTrash(i, r)
      BY <2>0, <3>7 DEF Republish, EmptyTrash, coordination, PassInv
    <3>8. CASE \E r \in Run : MoveToTrash(i, r)
      BY <2>0, <3>8 DEF MoveToTrash, coordination, PassInv, TypeOK, Holding, Pass
    <3>9. CASE Announce(i) \/ Delete(i)
      BY <2>0, <3>9 DEF Announce, Delete, coordination, PassInv, TypeOK, Holding, Pass
    <3>10. CASE Sweep(i)
      BY <2>0, <3>10 DEF Sweep, PassInv, TypeOK, Off, Holding, Pass, Time
    <3>11. CASE PassDies(i)
      BY <2>0, <3>11 DEF PassDies, PassInv, TypeOK, Off, Holding, Pass, Time
    <3>12. QED
      BY <1>3, <3>1, <3>2, <3>3, <3>4, <3>5, <3>6, <3>7, <3>8, <3>9, <3>10, <3>11 DEF PassStep
  <2>2. ASSUME NEW k \in Sweeper, k # i
        PROVE  Good(k)
    BY <2>0, <2>1, <2>2 DEF PassInv
  <2>3. QED
    BY <2>0, <2>1, <2>2 DEF PassInv
<1>4. CASE UNCHANGED vars
  BY <1>2, <1>4 DEF vars, coordination
<1>5. QED
  BY <1>1, <1>2, <1>3, <1>4, RunFrame, ReaderFrame, ReclaimFrame DEF Next

\* A reclamation is of a run.
LEMMA JobsHold == IInv /\ [Next]_vars => JobInv'
<1> SUFFICES ASSUME IInv, [Next]_vars
             PROVE  JobInv'
  OBVIOUS
<1> USE DEF IInv
<1>1. ASSUME UNCHANGED job
      PROVE  JobInv'
  BY <1>1 DEF JobInv
<1>2. ASSUME NEW j \in Reclaimer, ReclaimStep(j)
      PROVE  JobInv'
  <2>1. CASE \E r \in Run : StartReclaim(j, r)
    BY <2>1 DEF StartReclaim, JobInv, TypeOK, NoJob
  <2>2. CASE DeleteTree(j)
    BY <2>2 DEF DeleteTree, JobInv, TypeOK, Job
  <2>3. CASE ReadBack(j)
    BY <2>3 DEF ReadBack, JobInv, TypeOK, NoJob, Job
  <2>4. CASE WriteBack(j) \/ ReclaimerDies(j)
    BY <2>4 DEF WriteBack, ReclaimerDies, JobInv, TypeOK, NoJob
  <2>5. QED
    BY <1>2, <2>1, <2>2, <2>3, <2>4 DEF ReclaimStep
<1>3. CASE Tick \/ UNCHANGED vars
  BY <1>1, <1>3 DEF Tick, vars
<1>4. QED
  BY <1>1, <1>2, <1>3, RunFrame, ReaderFrame, PassFrame DEF Next

\* A build starts with its run's admission, which no other build outlives.
LEMMA BuildsHold == IInv /\ [Next]_vars => BuildInv'
<1> SUFFICES ASSUME IInv, [Next]_vars
             PROVE  BuildInv'
  OBVIOUS
<1> USE RetentionAssumption DEF IInv
<1>1. ASSUME UNCHANGED <<slot, quarantined, build, done>>,
             \A r \in Run : place[r] # "unborn" => place'[r] # "unborn"
      PROVE  BuildInv'
  BY <1>1 DEF BuildInv
<1>2. ASSUME NEW r \in Run, RunStep(r)
      PROVE  BuildInv'
  <2>1. CASE Admit(r)
    <3>1. \A q \in Run : build[q] = "none"
      BY <2>1 DEF Admit, BuildInv
    <3>2. /\ slot' = r /\ place' = [place EXCEPT ![r] = "runs"] /\ quarantined' = quarantined /\ done' = done
          /\ build'[r] = "owned" /\ \A q \in Run : q # r => build'[q] = "none"
      BY <2>1, <3>1 DEF Admit, TypeOK
    <3>3. ~done[r]
      BY <2>1 DEF Admit, BuildInv
    <3>4. QED
      BY <3>2, <3>3 DEF BuildInv, TypeOK
  <2>2. CASE Complete(r)
    BY <2>2 DEF Complete, coordination, BuildInv, TypeOK
  <2>3. CASE BuildChanges(r)
    BY <2>3 DEF BuildChanges, disk, BuildInv, TypeOK
  <2>4. CASE ReleaseSlot(r)
    BY <2>4 DEF ReleaseSlot, disk, BuildInv, TypeOK
  <2>5. QED
    BY <1>2, <2>1, <2>2, <2>3, <2>4 DEF RunStep
<1>3. ASSUME NEW i \in Sweeper, PassStep(i) \/ PassDies(i)
      PROVE  BuildInv'
  <2>1. /\ UNCHANGED <<build, done>>
        /\ \A r \in Run : place[r] # "unborn" => place'[r] # "unborn"
    BY <1>3, PassFrame, PlacesHold
  <2>2. CASE Reconcile(i)
    BY <2>1, <2>2 DEF Reconcile, BuildInv, TypeOK
  <2>3. CASE ~Reconcile(i)
    <3>1. UNCHANGED <<slot, quarantined>>
      BY <1>3, <2>3 DEF PassStep, PassDies, Begin, NoVerdict, TakeLock, ReadLeases, Collect,
         Republish, EmptyTrash, MoveToTrash, Announce, Delete, Sweep, coordination
    <3>2. QED
      BY <1>1, <2>1, <3>1
  <2>4. QED
    BY <2>2, <2>3
<1>4. CASE Tick \/ UNCHANGED vars
  BY <1>1, <1>4 DEF Tick, vars, disk, coordination
<1>5. QED
  BY <1>1, <1>2, <1>3, <1>4, ReaderFrame, ReclaimFrame DEF Next

\* A verdict is about one owner of the slot, and a run is admitted once.
LEMMA VerdictsHold == IInv /\ [Next]_vars => VerdictInv'
<1> SUFFICES ASSUME IInv, [Next]_vars
             PROVE  VerdictInv'
  OBVIOUS
<1> USE RetentionAssumption DEF IInv
<1>1. ASSUME UNCHANGED <<pass, build>>,
             \A r \in Run : place[r] # "unborn" => place'[r] # "unborn"
      PROVE  VerdictInv'
  BY <1>1 DEF VerdictInv
<1>2. ASSUME NEW r \in Run, RunStep(r)
      PROVE  VerdictInv'
  <2>1. pass' = pass
    BY <1>2, RunFrame
  <2>2. \A q \in Run : place[q] # "unborn" => place'[q] # "unborn" /\ (build[q] = "none" => build'[q] = "none")
    <3>1. CASE Admit(r)
      BY <3>1 DEF Admit, TypeOK
    <3>2. CASE BuildChanges(r)
      BY <3>2 DEF BuildChanges, disk, TypeOK
    <3>3. CASE Complete(r) \/ ReleaseSlot(r)
      BY <3>3 DEF Complete, ReleaseSlot, disk, coordination
    <3>4. QED
      BY <1>2, <3>1, <3>2, <3>3 DEF RunStep
  <2>3. QED
    BY <2>1, <2>2 DEF VerdictInv
<1>3. ASSUME NEW i \in Sweeper, PassStep(i) \/ PassDies(i)
      PROVE  VerdictInv'
  <2>1. /\ UNCHANGED build
        /\ \A r \in Run : place[r] # "unborn" => place'[r] # "unborn"
        /\ \A k \in Sweeper : k # i => pass'[k] = pass[k]
    BY <1>3, PassFrame, PlacesHold
  <2>2. CASE Reconcile(i)
    <3>1. /\ pass'[i].idle => \A r \in Run : build[r] = "none"
          /\ pass'[i].owner \in Run => pass'[i].owner = slot
      <4>1. pass[i] \in Pass
        BY DEF TypeOK
      <4>2. \E o \in {NoRun, slot} :
              pass' = [pass EXCEPT ![i].phase = "reconciled", ![i].owner = o,
                         ![i].idle = \A r \in Run : build[r] = "none"]
        BY <2>2 DEF Reconcile
      <4>3. QED
        BY <4>1, <4>2 DEF TypeOK, Pass
    <3>2. QED
      BY <2>1, <3>1 DEF VerdictInv, BuildInv
  <2>3. CASE ~Reconcile(i)
    <3>1. \/ pass'[i].idle = pass[i].idle /\ pass'[i].owner = pass[i].owner
          \/ pass'[i].owner = NoRun
      <4>1. CASE Begin(i)
        BY <4>1 DEF Begin, Off, TypeOK, Pass
      <4>2. CASE Sweep(i) \/ PassDies(i)
        BY <4>2 DEF Sweep, PassDies, Off, TypeOK
      <4>3. CASE Collect(i)
        BY <4>3 DEF Collect, Off, TypeOK, Pass
      <4>4. CASE NoVerdict(i) \/ ReadLeases(i) \/ Announce(i) \/ Delete(i)
        BY <4>4 DEF NoVerdict, ReadLeases, Announce, Delete, TypeOK, Pass
      <4>5. CASE TakeLock(i)
        BY <4>5 DEF TakeLock, Off, TypeOK, Pass
      <4>6. CASE \E r \in Run : Republish(i, r) \/ EmptyTrash(i, r) \/ MoveToTrash(i, r)
        BY <4>6 DEF Republish, EmptyTrash, MoveToTrash, TypeOK, Pass
      <4>7. QED
        BY <1>3, <2>3, <4>1, <4>2, <4>4, <4>6, <4>5, <4>3 DEF PassStep
    <3>2. QED
      BY <2>1, <3>1 DEF VerdictInv
  <2>4. QED
    BY <2>2, <2>3
<1>4. CASE Tick \/ UNCHANGED vars
  BY <1>1, <1>4 DEF Tick, vars, disk, coordination
<1>5. QED
  BY <1>1, <1>2, <1>3, <1>4, ReaderFrame, ReclaimFrame DEF Next

\* A tombstone goes only when it has served its time, and evidence only after
\* its tombstone.
LEMMA AnnouncementsHold == IInv /\ [Next]_vars => AnnouncedInv'
<1> SUFFICES ASSUME IInv, [Next]_vars
             PROVE  AnnouncedInv'
  OBVIOUS
<1> USE RetentionAssumption DEF IInv
<1>1. ASSUME UNCHANGED <<tombstone, swept, pass>>,
             \A r \in Run : place'[r] = "gone" => place[r] = "gone"
      PROVE  AnnouncedInv'
  BY <1>1 DEF AnnouncedInv, GoneWasAnnounced
<1>2. ASSUME NEW r \in Run, RunStep(r)
      PROVE  AnnouncedInv'
  <2>1. \A q \in Run : place'[q] = "gone" => place[q] = "gone"
    BY <1>2 DEF RunStep, Admit, Complete, BuildChanges, ReleaseSlot, disk, TypeOK
  <2>2. QED
    BY <1>1, <1>2, <2>1, RunFrame
<1>3. ASSUME NEW i \in Sweeper, PassStep(i) \/ PassDies(i)
      PROVE  AnnouncedInv'
  <2>0. \A k \in Sweeper : k # i => pass'[k] = pass[k]
    BY <1>3, PassFrame
  <2>1. ASSUME \A r \in Run : tombstone[r] # NoTime => tombstone'[r] # NoTime,
               swept' = swept, pass'[i].phase # "announced",
               \A r \in Run : place'[r] = "gone" => place[r] = "gone" \/ tombstone[r] # NoTime
        PROVE  AnnouncedInv'
    BY <2>0, <2>1 DEF AnnouncedInv, GoneWasAnnounced, PassInv
  <2>2. CASE Begin(i) \/ Reconcile(i) \/ NoVerdict(i) \/ TakeLock(i) \/ PassDies(i)
    BY <2>1, <2>2, BeforeTheLeases
  <2>3. CASE ReadLeases(i)
    BY <2>1, <2>3 DEF ReadLeases, disk, TypeOK, Pass
  <2>4. CASE Collect(i)
    BY <2>1, <2>4 DEF Collect, TypeOK, Off, Pass
  <2>5. CASE \E r \in Run : Republish(i, r)
    <3>1. pass[i].now + TombstoneLife \in Int
      BY DEF TypeOK, Pass, Time
    <3>2. QED
      BY <2>1, <2>5, <3>1 DEF Republish, TypeOK, Pass, Time
  <2>6. CASE \E r \in Run : EmptyTrash(i, r)
    BY <2>1, <2>6 DEF EmptyTrash, TypeOK
  <2>7. CASE \E r \in Run : MoveToTrash(i, r)
    BY <2>1, <2>7 DEF MoveToTrash, TypeOK, Pass
  <2>8. CASE Announce(i)
    <3>1. pass[i].victim \in Run /\ pass[i].now + TombstoneLife \in Int
      BY <2>8 DEF Announce, PassInv, TypeOK, Pass, Time
    <3>2. /\ tombstone' = [tombstone EXCEPT ![pass[i].victim] = pass[i].now + TombstoneLife]
          /\ pass'[i].victim = pass[i].victim /\ UNCHANGED <<place, swept>>
      BY <2>8 DEF Announce, TypeOK, Pass
    <3>3. QED
      BY <2>0, <3>1, <3>2 DEF AnnouncedInv, GoneWasAnnounced, PassInv, TypeOK
  <2>9. CASE Delete(i)
    <3>1. pass[i].victim \in Run /\ tombstone[pass[i].victim] # NoTime
      BY <2>9 DEF Delete, PassInv, AnnouncedInv
    <3>2. pass'[i].phase # "announced" /\ UNCHANGED <<tombstone, swept>>
          /\ place' = [place EXCEPT ![pass[i].victim] = "gone"]
      BY <2>9 DEF Delete, TypeOK, Pass
    <3>3. QED
      BY <2>1, <3>1, <3>2 DEF TypeOK
  <2>10. CASE Sweep(i)
    <3>1. \A k \in Sweeper : pass'[k].phase # "announced"
      <4>1. pass'[i].phase = "off" /\ lock = i
        BY <2>10 DEF Sweep, TypeOK, Off, PassInv, Holding
      <4>2. QED
        BY <2>0, <4>1 DEF PassInv, Holding
    <3>2. place' = place /\ \A r \in Run : tombstone'[r] = NoTime => tombstone[r] = NoTime \/ r \in swept'
      BY <2>10 DEF Sweep
    <3>3. swept \subseteq swept'
      BY <2>10 DEF Sweep
    <3>4. QED
      BY <3>1, <3>2, <3>3 DEF AnnouncedInv, GoneWasAnnounced
  <2>11. QED
    BY <1>3, <2>2, <2>4, <2>5, <2>6, <2>7, <2>8, <2>9, <2>10, <2>3 DEF PassStep
<1>4. CASE Tick \/ UNCHANGED vars
  BY <1>1, <1>4 DEF Tick, vars, disk
<1>5. QED
  BY <1>1, <1>2, <1>3, <1>4, ReaderFrame, ReclaimFrame DEF Next

\* A lease in time stays out of the way of every pass.
LEMMA ShieldsHold == IInv /\ [Next]_vars => ShieldInv'
<1> SUFFICES ASSUME IInv, [Next]_vars
             PROVE  ShieldInv'
  OBVIOUS
<1> USE RetentionAssumption DEF IInv
<1>1. CASE Tick
  BY <1>1 DEF Tick, disk, ShieldInv, Keeps, TypeOK, Time, Lease
<1>2. ASSUME UNCHANGED <<clock, leases, reader, pass>>,
             \A r \in Run : place[r] = "runs" => place'[r] = "runs"
      PROVE  ShieldInv'
  BY <1>2 DEF ShieldInv, Keeps, TypeOK, Lease
<1>3. ASSUME NEW r \in Run, RunStep(r)
      PROVE  ShieldInv'
  <2>1. \A q \in Run : place[q] = "runs" => place'[q] = "runs"
    BY <1>3 DEF RunStep, Admit, Complete, BuildChanges, ReleaseSlot, disk, TypeOK
  <2>2. QED
    BY <1>2, <1>3, <2>1, RunFrame
<1>4. ASSUME NEW e \in Reader, ReaderStep(e)
      PROVE  ShieldInv'
  <2>1. UNCHANGED <<clock, place, pass>>
    BY <1>4, ReaderFrame
  <2>2. CASE \E r \in Run : Acquire(e, r)
    <3>1. PICK r \in Run : Acquire(e, r)
      BY <2>2
    <3>2. ASSUME NEW f \in Reader, NEW l \in leases', reader'[f].shield, l.reader = f
          PROVE  /\ l.run = reader'[f].run
                 /\ clock < l.since + Lifetime => place[l.run] = "runs" /\ \A i \in Sweeper : Keeps(i, l.run)
      <4>1. CASE f # e
        <5>1. l \in leases /\ reader'[f] = reader[f]
          BY <3>1, <3>2, <4>1 DEF Acquire, TypeOK, Lease
        <5>2. QED
          BY <3>2, <5>1 DEF ShieldInv
      <4>2. CASE f = e
        <5>1. /\ l.run = r /\ reader'[e].run = r
              /\ reader'[e].shield = (place[r] = "runs" /\ ~\E i \in Sweeper : Committed(i))
          BY <3>1, <3>2, <4>2 DEF Acquire, TypeOK, Lease, Idle
        <5>2. QED
          BY <3>2, <4>2, <5>1 DEF Keeps, Committed, Evicting
      <4>3. QED
        BY <4>1, <4>2
    <3>3. QED
      BY <2>1, <3>2 DEF ShieldInv, Keeps
  <2>3. CASE ReadIndex(e) \/ ReadBundle(e)
    <3>1. /\ leases' = leases /\ \A f \in Reader : f # e => reader'[f] = reader[f]
          /\ reader'[e].shield => reader[e].shield /\ reader'[e].run = reader[e].run
      BY <2>3 DEF ReadIndex, ReadBundle, TypeOK, Answered, Idle, Inspection
    <3>2. QED
      BY <2>1, <3>1 DEF ShieldInv, Keeps
  <2>4. CASE Release(e)
    <3>1. /\ leases' \subseteq leases /\ \A f \in Reader : f # e => reader'[f] = reader[f]
          /\ ~reader'[e].shield
      BY <2>4 DEF Release, TypeOK, Idle
    <3>2. QED
      BY <2>1, <3>1 DEF ShieldInv, Keeps
  <2>5. QED
    BY <1>4, <2>2, <2>3, <2>4 DEF ReaderStep
<1>5. ASSUME NEW i \in Sweeper, PassStep(i) \/ PassDies(i)
      PROVE  ShieldInv'
  <2>0. UNCHANGED <<clock, reader>> /\ \A k \in Sweeper : k # i => pass'[k] = pass[k]
    BY <1>5, PassFrame
  \* It is enough to look at one run that a lease keeps, and at this pass.
  <2>1. ASSUME leases' \subseteq leases,
               \A l \in leases' : clock < l.since + Lifetime /\ place[l.run] = "runs"
                 /\ (\A k \in Sweeper : Keeps(k, l.run)) => place'[l.run] = "runs" /\ Keeps(i, l.run)'
        PROVE  ShieldInv'
    BY <2>0, <2>1 DEF ShieldInv, Keeps
  <2>2. CASE Begin(i) \/ Reconcile(i) \/ NoVerdict(i) \/ TakeLock(i) \/ PassDies(i)
    BY <2>1, <2>2, BeforeTheLeases DEF Keeps, Evicting
  <2>3. CASE ReadLeases(i)
    <3>1. place' = place /\ leases' = {l \in leases : Held(l, pass[i].now)}
      BY <2>3 DEF ReadLeases, disk
    <3>2. PICK readable \in BOOLEAN : pass'[i].phase = "trash" /\ pass'[i].spared = Spared(pass[i].now, readable)
      BY <2>3 DEF ReadLeases, TypeOK, Pass
    <3>3. \A l \in leases' : l.run \in Spared(pass[i].now, readable)
      BY <3>1 DEF Spared, TypeOK, Lease
    <3>4. QED
      BY <2>1, <3>1, <3>2, <3>3 DEF Keeps, Evicting
  <2>4. CASE \E r \in Run : Republish(i, r) \/ EmptyTrash(i, r)
    <3>1. UNCHANGED <<leases, pass>> /\ \A r \in Run : place[r] = "runs" => place'[r] = "runs"
      BY <2>4 DEF Republish, EmptyTrash, TypeOK
    <3>2. QED
      BY <2>1, <3>1 DEF Keeps, TypeOK, Lease
  <2>5. CASE Collect(i)
    <3>1. PICK doomed \in SUBSET {r \in Run : Evictable(i, r)} :
            pass' = [pass EXCEPT ![i] = [Off EXCEPT !.phase = "evicting", !.now = pass[i].now, !.doomed = doomed]]
      BY <2>5 DEF Collect
    <3>2. /\ pass'[i].phase = "evicting" /\ pass'[i].doomed = doomed /\ pass'[i].victim = NoRun
          /\ pass[i].phase = "trash" /\ UNCHANGED <<leases, place>>
      BY <2>5, <3>1 DEF Collect, TypeOK, Off
    <3>3. QED
      BY <2>1, <3>1, <3>2 DEF Keeps, Evictable, Evicting, TypeOK, Lease
  <2>6. CASE \E r \in Run : MoveToTrash(i, r)
    <3>1. PICK r \in Run : MoveToTrash(i, r)
      BY <2>6
    <3>2. /\ r \in pass[i].doomed /\ pass[i].phase = "evicting" /\ leases' = leases
          /\ place' = [place EXCEPT ![r] = "trash"]
          /\ pass'[i].phase = "moved" /\ pass'[i].victim = r /\ pass'[i].doomed = pass[i].doomed \ {r}
      BY <3>1 DEF MoveToTrash, TypeOK, Pass
    <3>3. QED
      BY <2>1, <3>2 DEF Keeps, Evicting, TypeOK, Lease
  <2>7. CASE Announce(i)
    <3>1. /\ UNCHANGED <<leases, place>> /\ pass[i].phase = "moved" /\ pass'[i].phase = "announced"
          /\ pass'[i].doomed = pass[i].doomed /\ pass'[i].victim = pass[i].victim
      BY <2>7 DEF Announce, TypeOK, Pass
    <3>2. QED
      BY <2>1, <3>1 DEF Keeps, Evicting
  <2>8. CASE Delete(i)
    <3>1. /\ leases' = leases /\ place' = [place EXCEPT ![pass[i].victim] = "gone"]
          /\ pass[i].phase = "announced" /\ pass'[i].phase = "evicting"
          /\ pass'[i].doomed = pass[i].doomed /\ pass'[i].victim = NoRun
      BY <2>8 DEF Delete, TypeOK, Pass
    <3>2. QED
      BY <2>1, <3>1 DEF Keeps, Evicting, TypeOK, Lease
  <2>9. CASE Sweep(i)
    BY <2>1, <2>9 DEF Sweep, Keeps, Evicting, TypeOK, Off
  <2>10. QED
    BY <1>5, <2>2, <2>3, <2>4, <2>5, <2>6, <2>7, <2>8, <2>9 DEF PassStep
<1>6. CASE UNCHANGED vars
  BY <1>2, <1>6 DEF vars, disk
<1>7. QED
  BY <1>1, <1>2, <1>3, <1>4, <1>5, <1>6, ReclaimFrame DEF Next

\* Every variable keeps its type.
LEMMA TypesHold == IInv /\ [Next]_vars => TypeOK'
<1> SUFFICES ASSUME IInv, [Next]_vars
             PROVE  TypeOK'
  OBVIOUS
<1> USE RetentionAssumption DEF IInv
<1>1. CASE Tick
  BY <1>1 DEF Tick, disk, coordination, TypeOK, Time
<1>2. ASSUME NEW r \in Run, RunStep(r)
      PROVE  TypeOK'
  <2>1. /\ place' \in [Run -> Place] /\ done' \in [Run -> BOOLEAN] /\ cleaned' \in [Run -> BOOLEAN]
        /\ tree' \in [Run -> BOOLEAN] /\ slot' \in Run \cup {NoRun} /\ quarantined' \in BOOLEAN
        /\ cache' \in BOOLEAN /\ build' \in [Run -> {"none", "owned", "orphaned"}]
    <3>1. CASE Admit(r)
      BY <3>1 DEF Admit, TypeOK, Place
    <3>2. CASE Complete(r)
      BY <3>2 DEF Complete, coordination, TypeOK
    <3>3. CASE BuildChanges(r)
      BY <3>3 DEF BuildChanges, disk, TypeOK
    <3>4. CASE ReleaseSlot(r)
      BY <3>4 DEF ReleaseSlot, disk, TypeOK
    <3>5. QED
      BY <1>2, <3>1, <3>2, <3>3, <3>4 DEF RunStep
  <2>2. QED
    BY <1>2, <2>1, RunFrame DEF TypeOK
<1>3. ASSUME NEW e \in Reader, ReaderStep(e)
      PROVE  TypeOK'
  <2>1. leases' \in SUBSET Lease
    <3>1. CASE \E r \in Run : Acquire(e, r)
      BY <3>1 DEF Acquire, TypeOK, Lease
    <3>2. CASE ReadIndex(e) \/ ReadBundle(e) \/ Release(e)
      BY <3>2 DEF ReadIndex, ReadBundle, Release, TypeOK
    <3>3. QED
      BY <1>3, <3>1, <3>2 DEF ReaderStep
  <2>2. reader' \in [Reader -> Inspection]
    <3>1. CASE \E r \in Run : Acquire(e, r)
      <4>1. PICK r \in Run : Acquire(e, r)
        BY <3>1
      <4>2. \E x \in {[phase |-> "leased", run |-> r,
                         shield |-> place[r] = "runs" /\ ~\E i \in Sweeper : Committed(i)],
                       [Idle EXCEPT !.phase = "leased", !.run = r]} : reader' = [reader EXCEPT ![e] = x]
        BY <4>1 DEF Acquire
      <4>3. /\ [phase |-> "leased", run |-> r,
                shield |-> place[r] = "runs" /\ ~\E i \in Sweeper : Committed(i)] \in Inspection
            /\ [Idle EXCEPT !.phase = "leased", !.run = r] \in Inspection
        BY DEF Inspection, Idle
      <4>4. QED
        BY <4>2, <4>3 DEF TypeOK
    <3>2. CASE ReadIndex(e) \/ ReadBundle(e)
      <4>1. \E x \in {Answered, [reader[e] EXCEPT !.phase = "reading"]} : reader' = [reader EXCEPT ![e] = x]
        BY <3>2 DEF ReadIndex, ReadBundle, TypeOK
      <4>2. Answered \in Inspection /\ [reader[e] EXCEPT !.phase = "reading"] \in Inspection
        BY DEF TypeOK, Inspection, Answered, Idle
      <4>3. QED
        BY <4>1, <4>2 DEF TypeOK
    <3>3. CASE Release(e)
      BY <3>3 DEF Release, TypeOK, Inspection, Idle
    <3>4. QED
      BY <1>3, <3>1, <3>2, <3>3 DEF ReaderStep
  <2>3. QED
    BY <1>3, <2>1, <2>2, ReaderFrame DEF TypeOK
<1>4. ASSUME NEW i \in Sweeper, PassStep(i) \/ PassDies(i)
      PROVE  TypeOK'
  <2>1. pass' \in [Sweeper -> Pass]
    <3>0. pass[i] \in Pass /\ Off \in Pass
      BY DEF TypeOK, Pass, Phase, Off, Time
    <3>1. ASSUME \E x \in Pass : pass' = [pass EXCEPT ![i] = x]
          PROVE  pass' \in [Sweeper -> Pass]
      BY <3>1 DEF TypeOK
    <3>2. ASSUME NEW p \in Phase, pass' = [pass EXCEPT ![i].phase = p]
          PROVE  pass' \in [Sweeper -> Pass]
      <4>1. [pass[i] EXCEPT !.phase = p] \in Pass
        BY <3>0 DEF Pass
      <4>2. QED
        BY <3>1, <3>2, <4>1
    <3>3. CASE Begin(i)
      <4>1. [Off EXCEPT !.phase = "begun", !.now = clock] \in Pass
        BY DEF Off, Pass, Phase, TypeOK
      <4>2. QED
        BY <3>1, <3>3, <4>1 DEF Begin
    <3>4. CASE PassDies(i) \/ Sweep(i)
      BY <3>0, <3>1, <3>4 DEF PassDies, Sweep
    <3>5. CASE Reconcile(i)
      <4>1. PICK o \in Run \cup {NoRun}, b \in BOOLEAN :
              pass' = [pass EXCEPT ![i].phase = "reconciled", ![i].owner = o, ![i].idle = b]
        BY <3>5 DEF Reconcile, TypeOK
      <4>2. [pass[i] EXCEPT !.phase = "reconciled", !.owner = o, !.idle = b] \in Pass
        BY <3>0 DEF Pass, Phase
      <4>3. QED
        BY <3>1, <4>1, <4>2
    <3>6. CASE NoVerdict(i)
      BY <3>2, <3>6 DEF NoVerdict, Phase
    <3>7. CASE TakeLock(i)
      BY <3>0, <3>1, <3>2, <3>7 DEF TakeLock, Phase
    <3>8. CASE ReadLeases(i)
      <4>1. PICK readable \in BOOLEAN :
              pass' = [pass EXCEPT ![i].phase = "trash", ![i].spared = Spared(pass[i].now, readable)]
        BY <3>8 DEF ReadLeases
      <4>2. Spared(pass[i].now, readable) \in SUBSET Run
        BY DEF Spared, TypeOK, Lease
      <4>3. [pass[i] EXCEPT !.phase = "trash", !.spared = Spared(pass[i].now, readable)] \in Pass
        BY <3>0, <4>2 DEF Pass, Phase
      <4>4. QED
        BY <3>1, <4>1, <4>3
    <3>9. CASE Collect(i)
      <4>1. PICK doomed \in SUBSET {r \in Run : Evictable(i, r)} :
              pass' = [pass EXCEPT ![i] = [Off EXCEPT !.phase = "evicting", !.now = pass[i].now, !.doomed = doomed]]
        BY <3>9 DEF Collect
      <4>2. [Off EXCEPT !.phase = "evicting", !.now = pass[i].now, !.doomed = doomed] \in Pass
        BY <3>0 DEF Off, Pass, Phase
      <4>3. QED
        BY <3>1, <4>1, <4>2
    <3>10. CASE \E r \in Run : Republish(i, r) \/ EmptyTrash(i, r)
      BY <3>10 DEF Republish, EmptyTrash, TypeOK
    <3>11. CASE \E r \in Run : MoveToTrash(i, r)
      <4>1. PICK r \in Run :
              pass' = [pass EXCEPT ![i].phase = "moved", ![i].victim = r, ![i].doomed = @ \ {r}]
        BY <3>11 DEF MoveToTrash
      <4>2. [pass[i] EXCEPT !.phase = "moved", !.victim = r, !.doomed = @ \ {r}] \in Pass
        BY <3>0 DEF Pass, Phase
      <4>3. QED
        BY <3>1, <4>1, <4>2
    <3>12. CASE Announce(i)
      BY <3>2, <3>12 DEF Announce, Phase
    <3>13. CASE Delete(i)
      <4>1. [pass[i] EXCEPT !.phase = "evicting", !.victim = NoRun] \in Pass
        BY <3>0 DEF Pass, Phase
      <4>2. QED
        BY <3>1, <3>13, <4>1 DEF Delete
    <3>14. QED
      BY <1>4, <3>3, <3>4, <3>5, <3>6, <3>7, <3>8, <3>9, <3>10, <3>11, <3>12, <3>13 DEF PassStep
  <2>2. /\ place' \in [Run -> Place] /\ tombstone' \in [Run -> Int \cup {NoTime}] /\ swept' \in SUBSET Run
    <3>1. pass[i].now + TombstoneLife \in Int
      BY DEF TypeOK, Pass, Time
    <3>2. CASE Begin(i) \/ Reconcile(i) \/ NoVerdict(i) \/ TakeLock(i) \/ PassDies(i)
      BY <3>2, BeforeTheLeases DEF TypeOK
    <3>3. CASE ReadLeases(i) \/ Collect(i)
      BY <3>3 DEF ReadLeases, Collect, disk, TypeOK
    <3>4. CASE \E r \in Run : Republish(i, r) \/ EmptyTrash(i, r) \/ MoveToTrash(i, r)
      BY <3>1, <3>4 DEF Republish, EmptyTrash, MoveToTrash, TypeOK, Place
    <3>5. CASE Announce(i) \/ Delete(i)
      BY <3>1, <3>5 DEF Announce, Delete, TypeOK, Place
    <3>6. CASE Sweep(i)
      BY <3>6 DEF Sweep, TypeOK
    <3>7. QED
      BY <1>4, <3>2, <3>3, <3>4, <3>5, <3>6 DEF PassStep
  <2>3. /\ lock' \in Sweeper \cup {NoRun} /\ slot' \in Run \cup {NoRun} /\ quarantined' \in BOOLEAN
        /\ cache' \in BOOLEAN /\ leases' \in SUBSET Lease /\ crashes' \in 0 .. MaxCrashes
    <3>1. CASE Reconcile(i)
      BY <3>1 DEF Reconcile, disk, TypeOK
    <3>2. CASE PassDies(i)
      BY <3>2, RetentionAssumption DEF PassDies, disk, TypeOK
    <3>3. CASE ~Reconcile(i) /\ ~PassDies(i)
      BY <1>4, <3>3 DEF PassStep, Begin, NoVerdict, TakeLock, ReadLeases, Collect,
         Republish, EmptyTrash, MoveToTrash, Announce, Delete, Sweep, disk, coordination, TypeOK
    <3>4. QED
      BY <3>1, <3>2, <3>3
  <2>4. QED
    BY <1>4, <2>1, <2>2, <2>3, PassFrame DEF TypeOK
<1>5. ASSUME NEW j \in Reclaimer, ReclaimStep(j)
      PROVE  TypeOK'
  <2>1. job' \in [Reclaimer -> Job]
    <3>0. job[j] \in Job /\ NoJob \in Job
      BY DEF TypeOK, Job, NoJob
    <3>1. ASSUME \E x \in Job : job' = [job EXCEPT ![j] = x]
          PROVE  job' \in [Reclaimer -> Job]
      BY <3>1 DEF TypeOK
    <3>2. CASE \E r \in Run : StartReclaim(j, r)
      <4>1. \A r \in Run : [NoJob EXCEPT !.step = "deleting", !.run = r] \in Job
        BY DEF NoJob, Job
      <4>2. QED
        BY <3>1, <3>2, <4>1 DEF StartReclaim
    <3>3. CASE DeleteTree(j)
      <4>1. [job[j] EXCEPT !.step = "deleted", !.ok = TRUE] \in Job /\ [job[j] EXCEPT !.step = "failed"] \in Job
        BY <3>0 DEF Job
      <4>2. \/ job' = [job EXCEPT ![j].step = "deleted", ![j].ok = TRUE]
            \/ job' = [job EXCEPT ![j].step = "failed"]
        BY <3>3 DEF DeleteTree
      <4>3. QED
        BY <3>1, <4>1, <4>2
    <3>4. CASE ReadBack(j)
      <4>1. cleaned[job[j].run] \in BOOLEAN
        BY <3>4 DEF ReadBack, JobInv, TypeOK
      <4>2. [job[j] EXCEPT !.step = "writing", !.copy = cleaned[job[j].run]] \in Job
        BY <3>0, <4>1 DEF Job
      <4>3. QED
        BY <3>0, <3>1, <3>4, <4>2 DEF ReadBack
    <3>5. CASE WriteBack(j) \/ ReclaimerDies(j)
      BY <3>0, <3>1, <3>5 DEF WriteBack, ReclaimerDies
    <3>6. QED
      BY <1>5, <3>2, <3>3, <3>4, <3>5 DEF ReclaimStep
  <2>2. cleaned' \in [Run -> BOOLEAN] /\ tree' \in [Run -> BOOLEAN]
    BY <1>5 DEF ReclaimStep, StartReclaim, DeleteTree, ReadBack, WriteBack, ReclaimerDies, disk, TypeOK, Job
  <2>3. QED
    BY <1>5, <2>1, <2>2, ReclaimFrame DEF TypeOK
<1>6. CASE UNCHANGED vars
  BY <1>6 DEF vars, disk, coordination, TypeOK
<1>7. QED
  BY <1>1, <1>2, <1>3, <1>4, <1>5, <1>6 DEF Next

-----------------------------------------------------------------------------
(* The theorems. *)

\* The initial states satisfy the invariant.
LEMMA InitHolds == Init => IInv
<1> SUFFICES ASSUME Init
             PROVE  IInv
  OBVIOUS
<1> USE RetentionAssumption
<1>1. TypeOK
  <2>1. Off \in Pass /\ Idle \in Inspection /\ NoJob \in Job
    BY DEF Time, Pass, Phase, Off, Inspection, Idle, Job, NoJob
  <2>2. pass \in [Sweeper -> Pass] /\ reader \in [Reader -> Inspection] /\ job \in [Reclaimer -> Job]
    BY <2>1 DEF Init
  <2>3. done \in [Run -> BOOLEAN] /\ cleaned \in [Run -> BOOLEAN] /\ tree \in [Run -> BOOLEAN]
    BY DEF Init
  <2>4. place \in [Run -> Place] /\ tombstone \in [Run -> Int \cup {NoTime}]
    BY DEF Init, Place
  <2>5. build \in [Run -> {"none", "owned", "orphaned"}]
    BY DEF Init
  <2>6. QED
    BY <2>2, <2>3, <2>4, <2>5 DEF Init, TypeOK, Time
<1>2. PassInv /\ JobInv /\ VerdictInv
  BY DEF Init, PassInv, JobInv, VerdictInv, Off, NoJob, Holding
<1>3. AnnouncedInv /\ ShieldInv
  BY DEF Init, AnnouncedInv, GoneWasAnnounced, ShieldInv, Off
<1>4. BuildInv
  BY DEF Init, BuildInv
<1>5. QED
  BY <1>1, <1>2, <1>3, <1>4 DEF IInv

\* The invariant holds throughout, for every set of runs, readers, passes and
\* reclamations, every lifetime and every number of crashes.
THEOREM RetentionInvariant == Spec => []IInv
<1>1. IInv /\ [Next]_vars => IInv'
  BY TypesHold, PassesHold, JobsHold, AnnouncementsHold, ShieldsHold, BuildsHold, VerdictsHold DEF IInv
<1>2. QED
  BY <1>1, InitHolds, PTL DEF Spec

\* Type correctness: Retention's TypeOK.
THEOREM RetentionTypes == Spec => []TypeOK
<1>1. IInv => TypeOK
  BY DEF IInv
<1>2. QED
  BY <1>1, RetentionInvariant, PTL

\* Deleted evidence was announced first, whatever crashed between the move,
\* the tombstone and the deletion: retention.ts evictRun and reconcileTrash.
THEOREM EvidenceIsAnnounced == Spec => []GoneWasAnnounced
<1>1. IInv => GoneWasAnnounced
  BY DEF IInv, AnnouncedInv
<1>2. QED
  BY <1>1, RetentionInvariant, PTL

\* A lease in time keeps its run in place against every pass: leases.ts
\* acquireReadLease and housekeeping.ts runHousekeeping.
THEOREM ReadersAreProtected == Spec => []LeaseProtects
<1>1. IInv => LeaseProtects
  BY DEF IInv, ShieldInv, LeaseProtects
<1>2. QED
  BY <1>1, RetentionInvariant, PTL

\* The shared cache is never deleted under a build: retention.ts reclaimCaches,
\* which trusts a verdict only about the slot it was reached for.
THEOREM CacheIsKept == Spec => BuildKeepsItsCache
<1> DEFINE Kept == cache /\ ~cache' => \A r \in Run : build[r] = "none"
<1>1. IInv /\ [Next]_vars => Kept
  <2> SUFFICES ASSUME IInv, [Next]_vars, cache, ~cache'
               PROVE  \A r \in Run : build[r] = "none"
    OBVIOUS
  <2>0. \A r \in Run : RunStep(r) => cache' \in {cache, TRUE}
    BY DEF RunStep, Admit, Complete, BuildChanges, ReleaseSlot, disk
  <2>1. PICK i \in Sweeper : Collect(i)
    BY <2>0, ReaderFrame, ReclaimFrame DEF Next, Tick, vars, disk, PassStep, PassDies,
       Begin, Reconcile, NoVerdict, TakeLock, ReadLeases,
       Republish, EmptyTrash, MoveToTrash, Announce, Delete, Sweep
  <2>2. MayReclaimCache(i)
    BY <2>1 DEF Collect
  <2>3. CASE slot = NoRun
    BY <2>2, <2>3, RetentionAssumption DEF MayReclaimCache, IInv, BuildInv
  <2>4. CASE slot # NoRun
    BY <2>2, <2>4, RetentionAssumption DEF MayReclaimCache, IInv, BuildInv, VerdictInv, TypeOK
  <2>5. QED
    BY <2>3, <2>4
<1>2. QED
  BY <1>1, RetentionInvariant, PTL DEF Spec, BuildKeepsItsCache

-----------------------------------------------------------------------------
(* Bytes, and the order in which they go. *)

\* Runs or caches: what has an id of its own, an age and bytes.
Sized(S) ==
  /\ IsFiniteSet(S)
  /\ \A x \in S : x.bytes \in Nat /\ x.age \in Int /\ x.id \in Int
  /\ \A x, y \in S : x.id = y.id => x = y

LEMMA SizedParts ==
  ASSUME NEW S, Sized(S), NEW T \in SUBSET S
  PROVE  Sized(T)
BY FS_Subset DEF Sized

\* BytesOf is a sum of the library.
LEMMA BytesSum ==
  ASSUME NEW S, Sized(S), NEW f, \A x \in S : f[x] = x.bytes
  PROVE  BytesOf(S) = SumFunctionOnSet(f, S)
<1> DEFINE P(it) == it = [u \in SUBSET S |->
                      IF u = {} THEN 0 ELSE (CHOOSE x \in u : TRUE).bytes + it[u \ {CHOOSE x \in u : TRUE}]]
           Q(it) == it = [u \in SUBSET S |->
                      IF u = {} THEN 0 ELSE f[CHOOSE x \in u : TRUE] + it[u \ {CHOOSE x \in u : TRUE}]]
<1>1. ASSUME NEW it PROVE P(it) <=> Q(it)
  <2>1. [u \in SUBSET S |-> IF u = {} THEN 0 ELSE (CHOOSE x \in u : TRUE).bytes + it[u \ {CHOOSE x \in u : TRUE}]]
          = [u \in SUBSET S |-> IF u = {} THEN 0 ELSE f[CHOOSE x \in u : TRUE] + it[u \ {CHOOSE x \in u : TRUE}]]
    <3>1. \A u \in SUBSET S : u # {} => f[CHOOSE x \in u : TRUE] = (CHOOSE x \in u : TRUE).bytes
      OBVIOUS
    <3>2. QED
      BY <3>1
  <2>2. QED
    BY <2>1
<1>2. BytesOf(S) = (CHOOSE it : P(it))[S]
  BY DEF BytesOf, MapThenSumSet, MapThenFoldSet
<1>3. SumFunctionOnSet(f, S) = (CHOOSE it : Q(it))[S]
  BY DEF SumFunctionOnSet, FoldFunctionOnSet, MapThenFoldSet
<1>4. (CHOOSE it : P(it)) = (CHOOSE it : Q(it))
  <2> HIDE DEF P, Q
  <2>1. QED
    BY <1>1
<1>5. QED
  BY <1>2, <1>3, <1>4

\* The bytes of a part, of the rest, and of one element more.
LEMMA BytesOfParts ==
  ASSUME NEW S, Sized(S), NEW T \in SUBSET S
  PROVE  /\ BytesOf(S) \in Nat /\ BytesOf(T) \in Nat /\ BytesOf(T) <= BytesOf(S)
         /\ BytesOf(S \ T) = BytesOf(S) - BytesOf(T)
<1> DEFINE f == [x \in S |-> x.bytes]
<1>1. \A x \in S : f[x] = x.bytes /\ f[x] \in Nat
  BY DEF Sized
<1>2. IsFiniteSet(S) /\ Sized(T) /\ Sized(S \ T)
  BY SizedParts DEF Sized
<1> HIDE DEF f
<1>3. /\ BytesOf(S) = SumFunctionOnSet(f, S)
      /\ BytesOf(T) = SumFunctionOnSet(f, T)
      /\ BytesOf(S \ T) = SumFunctionOnSet(f, S \ T)
  BY <1>1, <1>2, BytesSum
<1>4. SumFunctionOnSet(f, S) \in Nat
  BY <1>1, <1>2, SumStarts
<1>5. QED
  BY <1>1, <1>2, <1>3, <1>4, SumPart

LEMMA BytesWithout ==
  ASSUME NEW S, Sized(S), NEW x \in S
  PROVE  BytesOf(S) = x.bytes + BytesOf(S \ {x})
<1> DEFINE f == [y \in S |-> y.bytes]
<1>1. \A y \in S : f[y] = y.bytes /\ f[y] \in Nat
  BY DEF Sized
<1>2. IsFiniteSet(S) /\ Sized(S \ {x})
  BY SizedParts DEF Sized
<1> HIDE DEF f
<1>3. BytesOf(S) = SumFunctionOnSet(f, S) /\ BytesOf(S \ {x}) = SumFunctionOnSet(f, S \ {x})
  BY <1>1, <1>2, BytesSum
<1>4. SumFunctionOnSet(f, S) = f[x] + SumFunctionOnSet(f, S \ {x})
  BY <1>1, <1>2, SumRemove
<1>5. QED
  BY <1>1, <1>3, <1>4

\* Of two, one is older, and the order is strict.
LEMMA OlderOrders ==
  ASSUME NEW S, Sized(S), NEW x \in S, NEW y \in S
  PROVE  /\ ~Older(x, x)
         /\ x # y => Older(x, y) \/ Older(y, x)
         /\ ~(Older(x, y) /\ Older(y, x))
         /\ \A z \in S : Older(x, y) /\ Older(y, z) => Older(x, z)
BY DEF Sized, Older

\* Of runs or caches, one is the oldest.
LEMMA OldestExists ==
  ASSUME NEW S, Sized(S), S # {}
  PROVE  \E x \in S : \A y \in S : ~Older(y, x)
<1> DEFINE before(x) == {y \in S : Older(y, x)}
           F == {before(x) : x \in S}
<1>1. F \subseteq SUBSET S /\ F # {} /\ IsFiniteSet(S)
  <2>1. PICK x \in S : TRUE
    OBVIOUS
  <2>2. before(x) \in F
    OBVIOUS
  <2>3. IsFiniteSet(S)
    BY DEF Sized
  <2>4. QED
    BY <2>2, <2>3
<1>2. PICK T \in F : \A U \in F : U \subseteq T => U = T
  <2> HIDE DEF F
  <2>1. QED
    BY <1>1, SmallestExists
<1>3. PICK x \in S : T = before(x)
  OBVIOUS
<1>4. ASSUME NEW y \in S, Older(y, x) PROVE FALSE
  <2>1. before(y) \subseteq before(x) /\ y \in before(x) /\ y \notin before(y)
    BY <1>4, OlderOrders
  <2>2. before(y) \in F
    OBVIOUS
  <2>3. QED
    BY <1>2, <1>3, <2>1, <2>2
<1>5. QED
  BY <1>4

-----------------------------------------------------------------------------
(* One root. *)

\* What a byte target takes: no more than it has to, and enough of it.
LEMMA ShedTakes ==
  ASSUME NEW S, Sized(S), NEW total \in Int, NEW target \in Int
  PROVE  /\ Shed(S, total, target) \subseteq S
         /\ Shed(S, total, target) # {} => total > target
         /\ \A last \in Newest(Shed(S, total, target)) :
              total - BytesOf(Shed(S, total, target)) + last.bytes > target
         /\ \A T \in SUBSET S : \A x \in S \ T : Shed(S, total, target) \subseteq T /\ (\A y \in S \ T : ~Older(y, x))
              => total - BytesOf(T) <= target
<1> DEFINE taken == Shed(S, total, target)
           before(x) == {y \in S : Older(y, x)}
<1>1. taken = {x \in S : total - BytesOf(before(x)) > target}
  BY DEF Shed
<1>2. \A x \in S : BytesOf(before(x)) \in Nat
  <2>1. \A x \in S : before(x) \in SUBSET S
    OBVIOUS
  <2> HIDE DEF before
  <2>2. QED
    BY <2>1, BytesOfParts
<1>3. taken \subseteq S
  BY <1>1
<1> HIDE DEF taken
<1>4. taken # {} => total > target
  <2> HIDE DEF before
  <2>1. QED
    BY <1>1, <1>2
<1>5. ASSUME NEW last \in Newest(taken)
      PROVE  total - BytesOf(taken) + last.bytes > target
  <2>1. last \in taken /\ last \in S /\ taken \ {last} \subseteq before(last) /\ before(last) \in SUBSET S
    BY <1>3 DEF Newest
  <2>2. total - BytesOf(before(last)) > target
    BY <1>1, <2>1
  <2> HIDE DEF before
  <2>3. Sized(taken) /\ Sized(before(last))
    BY <1>3, <2>1, SizedParts
  <2>4. BytesOf(taken) = last.bytes + BytesOf(taken \ {last})
    BY <2>1, <2>3, BytesWithout
  <2>5. BytesOf(taken \ {last}) <= BytesOf(before(last)) /\ BytesOf(taken \ {last}) \in Nat
    BY <2>1, <2>3, BytesOfParts
  <2>6. last.bytes \in Nat
    BY <2>1 DEF Sized
  <2>7. QED
    BY <1>2, <2>1, <2>2, <2>4, <2>5, <2>6
<1>6. ASSUME NEW T \in SUBSET S, NEW x \in S \ T, taken \subseteq T, \A y \in S \ T : ~Older(y, x)
      PROVE  total - BytesOf(T) <= target
  <2>1. before(x) \subseteq T
    BY <1>6
  <2>2. total - BytesOf(before(x)) <= target
    <3>1. x \in S /\ x \notin taken
      BY <1>6
    <3> HIDE DEF before
    <3>2. QED
      BY <1>1, <1>2, <3>1
  <2> HIDE DEF before
  <2>3. BytesOf(before(x)) <= BytesOf(T) /\ BytesOf(T) \in Nat
    BY <2>1, SizedParts, BytesOfParts
  <2>4. QED
    BY <1>2, <2>2, <2>3
<1>7. QED
  BY <1>3, <1>4, <1>5, <1>6 DEF taken

\* The caches that go, and what it means for one to stay that could go.
LEMMA CachesReclaimed ==
  ASSUME NEW root, Sized(root.runs), Sized(root.caches), \A x \in root.caches : x.stuck \in BOOLEAN,
         RETENTION.perRoot \in Nat, RETENTION.userWide \in Nat, NEW userWide \in Int
  PROVE  /\ reclaimCaches(root, userWide) \subseteq root.caches
         /\ MayReclaim(root) /\ (\E x \in root.caches \ reclaimCaches(root, userWide) : ~x.stuck)
              => /\ BytesOf(root.runs) <= RETENTION.perRoot
                 /\ userWide - BytesOf(reclaimCaches(root, userWide)) <= RETENTION.userWide
<1> DEFINE gone == reclaimCaches(root, userWide)
           kept == BytesOf(root.runs) + BytesOf(root.caches)
           able == {x \in root.caches : ~x.stuck}
           old  == {x \in able : x.age > RETENTION.cacheMaxAge}
<1>1. gone = IF MayReclaim(root)
             THEN old \cup Shed(able, kept, RETENTION.perRoot) \cup Shed(able, userWide, RETENTION.userWide)
             ELSE {}
  BY DEF reclaimCaches
<1> DEFINE first == Shed(able, kept, RETENTION.perRoot)
           second == Shed(able, userWide, RETENTION.userWide)
<1>2. Sized(able) /\ able \subseteq root.caches
  <2>1. able \in SUBSET root.caches
    OBVIOUS
  <2>2. QED
    BY <2>1, SizedParts
<1>3. /\ BytesOf(root.runs) \in Nat /\ BytesOf(root.caches) \in Nat
      /\ BytesOf(able) \in Nat /\ BytesOf(able) <= BytesOf(root.caches)
  <2> HIDE DEF able
  <2>1. QED
    BY <1>2, BytesOfParts
<1>4. kept \in Int
  BY <1>3
<1>5. first \subseteq able /\ second \subseteq able /\ old \subseteq able
  <2> HIDE DEF able, kept
  <2>1. first \subseteq able /\ second \subseteq able
    BY <1>2, <1>4, ShedTakes
  <2>2. QED
    BY <2>1
<1> HIDE DEF gone, first, second, old
<1>6. gone \subseteq able
  BY <1>1, <1>5 DEF first, second
<1>7. ASSUME MayReclaim(root), able \ gone # {}
      PROVE  BytesOf(root.runs) <= RETENTION.perRoot /\ userWide - BytesOf(gone) <= RETENTION.userWide
  <2>0. gone = old \cup first \cup second
    BY <1>1, <1>7 DEF first, second
  <2>1. Sized(able \ gone)
    BY <1>2, SizedParts
  <2> HIDE DEF able
  <2>2. PICK x \in able \ gone : \A y \in able \ gone : ~Older(y, x)
    BY <1>7, <2>1, OldestExists
  <2>3. first \subseteq gone /\ second \subseteq gone /\ gone \in SUBSET able
    BY <1>6, <2>0
  <2> HIDE DEF kept
  <2>4. kept - BytesOf(gone) <= RETENTION.perRoot /\ userWide - BytesOf(gone) <= RETENTION.userWide
    BY <1>2, <1>4, <2>2, <2>3, ShedTakes DEF first, second
  <2>5. BytesOf(gone) \in Nat /\ BytesOf(gone) <= BytesOf(able)
    BY <1>2, <2>3, BytesOfParts
  <2>6. QED
    BY <1>3, <2>4, <2>5 DEF kept
<1>8. QED
  BY <1>2, <1>6, <1>7 DEF gone

\* The evidence a plan evicts, and what of the evictable it leaves.
Evicted(plan) == plan.certain \cup plan.userWide
LeftOf(S) == {r \in S : r.evictable}

\* What a plan takes for bytes it has to take, and what it leaves is within the
\* targets or spared.
LEMMA EvictionPlanned ==
  ASSUME NEW runs, Sized(runs), RETENTION.perRoot \in Nat, RETENTION.userWide \in Nat, NEW userWide \in Int,
         NEW plan, plan = planEviction(runs, userWide), NEW left, left = LeftOf(runs \ Evicted(plan))
  PROVE  /\ plan.certain \subseteq runs /\ plan.userWide \subseteq runs
         /\ plan.perRoot # {} => BytesOf(runs) > RETENTION.perRoot
         /\ plan.userWide # {} => userWide > RETENTION.userWide
         /\ \A last \in Newest(plan.userWide) :
              userWide - BytesOf(Evicted(plan)) + last.bytes > RETENTION.userWide
         /\ BytesOf(left) <= RETENTION.perRoot \/ left = Newest(left)
         /\ userWide - BytesOf(Evicted(plan)) <= RETENTION.userWide \/ left = Newest(left)
<1> DEFINE evictable == {r \in runs : r.evictable}
           young     == {r \in evictable : r.age <= RETENTION.maxAge}
           kept      == {r \in young : Cardinality({q \in young : Older(r, q)}) < RETENTION.maxCompletedRuns}
           newest    == Newest(evictable)
           spare     == kept \ newest
           perRoot   == Shed(spare, BytesOf(kept), RETENTION.perRoot)
           certain   == (evictable \ kept) \cup perRoot
           rest      == userWide - BytesOf(certain)
           among     == kept \ (perRoot \cup newest)
           taken     == Shed(among, rest, RETENTION.userWide)
<1>1. plan.certain = certain /\ plan.perRoot = perRoot /\ plan.userWide = taken
  BY DEF planEviction
<1>2. kept \subseteq evictable /\ evictable \subseteq runs
  OBVIOUS
<1>3. left = evictable \ (certain \cup taken)
  BY <1>1 DEF LeftOf, Evicted
<1>4. newest \subseteq evictable /\ \A x \in newest : \A y \in evictable \ {x} : Older(y, x)
  BY DEF Newest
<1>5. Sized(evictable) /\ Sized(kept) /\ Sized(spare) /\ Sized(among)
  <2>1. evictable \in SUBSET runs /\ kept \in SUBSET runs /\ spare \in SUBSET runs /\ among \in SUBSET runs
    BY <1>2
  <2>2. QED
    BY <2>1, SizedParts
<1> HIDE DEF evictable, young, kept, newest
<1>6. BytesOf(kept) \in Nat /\ BytesOf(kept) <= BytesOf(runs) /\ BytesOf(runs) \in Nat
  BY <1>2, BytesOfParts
<1>7. perRoot \subseteq spare /\ (perRoot # {} => BytesOf(kept) > RETENTION.perRoot)
  <2> HIDE DEF spare
  <2>1. BytesOf(kept) \in Int /\ RETENTION.perRoot \in Int
    BY <1>6
  <2>2. QED
    BY <1>5, <2>1, ShedTakes
<1> HIDE DEF perRoot
<1>8. certain \subseteq runs
  BY <1>2, <1>7
<1> HIDE DEF certain
<1>9. BytesOf(certain) \in Nat /\ rest \in Int /\ rest <= userWide
  <2>1. certain \in SUBSET runs
    BY <1>8
  <2>2. BytesOf(certain) \in Nat
    BY <2>1, BytesOfParts
  <2>3. QED
    BY <2>2
<1> HIDE DEF rest
<1>10. /\ taken \subseteq among
       /\ taken # {} => rest > RETENTION.userWide
       /\ \A last \in Newest(taken) : rest - BytesOf(taken) + last.bytes > RETENTION.userWide
  <2> HIDE DEF among
  <2>1. rest \in Int /\ RETENTION.userWide \in Int
    BY <1>9
  <2>2. QED
    BY <1>5, <2>1, ShedTakes
<1> HIDE DEF taken
<1>11. taken \subseteq runs /\ taken \cap certain = {}
  BY <1>2, <1>7, <1>10 DEF certain
<1>12. userWide - BytesOf(certain \cup taken) = rest - BytesOf(taken) /\ BytesOf(taken) \in Nat
  <2>1. certain \cup taken \in SUBSET runs /\ Sized(certain \cup taken)
    BY <1>8, <1>11, SizedParts
  <2>2. (certain \cup taken) \ certain = taken /\ certain \in SUBSET (certain \cup taken)
    BY <1>11
  <2>3. BytesOf(taken) = BytesOf(certain \cup taken) - BytesOf(certain)
    BY <2>1, <2>2, BytesOfParts
  <2>4. BytesOf(taken) \in Nat /\ BytesOf(certain \cup taken) \in Nat
    BY <1>11, <2>1, BytesOfParts
  <2>5. QED
    BY <1>9, <2>3, <2>4 DEF rest
<1>13. ASSUME left # Newest(left)
       PROVE  /\ BytesOf(left) <= RETENTION.perRoot
              /\ rest - BytesOf(taken) <= RETENTION.userWide
  <2> DEFINE others == left \ Newest(left)
  <2>1. left \subseteq evictable /\ left \subseteq kept
    BY <1>3 DEF certain
  <2>2. others # {} /\ others \subseteq left
    BY <1>13 DEF Newest
  <2>3. Sized(others)
    BY <1>2, <2>1, <2>2, SizedParts
  <2> HIDE DEF others
  <2>4. PICK x \in others : \A y \in others : ~Older(y, x)
    BY <2>2, <2>3, OldestExists
  <2>5. \A y \in left : ~Older(y, x)
    <3>1. ASSUME NEW y \in left, Older(y, x) PROVE FALSE
      <4>1. y \notin others
        BY <2>4, <3>1
      <4>2. x \in left /\ x # y
        BY <1>5, <2>1, <2>2, <3>1, OlderOrders
      <4>3. Older(x, y)
        BY <4>1, <4>2 DEF others, Newest
      <4>4. QED
        BY <1>5, <2>1, <3>1, <4>2, <4>3, OlderOrders
    <3>2. QED
      BY <3>1
  <2>6. x \in left /\ x \in kept /\ x \notin newest /\ x \notin certain /\ x \notin taken /\ x \notin perRoot
    <3>1. x \in left /\ x \notin Newest(left)
      BY <2>2, <2>4 DEF others
    <3>2. x \notin newest
      BY <1>4, <2>1, <3>1 DEF Newest
    <3>3. QED
      BY <1>3, <2>1, <3>1, <3>2 DEF certain
  <2> DEFINE gone == spare \ left
  <2>7. BytesOf(kept) - BytesOf(gone) <= RETENTION.perRoot
    <3>1. perRoot \subseteq gone
      BY <1>3, <1>7 DEF certain
    <3>2. gone \in SUBSET spare /\ x \in spare \ gone
      BY <2>6
    <3>3. \A y \in spare \ gone : ~Older(y, x)
      BY <2>5
    <3>4. BytesOf(kept) \in Int /\ RETENTION.perRoot \in Int
      BY <1>6
    <3> HIDE DEF gone, spare
    <3>5. QED
      BY <1>5, <3>1, <3>2, <3>3, <3>4, ShedTakes DEF perRoot
  <2>8. BytesOf(left) <= BytesOf(kept) - BytesOf(gone)
    <3>1. gone \in SUBSET kept /\ kept \ gone \in SUBSET kept /\ left \in SUBSET (kept \ gone)
      BY <2>1
    <3> HIDE DEF gone
    <3>2. BytesOf(kept \ gone) = BytesOf(kept) - BytesOf(gone) /\ Sized(kept \ gone)
      BY <1>5, <3>1, BytesOfParts, SizedParts
    <3>3. BytesOf(left) <= BytesOf(kept \ gone)
      BY <3>1, <3>2, BytesOfParts
    <3>4. QED
      BY <3>2, <3>3
  <2>9. rest - BytesOf(taken) <= RETENTION.userWide
    <3>1. among \ taken \subseteq left
      BY <1>2, <1>3 DEF certain
    <3>2. taken \in SUBSET among /\ x \in among \ taken
      BY <1>10, <2>6
    <3>3. \A y \in among \ taken : ~Older(y, x)
      BY <2>5, <3>1
    <3> HIDE DEF among
    <3>4. QED
      BY <1>5, <1>9, <3>2, <3>3, ShedTakes DEF taken
  <2>10. BytesOf(left) \in Nat /\ BytesOf(gone) \in Nat
    <3>1. left \in SUBSET kept /\ gone \in SUBSET kept
      BY <2>1
    <3> HIDE DEF gone
    <3>2. QED
      BY <1>5, <3>1, BytesOfParts
  <2>11. QED
    BY <1>6, <2>7, <2>8, <2>9, <2>10
<1>14. Evicted(plan) = certain \cup taken
  BY <1>1 DEF Evicted
<1>15. plan.certain \subseteq runs /\ plan.userWide \subseteq runs
  BY <1>1, <1>8, <1>11
<1>16. plan.perRoot # {} => BytesOf(runs) > RETENTION.perRoot
  BY <1>1, <1>6, <1>7
<1>17. plan.userWide # {} => userWide > RETENTION.userWide
  BY <1>1, <1>9, <1>10
<1>18. \A last \in Newest(plan.userWide) : userWide - BytesOf(Evicted(plan)) + last.bytes > RETENTION.userWide
  BY <1>1, <1>10, <1>12, <1>14
<1>19. QED
  BY <1>12, <1>13, <1>14, <1>15, <1>16, <1>17, <1>18

-----------------------------------------------------------------------------
(* The total that a pass carries from root to root. *)

\* A root that no crash has left trash in.
Tidy(root) == root \in Root /\ Listed(root.runs) /\ Listed(root.caches) /\ root.trash = 0

LEMMA TidyIsSized ==
  ASSUME NEW root, Tidy(root)
  PROVE  /\ Sized(root.runs) /\ Sized(root.caches) /\ \A x \in root.caches : x.stuck \in BOOLEAN
         /\ OnDisk(root) = BytesOf(root.runs) + BytesOf(root.caches) /\ OnDisk(root) \in Nat
<1>1. Sized(root.runs) /\ Sized(root.caches) /\ \A x \in root.caches : x.stuck \in BOOLEAN
  BY DEF Tidy, Root, Listed, Sized, Evidence, BuildCache
<1>2. BytesOf(root.runs) \in Nat /\ BytesOf(root.caches) \in Nat
  BY <1>1, BytesOfParts
<1>3. QED
  BY <1>1, <1>2 DEF OnDisk, Tidy

\* The total is a sum of the library.
LEMMA TotalSum ==
  ASSUME NEW n \in Nat, NEW roots, DOMAIN roots = 1 .. n, \A k \in 1 .. n : Tidy(roots[k]),
         NEW f, \A k \in 1 .. n : f[k] = OnDisk(roots[k])
  PROVE  totalToolBytes(roots) = SumFunctionOnSet(f, 1 .. n)
<1> DEFINE P(it) == it = [u \in SUBSET (1 .. n) |->
                      IF u = {} THEN 0 ELSE OnDisk(roots[CHOOSE x \in u : TRUE]) + it[u \ {CHOOSE x \in u : TRUE}]]
           Q(it) == it = [u \in SUBSET (1 .. n) |->
                      IF u = {} THEN 0 ELSE f[CHOOSE x \in u : TRUE] + it[u \ {CHOOSE x \in u : TRUE}]]
<1>1. ASSUME NEW it PROVE P(it) <=> Q(it)
  <2>1. [u \in SUBSET (1 .. n) |-> IF u = {} THEN 0 ELSE OnDisk(roots[CHOOSE x \in u : TRUE]) + it[u \ {CHOOSE x \in u : TRUE}]]
          = [u \in SUBSET (1 .. n) |-> IF u = {} THEN 0 ELSE f[CHOOSE x \in u : TRUE] + it[u \ {CHOOSE x \in u : TRUE}]]
    <3>1. \A u \in SUBSET (1 .. n) : u # {} => f[CHOOSE x \in u : TRUE] = OnDisk(roots[CHOOSE x \in u : TRUE])
      OBVIOUS
    <3>2. QED
      BY <3>1
  <2>2. QED
    BY <2>1
<1>2. totalToolBytes(roots) = (CHOOSE it : P(it))[1 .. n]
  BY DEF totalToolBytes, MapThenSumSet, MapThenFoldSet
<1>3. SumFunctionOnSet(f, 1 .. n) = (CHOOSE it : Q(it))[1 .. n]
  BY DEF SumFunctionOnSet, FoldFunctionOnSet, MapThenFoldSet
<1>4. (CHOOSE it : P(it)) = (CHOOSE it : Q(it))
  <2> HIDE DEF P, Q
  <2>1. QED
    BY <1>1
<1>5. QED
  BY <1>2, <1>3, <1>4

\* A root that changes changes the total by as much.
LEMMA TotalChanges ==
  ASSUME NEW n \in Nat, NEW roots \in [1 .. n -> Root], \A k \in 1 .. n : Tidy(roots[k]),
         NEW k \in 1 .. n, NEW root, Tidy(root)
  PROVE  /\ totalToolBytes(roots) \in Nat
         /\ totalToolBytes([roots EXCEPT ![k] = root]) = totalToolBytes(roots) - OnDisk(roots[k]) + OnDisk(root)
<1> DEFINE later == [roots EXCEPT ![k] = root]
           f == [j \in 1 .. n |-> OnDisk(roots[j])]
           g == [j \in 1 .. n |-> OnDisk(later[j])]
<1>1. DOMAIN later = 1 .. n /\ \A j \in 1 .. n : later[j] = IF j = k THEN root ELSE roots[j]
  OBVIOUS
<1> HIDE DEF later
<1>2. \A j \in 1 .. n : Tidy(later[j])
  BY <1>1
<1>3. \A j \in 1 .. n : f[j] \in Nat /\ g[j] \in Nat
  BY <1>2, TidyIsSized
<1>4. f[k] = OnDisk(roots[k]) /\ g[k] = OnDisk(root) /\ \A j \in (1 .. n) \ {k} : f[j] = g[j]
  BY <1>1
<1>5. \A j \in 1 .. n : f[j] = OnDisk(roots[j]) /\ g[j] = OnDisk(later[j])
  OBVIOUS
<1> HIDE DEF f, g
<1>6. totalToolBytes(roots) = SumFunctionOnSet(f, 1 .. n) /\ totalToolBytes(later) = SumFunctionOnSet(g, 1 .. n)
  BY <1>1, <1>2, <1>5, TotalSum
<1> DEFINE N == 1 .. n
           M == N \ {k}
<1>7. IsFiniteSet(N) /\ IsFiniteSet(M) /\ k \in N
  <2>1. IsFiniteSet(N)
    BY FS_Interval
  <2>2. M \in SUBSET N
    OBVIOUS
  <2> HIDE DEF M
  <2>3. IsFiniteSet(M)
    BY <2>1, <2>2, FS_Subset
  <2>4. QED
    BY <2>1, <2>3
<1>8. \A j \in M : j \in N
  OBVIOUS
<1>9. (\A j \in N : f[j] \in Nat /\ g[j] \in Nat) /\ \A j \in M : f[j] = g[j]
  BY <1>3, <1>4
<1> HIDE DEF N
<1>10. SumFunctionOnSet(f, N) = f[k] + SumFunctionOnSet(f, M) /\ SumFunctionOnSet(g, N) = g[k] + SumFunctionOnSet(g, M)
  BY <1>7, <1>9, SumRemove
<1> HIDE DEF M
<1>11. SumFunctionOnSet(f, M) = SumFunctionOnSet(g, M)
  BY <1>7, <1>8, <1>9, SumSame
<1>12. SumFunctionOnSet(f, M) \in Nat /\ SumFunctionOnSet(f, N) \in Nat
  BY <1>7, <1>8, <1>9, SumStarts
<1>13. f[k] \in Nat /\ g[k] \in Nat
  BY <1>7, <1>9
<1>14. totalToolBytes(roots) = SumFunctionOnSet(f, N) /\ totalToolBytes(later) = SumFunctionOnSet(g, N)
  BY <1>6 DEF N
<1>15. QED
  BY <1>4, <1>10, <1>11, <1>12, <1>13, <1>14 DEF later

-----------------------------------------------------------------------------
(* A pass over n roots. *)

\* What a pass knows of its roots stays what is on their disks.
Informed(n, p) ==
  /\ p = [roots |-> p.roots, userWide |-> p.userWide, plan |-> p.plan]
  /\ p.roots \in [1 .. n -> Root] /\ \A k \in 1 .. n : Tidy(p.roots[k])
  /\ p.userWide = totalToolBytes(p.roots)

\* What a visit to the k-th root owes, whatever came before.
Warrants(after, k) == NothingFreedTwice(after, k) /\ CachesGoFirst(after, k) /\ TargetsAreMet(after, k)

\* A visit takes what it has to from its root, and credits the total with it.
LEMMA VisitWarranted ==
  ASSUME NEW n \in Nat, NEW k \in 1 .. n, NEW after, Informed(n, after[k - 1]), after[k] = Visit(after[k - 1], k),
         RETENTION.perRoot \in Nat, RETENTION.userWide \in Nat
  PROVE  Informed(n, after[k]) /\ Warrants(after, k)
<1>1. PICK p : p = after[k - 1]
  OBVIOUS
<1>2. PICK q : q = after[k]
  OBVIOUS
<1>3. PICK root : root = p.roots[k]
  OBVIOUS
<1>p. /\ p = [roots |-> p.roots, userWide |-> p.userWide, plan |-> p.plan]
      /\ p.roots \in [1 .. n -> Root] /\ \A j \in 1 .. n : Tidy(p.roots[j])
      /\ p.userWide = totalToolBytes(p.roots) /\ p.userWide \in Nat
      /\ Tidy(root) /\ root \in Root
      /\ q = Visit(p, k)
  <2>1. /\ p.roots \in [1 .. n -> Root] /\ \A j \in 1 .. n : Tidy(p.roots[j])
        /\ p.userWide = totalToolBytes(p.roots)
    BY <1>1 DEF Informed
  <2>2. Tidy(root)
    BY <1>3, <2>1
  <2>3. totalToolBytes(p.roots) \in Nat
    BY <2>1, <2>2, TotalChanges
  <2>4. QED
    BY <1>1, <1>2, <2>1, <2>2, <2>3 DEF Informed, Tidy
<1>4. CASE root.locked
  <2>1. q = [roots |-> p.roots, userWide |-> p.userWide, plan |-> NoPlan]
    BY <1>3, <1>4, <1>p DEF Visit
  <2>2. Informed(n, q)
    BY <1>p, <2>1 DEF Informed
  <2>3. q.plan.perRoot = {} /\ q.plan.userWide = {}
    BY <2>1 DEF NoPlan
  <2>4. NothingFreedTwice(after, k) /\ CachesGoFirst(after, k)
    BY <1>2, <2>3 DEF NothingFreedTwice, CachesGoFirst, Newest
  <2>5. TargetsAreMet(after, k)
    BY <1>2, <1>3, <1>4, <2>1 DEF TargetsAreMet
  <2>6. QED
    BY <1>2, <2>2, <2>4, <2>5 DEF Warrants
<1>5. CASE ~root.locked
  <2>1. PICK caches : caches = reclaimCaches(root, p.userWide)
    OBVIOUS
  <2>2. PICK plan : plan = planEviction(root.runs, p.userWide - BytesOf(caches))
    OBVIOUS
  <2>3. PICK left : left = [root EXCEPT !.trash = 0, !.runs = root.runs \ Evicted(plan), !.caches = root.caches \ caches]
    OBVIOUS
  <2>4. PICK freed : freed = BytesOf(Evicted(plan)) + BytesOf(caches)
    OBVIOUS
  <2>5. q = [roots |-> [p.roots EXCEPT ![k] = left], userWide |-> p.userWide - freed, plan |-> plan]
    <3>1. runRetention(root, p.userWide) = [root |-> left, plan |-> plan, bytesFreed |-> freed]
      BY <2>1, <2>2, <2>3, <2>4 DEF runRetention, Evicted
    <3>2. q = Carried(p, k, runRetention(root, p.userWide))
      BY <1>3, <1>5, <1>p DEF Visit
    <3>3. QED
      BY <3>1, <3>2 DEF Carried
  <2>6. /\ left \in Root /\ left.runs = root.runs \ Evicted(plan) /\ left.caches = root.caches \ caches
        /\ left.trash = 0 /\ left.slot = root.slot /\ left.locked = root.locked
    BY <1>p, <2>3 DEF Root
  <2>7. Sized(root.runs) /\ Sized(root.caches) /\ \A x \in root.caches : x.stuck \in BOOLEAN
    BY <1>p, TidyIsSized
  <2>8. /\ caches \subseteq root.caches
        /\ MayReclaim(root) /\ (\E x \in root.caches \ caches : ~x.stuck)
              => /\ BytesOf(root.runs) <= RETENTION.perRoot
                 /\ p.userWide - BytesOf(caches) <= RETENTION.userWide
    BY <1>p, <2>1, <2>7, CachesReclaimed
  <2>9. BytesOf(caches) \in Nat /\ BytesOf(root.caches \ caches) = BytesOf(root.caches) - BytesOf(caches)
    BY <2>7, <2>8, BytesOfParts
  <2>10. /\ Evicted(plan) \subseteq root.runs
         /\ plan.perRoot # {} => BytesOf(root.runs) > RETENTION.perRoot
         /\ plan.userWide # {} => p.userWide - BytesOf(caches) > RETENTION.userWide
         /\ \A last \in Newest(plan.userWide) :
              p.userWide - BytesOf(caches) - BytesOf(Evicted(plan)) + last.bytes > RETENTION.userWide
         /\ \/ BytesOf(LeftOf(left.runs)) <= RETENTION.perRoot
            \/ LeftOf(left.runs) = Newest(LeftOf(left.runs))
         /\ \/ p.userWide - BytesOf(caches) - BytesOf(Evicted(plan)) <= RETENTION.userWide
            \/ LeftOf(left.runs) = Newest(LeftOf(left.runs))
    <3>1. p.userWide - BytesOf(caches) \in Int
      BY <1>p, <2>9
    <3>2. PICK u \in Int : u = p.userWide - BytesOf(caches)
      BY <3>1
    <3>3. PICK rest : rest = LeftOf(root.runs \ Evicted(plan))
      OBVIOUS
    <3>4. /\ plan.certain \subseteq root.runs /\ plan.userWide \subseteq root.runs
          /\ plan.perRoot # {} => BytesOf(root.runs) > RETENTION.perRoot
          /\ plan.userWide # {} => u > RETENTION.userWide
          /\ \A last \in Newest(plan.userWide) : u - BytesOf(Evicted(plan)) + last.bytes > RETENTION.userWide
          /\ BytesOf(rest) <= RETENTION.perRoot \/ rest = Newest(rest)
          /\ u - BytesOf(Evicted(plan)) <= RETENTION.userWide \/ rest = Newest(rest)
      BY <2>2, <2>7, <3>2, <3>3, EvictionPlanned
    <3>5. QED
      BY <2>6, <3>2, <3>3, <3>4 DEF Evicted
  <2>11. /\ BytesOf(Evicted(plan)) \in Nat
         /\ BytesOf(root.runs \ Evicted(plan)) = BytesOf(root.runs) - BytesOf(Evicted(plan))
    BY <2>7, <2>10, BytesOfParts
  <2>12. Tidy(left)
    <3>1. Listed(left.runs) /\ Listed(left.caches)
      BY <1>p, <2>6, FS_Subset DEF Tidy, Listed
    <3>2. QED
      BY <2>6, <3>1 DEF Tidy
  <2>13. OnDisk(left) = OnDisk(root) - freed /\ freed \in Nat /\ OnDisk(root) \in Nat
    <3>1. OnDisk(root) = BytesOf(root.runs) + BytesOf(root.caches) /\ OnDisk(left) = BytesOf(left.runs) + BytesOf(left.caches)
      BY <1>p, <2>12, TidyIsSized
    <3>2. BytesOf(root.runs) \in Nat /\ BytesOf(root.caches) \in Nat
      BY <2>7, BytesOfParts
    <3>3. QED
      BY <2>4, <2>6, <2>9, <2>11, <3>1, <3>2
  <2>14. totalToolBytes(q.roots) = p.userWide - freed
    <3>1. totalToolBytes([p.roots EXCEPT ![k] = left]) = totalToolBytes(p.roots) - OnDisk(p.roots[k]) + OnDisk(left)
      BY <1>p, <2>12, TotalChanges
    <3>2. QED
      BY <1>3, <1>p, <2>5, <2>13, <3>1
  <2>15. Informed(n, q)
    <3>1. q.roots \in [1 .. n -> Root] /\ \A j \in 1 .. n : Tidy(q.roots[j])
      BY <1>p, <2>5, <2>6, <2>12
    <3>2. QED
      BY <2>5, <2>14, <3>1 DEF Informed
  <2>16. q.roots[k] = left /\ q.plan = plan
    BY <1>p, <2>5
  <2>17. p.userWide - freed = p.userWide - BytesOf(caches) - BytesOf(Evicted(plan))
    BY <1>p, <2>4, <2>9, <2>11
  <2>18. NothingFreedTwice(after, k)
    BY <1>2, <2>10, <2>14, <2>16, <2>17 DEF NothingFreedTwice
  <2>19. CachesGoFirst(after, k)
    <3>1. ASSUME plan.perRoot \cup plan.userWide # {}, MayReclaim(left), NEW x \in left.caches, ~x.stuck
          PROVE  FALSE
      <4>1. MayReclaim(root)
        BY <2>6, <3>1 DEF MayReclaim
      <4>2. BytesOf(root.runs) <= RETENTION.perRoot /\ p.userWide - BytesOf(caches) <= RETENTION.userWide
        BY <2>6, <2>8, <3>1, <4>1
      <4>3. BytesOf(root.runs) \in Nat
        BY <2>7, BytesOfParts
      <4>4. QED
        BY <1>p, <2>9, <2>10, <3>1, <4>2, <4>3
    <3>2. QED
      BY <1>2, <2>16, <3>1 DEF CachesGoFirst
  <2>20. TargetsAreMet(after, k)
    BY <1>2, <2>10, <2>14, <2>16, <2>17 DEF TargetsAreMet, SparedOnly, LeftOf
  <2>21. QED
    BY <1>2, <2>15, <2>18, <2>19, <2>20 DEF Warrants
<1>6. QED
  BY <1>4, <1>5

\* The recursion over the roots defines what it says.
LEMMA VisitsAre ==
  ASSUME NEW roots \in Seq(Root)
  PROVE  /\ Visits(roots)[0] = [roots |-> roots, userWide |-> totalToolBytes(roots), plan |-> NoPlan]
         /\ \A k \in 1 .. Len(roots) : Visits(roots)[k] = Visit(Visits(roots)[k - 1], k)
<1> DEFINE n == Len(roots)
           start == [roots |-> roots, userWide |-> totalToolBytes(roots), plan |-> NoPlan]
           Follows(m, f) == f = [k \in 0 .. m |-> IF k = 0 THEN start ELSE Visit(f[k - 1], k)]
           Missing == {m \in 0 .. n : ~\E f : Follows(m, f)}
<1>1. n \in Nat
  OBVIOUS
<1> HIDE DEF n, start
<1>2. Missing = {}
  <2> SUFFICES ASSUME Missing # {} PROVE FALSE
    OBVIOUS
  <2>1. PICK m \in Missing : \A j \in Missing : m <= j
    <3>1. Missing \subseteq Nat
      BY <1>1
    <3> HIDE DEF Missing
    <3>2. QED
      BY <3>1, LeastExists
  <2>2. m \in 0 .. n /\ ~\E f : Follows(m, f)
    OBVIOUS
  <2>3. m # 0
    <3>1. Follows(0, [k \in 0 .. 0 |-> start])
      OBVIOUS
    <3>2. QED
      BY <2>2, <3>1
  <2>4. m - 1 \in 0 .. n /\ m - 1 \notin Missing
    <3>1. m - 1 \in 0 .. n /\ ~(m <= m - 1)
      BY <1>1, <2>2, <2>3
    <3> HIDE DEF Missing
    <3>2. QED
      BY <2>1, <3>1
  <2>5. PICK f : Follows(m - 1, f)
    BY <2>4
  <2> DEFINE g == [k \in 0 .. m |-> IF k = m THEN Visit(f[m - 1], m) ELSE f[k]]
  <2>6. \A k \in 0 .. m : g[k] = IF k = 0 THEN start ELSE Visit(g[k - 1], k)
    <3>1. ASSUME NEW k \in 0 .. m, k # m
          PROVE  g[k] = IF k = 0 THEN start ELSE Visit(g[k - 1], k)
      <4>1. k \in 0 .. (m - 1) /\ g[k] = f[k]
        BY <2>2, <3>1
      <4>2. f[k] = IF k = 0 THEN start ELSE Visit(f[k - 1], k)
        BY <2>5, <4>1
      <4>3. k # 0 => g[k - 1] = f[k - 1]
        BY <2>2, <3>1
      <4> HIDE DEF g
      <4>4. QED
        BY <4>1, <4>2, <4>3
    <3>2. g[m] = Visit(g[m - 1], m)
      <4>1. g[m] = Visit(f[m - 1], m) /\ g[m - 1] = f[m - 1]
        BY <2>2, <2>3
      <4> HIDE DEF g
      <4>2. QED
        BY <4>1
    <3> HIDE DEF g
    <3>3. QED
      BY <2>3, <3>1, <3>2
  <2>7. Follows(m, g)
    <3>1. g = [k \in 0 .. m |-> g[k]]
      OBVIOUS
    <3> HIDE DEF g
    <3>2. [k \in 0 .. m |-> g[k]] = [k \in 0 .. m |-> IF k = 0 THEN start ELSE Visit(g[k - 1], k)]
      BY <2>6
    <3>3. QED
      BY <3>1, <3>2, Zenon
  <2>8. QED
    BY <2>2, <2>7
<1>3. \E f : Follows(n, f)
  BY <1>1, <1>2
<1>4. Visits(roots) = CHOOSE f : Follows(n, f)
  BY DEF Visits, n, start
<1>5. Follows(n, Visits(roots))
  <2> HIDE DEF Follows
  <2>1. QED
    BY <1>3, <1>4
<1>6. \A k \in 0 .. n : Visits(roots)[k] = IF k = 0 THEN start ELSE Visit(Visits(roots)[k - 1], k)
  BY <1>5
<1>7. QED
  BY <1>1, <1>6 DEF n, start

\* Every visit of a pass over tidy roots is warranted.
LEMMA PassWarranted ==
  ASSUME NEW roots \in Seq(Root), \A k \in DOMAIN roots : Tidy(roots[k]),
         RETENTION.perRoot \in Nat, RETENTION.userWide \in Nat
  PROVE  Warranted(roots)
<1>1. PICK n \in Nat : n = Len(roots) /\ DOMAIN roots = 1 .. n
  OBVIOUS
<1>2. PICK after : after = Visits(roots)
  OBVIOUS
<1>3. /\ after[0] = [roots |-> roots, userWide |-> totalToolBytes(roots), plan |-> NoPlan]
      /\ \A k \in 1 .. n : after[k] = Visit(after[k - 1], k)
  BY <1>1, <1>2, VisitsAre
<1> DEFINE Lost == {k \in 0 .. n : ~Informed(n, after[k])}
<1>4. Lost = {}
  <2> SUFFICES ASSUME Lost # {} PROVE FALSE
    OBVIOUS
  <2>1. PICK k \in Lost : \A j \in Lost : k <= j
    <3>1. Lost \subseteq Nat
      OBVIOUS
    <3> HIDE DEF Lost
    <3>2. QED
      BY <3>1, LeastExists
  <2>2. k \in 0 .. n /\ ~Informed(n, after[k])
    OBVIOUS
  <2>3. k # 0
    <3>1. roots \in [1 .. n -> Root]
      BY <1>1
    <3>2. Informed(n, after[0])
      BY <1>1, <1>3, <3>1 DEF Informed
    <3>3. QED
      BY <2>2, <3>2
  <2>4. k \in 1 .. n /\ k - 1 \in 0 .. n /\ k - 1 \notin Lost
    BY <2>1, <2>2, <2>3
  <2>5. Informed(n, after[k - 1]) /\ after[k] = Visit(after[k - 1], k)
    BY <1>3, <2>4
  <2>6. QED
    BY <2>2, <2>4, <2>5, VisitWarranted
<1>5. ASSUME NEW k \in 1 .. n
      PROVE  Warrants(after, k)
  <2>1. k - 1 \in 0 .. n
    OBVIOUS
  <2>2. Informed(n, after[k - 1])
    BY <1>4, <2>1
  <2>3. QED
    BY <1>3, <2>2, VisitWarranted
<1>6. QED
  BY <1>1, <1>2, <1>5 DEF Warranted, Warrants

\* No root of the inventory holds what a crash left in its trash: the total
\* counts such bytes, and a visit that empties them does not credit them.
NoLeftover == \A roots \in Inventory : \A k \in DOMAIN roots : roots[k].trash = 0

\* Whatever the runs and caches of however many roots, their ages, sizes and
\* the limits: no evidence goes for bytes that are free already, or before a
\* cache that could go, and what stays is within the targets or spared.
THEOREM EvictionWarranted ==
  ASSUME NoLeftover
  PROVE  Spec => []EvictionIsWarranted
<1>1. RETENTION.perRoot \in Nat /\ RETENTION.userWide \in Nat
  BY InventoryAssumption
<1>2. ASSUME NEW roots \in Inventory
      PROVE  Warranted(roots)
  <2>1. roots \in Seq(Root) /\ \A k \in DOMAIN roots : Listed(roots[k].runs) /\ Listed(roots[k].caches)
    BY InventoryAssumption
  <2>2. \A k \in DOMAIN roots : roots[k] \in Root
    BY <2>1
  <2>3. \A k \in DOMAIN roots : Tidy(roots[k])
    BY <2>1, <2>2 DEF Tidy, NoLeftover
  <2>4. QED
    BY <1>1, <2>1, <2>3, PassWarranted
<1>3. EvictionIsWarranted
  BY <1>2 DEF EvictionIsWarranted
<1>4. QED
  BY <1>3, PTL

=============================================================================
