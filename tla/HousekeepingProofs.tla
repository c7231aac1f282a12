-------------------------- MODULE HousekeepingProofs --------------------------
(***************************************************************************)
(* What the maintenance of any number of roots by any number of hosts may  *)
(* never do: take a root away that is in use.                              *)
(***************************************************************************)
EXTENDS Housekeeping, TLAPS

\* A pass is a record of these fields.
Field == {"phase", "order", "seen", "todo", "at", "collected", "visits", "late", "unvisited"}
Shaped(p) == p = [f \in Field |-> p[f]]

ShapeInv ==
  /\ pass = [h \in Host |-> pass[h]] /\ \A h \in Host : Shaped(pass[h])
  /\ rootLock = [k \in Key |-> rootLock[k]]
  /\ hold = [k \in Key |-> hold[k]]
  /\ lease = [k \in Key |-> lease[k]]
  /\ dir = [k \in Key |-> dir[k]]

\* What a pass saw when it took the lock of a stale root stays true of it: the
\* queue needs the lock to change, and a lease published since was not seen.
Guarded(h, k) == k \in Key /\ rootLock[k] = h /\ hold[k] = "idle" /\ lease[k] # "seen"

LockInv == \A h \in Host : pass[h].phase = "locked" => Guarded(h, pass[h].at)

IInv == ShapeInv /\ LockInv

-----------------------------------------------------------------------------
\* A step that enters a phase leaves the passes of the other hosts alone.
LEMMA Entered ==
  ASSUME ShapeInv, NEW h \in Host, NEW p, Shaped(p), Enter(h, p)
  PROVE  /\ pass' = [g \in Host |-> pass'[g]] /\ \A g \in Host : Shaped(pass'[g])
         /\ pass'[h] = p /\ \A g \in Host : g # h => pass'[g] = pass[g]
BY DEF ShapeInv, Enter

\* A step that leaves the roots alone and takes no lock.
LEMMA QuietStep ==
  ASSUME IInv, NEW h \in Host, NEW p, Shaped(p), Enter(h, p), UNCHANGED <<dir, hold, lease, rootLock>>,
         p.phase = "locked" => pass[h].phase = "locked" /\ p.at = pass[h].at
  PROVE  IInv'
BY Entered DEF IInv, ShapeInv, LockInv, Guarded

\* A step of a pass.
LEMMA PassSteps == ASSUME IInv, NEW h \in Host, PassStep(h) \/ DeadlinePasses(h) PROVE IInv'
<1> DEFINE p == pass[h]
<1>1. Shaped(p) /\ Shaped(Off)
  BY DEF IInv, ShapeInv, Shaped, Field, Off
<1>2. CASE ClaimPass(h)
  <2>1. Shaped([Off EXCEPT !.phase = "claimed", !.order = VisitingOrder])
    BY DEF Shaped, Field, Off
  <2>2. QED
    BY <1>2, <2>1, QuietStep DEF ClaimPass, Off, tree
<1>3. CASE DeadlinePasses(h)
  <2> DEFINE q == [p EXCEPT !.late = TRUE]
  <2>1. Shaped(q) /\ q.phase = p.phase /\ q.at = p.at
    BY <1>1 DEF Shaped, Field
  <2>2. QED
    BY <1>3, <2>1, QuietStep DEF DeadlinePasses, tree
<1>4. CASE Snapshot(h)
  <2> DEFINE q == [p EXCEPT !.phase = "collecting", !.seen = registry.seen,
                     !.todo = {k \in Key : k \in ToSet(p.order) \/ dir[k] # "none"}]
  <2>1. Shaped(q) /\ q.phase = "collecting"
    BY <1>1 DEF Shaped, Field
  <2>2. Enter(h, q) /\ UNCHANGED <<dir, hold, lease, rootLock>>
    BY <1>4 DEF Snapshot, tree
  <2>3. QED
    BY <2>1, <2>2, QuietStep
<1>5. CASE \E k \in Key : Judge(h, k) \/ Spare(h, k)
  <2>1. PICK k \in Key : Judge(h, k) \/ Spare(h, k)
    BY <1>5
  <2> DEFINE c == IF CandidateAge(h, k) = "stale" THEN p.collected \cup {k} ELSE p.collected
             q == [p EXCEPT !.todo = p.todo \ {k}, !.collected = c]
             o == [p EXCEPT !.todo = p.todo \ {k}]
  <2>2. Shaped(q) /\ q.phase = p.phase /\ Shaped(o) /\ o.phase = p.phase
    BY <1>1 DEF Shaped, Field
  <2>3. p.phase = "collecting" /\ (Enter(h, q) \/ Enter(h, o)) /\ UNCHANGED <<dir, hold, lease, rootLock>>
    BY <2>1 DEF Judge, Spare, NextCandidate, tree
  <2>4. QED
    BY <2>2, <2>3, QuietStep
<1>6. CASE \E k \in Key : LockStaleRoot(h, k)
  <2>1. PICK k \in Key : LockStaleRoot(h, k)
    BY <1>6
  <2> DEFINE q == [p EXCEPT !.phase = "locked", !.at = k, !.todo = p.todo \ {k}]
  <2>2. Shaped(q) /\ q.phase = "locked" /\ q.at = k
    BY <1>1 DEF Shaped, Field
  <2>3. /\ Enter(h, q) /\ UNCHANGED <<dir, hold, lease>>
        /\ rootLock' = [rootLock EXCEPT ![k] = h] /\ rootLock[k] = NoHost
        /\ hold[k] = "idle" /\ lease[k] = "none"
    BY <2>1 DEF LockStaleRoot
  <2>4. ShapeInv'
    BY <2>2, <2>3, Entered DEF IInv, ShapeInv
  <2>5. LockInv'
    <3>1. Guarded(h, k)'
      BY <2>3 DEF IInv, ShapeInv, Guarded
    <3>2. \A g \in Host : Guarded(g, pass[g].at) /\ pass'[g] = pass[g] => Guarded(g, pass[g].at)'
      <4>1. ASSUME NEW g \in Host, Guarded(g, pass[g].at)
            PROVE  pass[g].at # k
        BY <2>3, <4>1, HousekeepingAssumption DEF Guarded
      <4>2. ASSUME NEW j \in Key, j # k
            PROVE  rootLock'[j] = rootLock[j] /\ hold'[j] = hold[j] /\ lease'[j] = lease[j]
        BY <2>3, <4>2 DEF IInv, ShapeInv
      <4>3. ASSUME NEW g \in Host, Guarded(g, pass[g].at), pass'[g] = pass[g]
            PROVE  Guarded(g, pass[g].at)'
        BY <4>1, <4>2, <4>3 DEF Guarded
      <4>4. QED
        BY <4>3
    <3>3. QED
      <4>1. pass'[h] = q /\ \A g \in Host : g # h => pass'[g] = pass[g]
        BY <2>2, <2>3, Entered DEF IInv
      <4>2. ASSUME NEW g \in Host, pass'[g].phase = "locked"
            PROVE  Guarded(g, pass[g].at)'
        <5>1. CASE g = h
          BY <2>2, <3>1, <4>1, <5>1 DEF Guarded
        <5>2. CASE g # h
          BY <3>2, <4>1, <4>2, <5>2 DEF IInv, LockInv
        <5>3. QED
          BY <5>1, <5>2
      <4>3. QED
        BY <4>2 DEF LockInv
  <2>6. QED
    BY <2>4, <2>5 DEF IInv
<1>7. CASE MoveAside(h)
  <2> DEFINE k == p.at
  <2>1. p.phase = "locked" /\ Guarded(h, k)
    BY <1>7 DEF MoveAside, IInv, LockInv
  <2>2. \A g \in Host : g # h /\ pass[g].phase = "locked" => pass[g].at # k
    BY <2>1 DEF IInv, LockInv, Guarded
  <2>3. PICK q : /\ Shaped(q) /\ q.phase \in {"collecting", "moved"} /\ Enter(h, q)
    <3>1. /\ Shaped([p EXCEPT !.phase = "collecting", !.at = NoKey])
          /\ [p EXCEPT !.phase = "collecting", !.at = NoKey].phase = "collecting"
      BY <1>1 DEF Shaped, Field
    <3>2. Shaped([p EXCEPT !.phase = "moved"]) /\ [p EXCEPT !.phase = "moved"].phase = "moved"
      BY <1>1 DEF Shaped, Field
    <3>3. QED
      BY <1>7, <3>1, <3>2 DEF MoveAside
  <2>4. ShapeInv' /\ \A g \in Key : g # k => rootLock'[g] = rootLock[g] /\ hold'[g] = hold[g] /\ lease'[g] = lease[g]
    BY <1>7, <2>3, Entered DEF MoveAside, IInv, ShapeInv
  <2>5. LockInv'
    BY <2>2, <2>3, <2>4, Entered DEF IInv, LockInv, Guarded
  <2>6. QED
    BY <2>4, <2>5 DEF IInv
<1>8. CASE DeleteMoved(h)
  <2> DEFINE q == [p EXCEPT !.phase = "collecting", !.at = NoKey, !.collected = p.collected \cup {p.at}]
  <2>1. Shaped(q) /\ q.phase = "collecting"
    BY <1>1 DEF Shaped, Field
  <2>2. Enter(h, q) /\ UNCHANGED <<dir, hold, lease, rootLock>>
    BY <1>8 DEF DeleteMoved
  <2>3. QED
    BY <2>1, <2>2, QuietStep
<1>9. CASE Unregister(h) \/ RegistryBusy(h) \/ RememberUnvisited(h)
  <2> DEFINE q == [p EXCEPT !.phase = "visiting", !.order = Surviving(h),
                     !.seen = Off.seen, !.todo = {}, !.collected = {}]
             o == [p EXCEPT !.phase = "visiting"]
  <2>1. Shaped(q) /\ q.phase = "visiting" /\ Shaped(o) /\ o.phase = "visiting"
    BY <1>1 DEF Shaped, Field
  <2>2. (Enter(h, q) \/ Enter(h, o) \/ Enter(h, Off)) /\ UNCHANGED <<dir, hold, lease, rootLock>>
    BY <1>9 DEF Unregister, RegistryBusy, RememberUnvisited, tree
  <2>3. Off.phase # "locked"
    BY DEF Off
  <2>4. QED
    BY <1>1, <2>1, <2>2, <2>3, QuietStep
<1>10. CASE Visit(h)
  <2> DEFINE q == [p EXCEPT !.order = Tail(p.order), !.unvisited = p.unvisited \cup {Head(p.order)}]
             o == [p EXCEPT !.order = Tail(p.order), !.visits = Min({p.visits + 1, Budget})]
  <2>1. Shaped(q) /\ q.phase = p.phase /\ Shaped(o) /\ o.phase = p.phase
    BY <1>1 DEF Shaped, Field
  <2>2. p.phase = "visiting" /\ (Enter(h, q) \/ Enter(h, o)) /\ UNCHANGED <<dir, hold, lease, rootLock>>
    BY <1>10 DEF Visit, tree
  <2>3. QED
    BY <2>1, <2>2, QuietStep
<1>11. QED
  BY <1>2, <1>3, <1>4, <1>5, <1>6, <1>7, <1>8, <1>9, <1>10 DEF PassStep

\* What the tools and the starts do meanwhile: they touch no lock, change a
\* queue only where nobody holds it, and a lease under it stays unseen.
LEMMA OtherSteps ==
  ASSUME IInv, UNCHANGED <<pass, rootLock>>,
         dir' = [k \in Key |-> dir'[k]], hold' = [k \in Key |-> hold'[k]], lease' = [k \in Key |-> lease'[k]],
         \A k \in Key : rootLock[k] # NoHost =>
           hold'[k] = hold[k] /\ (lease'[k] = "seen" => lease[k] = "seen")
  PROVE  IInv'
BY HousekeepingAssumption DEF IInv, ShapeInv, LockInv, Guarded

\* The lock of a stale root guards what was seen when it was taken.
LEMMA LocksHold == IInv /\ [Next]_vars => IInv'
<1> SUFFICES ASSUME IInv, [Next]_vars
             PROVE  IInv'
  OBVIOUS
<1>0. ShapeInv
  BY DEF IInv
<1>1. CASE UNCHANGED <<pass, tree>>
  BY <1>0, <1>1, OtherSteps DEF tree, ShapeInv
<1>2. ASSUME NEW k \in Key, QueueChanges(k) \/ LeaseChanges(k) \/ DirectoryAges(k)
      PROVE  IInv'
  BY <1>0, <1>2, OtherSteps DEF QueueChanges, LeaseChanges, DirectoryAges, ShapeInv
<1>3. ASSUME NEW h \in Host, NEW k \in Key, PrepareStorage(h, k)
      PROVE  IInv'
  BY <1>0, <1>3, OtherSteps DEF PrepareStorage, ShapeInv
<1>4. ASSUME NEW h \in Host, Dies(h)
      PROVE  IInv'
  <2>1. Shaped(Off) /\ Off.phase = "off" /\ Enter(h, Off)
    BY <1>4 DEF Dies, Shaped, Field, Off
  <2>2. /\ UNCHANGED <<dir, hold, lease>>
        /\ rootLock' = [k \in Key |-> IF rootLock[k] = h THEN NoHost ELSE rootLock[k]]
    BY <1>4 DEF Dies
  <2>3. ShapeInv'
    BY <1>0, <2>1, <2>2, Entered DEF ShapeInv
  <2>4. LockInv'
    BY <1>0, <2>1, <2>2, Entered DEF IInv, LockInv, Guarded
  <2>5. QED
    BY <2>3, <2>4 DEF IInv
<1>5. QED
  <2>1. \A k \in Key : EntryAges(k) => UNCHANGED <<pass, tree>>
    BY DEF EntryAges
  <2>2. IntervalPasses => UNCHANGED <<pass, tree>>
    BY DEF IntervalPasses
  <2>3. \A h \in Host : NoteRootSeen(h) \/ ReadForRuntime(h) \/ RememberRuntime(h) => UNCHANGED <<pass, tree>>
    BY DEF NoteRootSeen, ReadForRuntime, RememberRuntime
  <2>4. UNCHANGED vars => UNCHANGED <<pass, tree>>
    BY DEF vars
  <2>5. QED
    BY <1>1, <1>2, <1>3, <1>4, <2>1, <2>2, <2>3, <2>4, PassSteps, HousekeepingAssumption DEF Next, StartStep

\* The initial states satisfy the invariant.
LEMMA InitHolds == Init => IInv
<1> SUFFICES ASSUME Init
             PROVE  IInv
  OBVIOUS
<1>1. Shaped(Off) /\ Off.phase = "off"
  BY DEF Shaped, Field, Off
<1>2. \A h \in Host : pass[h] = Off
  BY DEF Init
<1>3. ShapeInv
  BY <1>1, <1>2 DEF Init, ShapeInv
<1>4. LockInv
  BY <1>1, <1>2 DEF LockInv
<1>5. QED
  BY <1>3, <1>4 DEF IInv

\* Only a move takes a root away.
LEMMA OnlyMovesRemove ==
  ASSUME IInv, [Next]_vars, NEW k \in Key, dir[k] # "none", dir'[k] = "none"
  PROVE  \E h \in Host : MoveAside(h) /\ pass[h].at = k
<1>1. CASE \E h \in Host : MoveAside(h)
  BY <1>1 DEF MoveAside, IInv, ShapeInv
<1>2. CASE UNCHANGED dir
  BY <1>2
<1>3. CASE \E j \in Key : DirectoryAges(j)
  BY <1>3 DEF DirectoryAges, IInv, ShapeInv
<1>4. CASE \E h \in Host, j \in Key : PrepareStorage(h, j)
  BY <1>4 DEF PrepareStorage, IInv, ShapeInv
<1>5. QED
  <2>1. \A j \in Key : EntryAges(j) \/ QueueChanges(j) \/ LeaseChanges(j) => UNCHANGED dir
    BY DEF EntryAges, QueueChanges, LeaseChanges, tree
  <2>2. IntervalPasses \/ UNCHANGED vars => UNCHANGED dir
    BY DEF IntervalPasses, vars, tree
  <2>3. \A h \in Host : NoteRootSeen(h) \/ ReadForRuntime(h) \/ RememberRuntime(h) \/ DeadlinePasses(h) \/ Dies(h)
          => UNCHANGED dir
    BY DEF NoteRootSeen, ReadForRuntime, RememberRuntime, DeadlinePasses, Dies, tree
  <2>4. \A h \in Host : PassStep(h) => MoveAside(h) \/ UNCHANGED dir
    BY DEF PassStep, ClaimPass, Snapshot, DeleteMoved, Judge, Spare, LockStaleRoot, Unregister,
       Visit, RememberUnvisited, RegistryBusy, tree
  <2>5. QED
    BY <1>1, <1>2, <1>3, <1>4, <2>1, <2>2, <2>3, <2>4, HousekeepingAssumption DEF Next, StartStep

\* A root that is in use is never taken away, for any number of roots and
\* hosts, under any interleaving and any crash: housekeeping.ts
\* collectStaleRoots, which asks under the lock of the root.
THEOREM RootsInUseStay == Spec => RootInUseStays
<1>1. IInv /\ [Next]_vars =>
        \A k \in Key : dir[k] # "none" /\ dir'[k] = "none" => hold[k] = "idle" /\ lease[k] # "seen"
  <2> SUFFICES ASSUME IInv, [Next]_vars, NEW k \in Key, dir[k] # "none", dir'[k] = "none"
               PROVE  hold[k] = "idle" /\ lease[k] # "seen"
    OBVIOUS
  <2>1. PICK h \in Host : MoveAside(h) /\ pass[h].at = k
    BY OnlyMovesRemove
  <2>2. Guarded(h, k)
    BY <2>1 DEF MoveAside, IInv, LockInv
  <2>3. QED
    BY <2>2 DEF Guarded
<1>2. QED
  BY <1>1, LocksHold, InitHolds, PTL DEF Spec, RootInUseStays
=============================================================================
