------------------------ MODULE AdmissionQueueProofs ------------------------
(***************************************************************************)
(* Invariants of AdmissionQueue for every number of processes, calls and   *)
(* runs, every wait budget and every clock origin.                         *)
(***************************************************************************)
EXTENDS AdmissionQueue, TLAPS

\* The type invariant holds of every reachable state.
THEOREM TypeCorrect == Spec => []TypeOK
<1> USE ConstantsAssumption
<1>1. Init => TypeOK
  BY DEF Init, TypeOK, Ticket, Phase, Outcome
<1>2. TypeOK /\ [Next]_vars => TypeOK'
  <2> SUFFICES ASSUME TypeOK, [Next]_vars PROVE TypeOK'
    OBVIOUS
  <2> USE DEF TypeOK, Moves, Decides, Now, queueFile, runsDir, machine, calls
  <2>1. ASSUME NEW r \in Request, CallStep(r) PROVE TypeOK'
    <3>1. CASE EnterCancelled(r)
      BY <3>1 DEF EnterCancelled, Phase, Outcome
    <3>2. CASE EnterWithoutSpace(r)
      BY <3>2 DEF EnterWithoutSpace, Phase, Outcome
    <3>3. CASE Enter(r)
      BY <3>3 DEF Enter, Phase
    <3>4. CASE Enroll(r)
      BY <3>4 DEF Enroll, Reap, Ticket, Phase
    <3>5. CASE GiveUp(r)
      BY <3>5 DEF GiveUp, Phase, Outcome
    <3>6. CASE TryAttempt(r)
      BY <3>6 DEF TryAttempt, Phase
    <3>7. CASE FailQuarantined(r)
      BY <3>7 DEF FailQuarantined, Phase, Outcome
    <3>8. CASE KeepWaiting(r)
      BY <3>8 DEF KeepWaiting, Phase
    <3>9. CASE TimeOut(r)
      BY <3>9 DEF TimeOut, Phase, Outcome
    <3>10. ASSUME NEW run \in Run, Admit(r, run) PROVE TypeOK'
      BY <3>10 DEF Admit, Without, Reap, Phase, Outcome
    <3>11. CASE FailAllocation(r)
      BY <3>11 DEF FailAllocation, Without, Reap, Phase, Outcome
    <3>12. CASE PrepareThrows(r)
      BY <3>12 DEF PrepareThrows, Phase
    <3>13. CASE Release(r)
      BY <3>13 DEF Release, Without, Phase
    <3>14. QED
      BY <2>1, <3>1, <3>2, <3>3, <3>4, <3>5, <3>6, <3>7, <3>8, <3>9, <3>10,
         <3>11, <3>12, <3>13 DEF CallStep
  <2>3. CASE Tick
    BY <2>3 DEF Tick
  <2>4. ASSUME NEW h \in Host, Crash(h) PROVE TypeOK'
    BY <2>4 DEF Crash, Dies, Phase
  <2>5. ASSUME NEW r \in Request, NEW run \in Run, CrashPreparing(r, run) PROVE TypeOK'
    BY <2>5 DEF CrashPreparing, Dies, Phase
  <2>6. ASSUME NEW run \in Run, NEW quarantining \in BOOLEAN, ReleaseSlot(run, quarantining)
        PROVE TypeOK'
    BY <2>6 DEF ReleaseSlot
  <2>7. CASE ReconcileSlot
    BY <2>7 DEF ReconcileSlot
  <2>8. CASE UNCHANGED vars
    BY <2>8 DEF vars
  <2>9. QED
    BY <2>1, <2>3, <2>4, <2>5, <2>6, <2>7, <2>8 DEF Next
<1>3. QED
  BY <1>1, <1>2, PTL DEF Spec

-----------------------------------------------------------------------------
\* A call has a place only once it enrolled, no result before it stops waiting,
\* and every call of a dead process is gone.
CallsConsistent ==
  \A r \in Request :
    /\ phase[r] \in {"idle", "enrolling"} => place[r] = 0
    /\ phase[r] \in Waiting \cup {"releasing"} => place[r] > 0
    /\ phase[r] \in Waiting \cup {"idle", "enrolling"} => outcome[r] = "none"
    /\ phase[r] # "gone" => caller[r] \in alive

\* The inductive invariant: the queue's tickets are those of the calls that
\* hold a place, and runs are durable before they are named.
IInv ==
  /\ TypeOK
  /\ TicketsMatchCalls
  /\ CallsConsistent
  /\ ReturnedHoldsNoPlace
  /\ AdmittedRunsAreDurable

\* Every step keeps the queue in agreement with the calls: only enrollment
\* hands out a place, and it hands out one that no other call ever had.
LEMMA StepKeepsTickets ==
  ASSUME TypeOK, IInv, [Next]_vars
  PROVE  TicketsMatchCalls' /\ CallsConsistent'
<1> USE ConstantsAssumption DEF IInv, TypeOK, TicketsMatchCalls, CallsConsistent, TicketOf,
      Ticket, Waiting, Moves, Decides, Now, Reap, Without, queueFile, runsDir, machine, calls
<1>1. ASSUME NEW r \in Request, CallStep(r) PROVE TicketsMatchCalls' /\ CallsConsistent'
  <2>1. CASE EnterCancelled(r) \/ EnterWithoutSpace(r) \/ Enter(r)
    BY <2>1 DEF EnterCancelled, EnterWithoutSpace, Enter
  <2>2. CASE Enroll(r)
    BY <2>2 DEF Enroll
  <2>3. CASE GiveUp(r) \/ TryAttempt(r) \/ FailQuarantined(r) \/ KeepWaiting(r) \/ TimeOut(r)
    BY <2>3 DEF GiveUp, TryAttempt, FailQuarantined, KeepWaiting, TimeOut
  <2>4. CASE (\E run \in Run : Admit(r, run)) \/ FailAllocation(r)
    BY <2>4 DEF Admit, FailAllocation
  <2>5. CASE PrepareThrows(r) \/ Release(r)
    BY <2>5 DEF PrepareThrows, Release
  <2>6. QED
    BY <1>1, <2>1, <2>2, <2>3, <2>4, <2>5 DEF CallStep
<1>2. CASE Tick
  BY <1>2 DEF Tick
<1>3. ASSUME NEW h \in Host, Dies(h) PROVE TicketsMatchCalls' /\ CallsConsistent'
  BY <1>3 DEF Dies
<1>4. ASSUME NEW run \in Run, NEW quarantining \in BOOLEAN, ReleaseSlot(run, quarantining)
      PROVE TicketsMatchCalls' /\ CallsConsistent'
  BY <1>4 DEF ReleaseSlot
<1>5. CASE ReconcileSlot
  BY <1>5 DEF ReconcileSlot
<1>6. CASE UNCHANGED vars
  BY <1>6 DEF vars
<1>7. QED
  BY <1>1, <1>2, <1>3, <1>4, <1>5, <1>6 DEF Next, Crash, CrashPreparing

\* Every exit of admit withdraws the ticket before the call returns.
LEMMA StepKeepsNoStrayTicket ==
  ASSUME IInv, [Next]_vars
  PROVE  ReturnedHoldsNoPlace'
<1> USE DEF IInv, TypeOK, TicketsMatchCalls, CallsConsistent, ReturnedHoldsNoPlace,
      Ticket, Waiting, Moves, Reap, Without, queueFile, runsDir, machine, calls
<1>1. ASSUME NEW r \in Request, CallStep(r) PROVE ReturnedHoldsNoPlace'
  <2>1. CASE EnterCancelled(r) \/ EnterWithoutSpace(r) \/ Enter(r)
    BY <2>1 DEF EnterCancelled, EnterWithoutSpace, Enter
  <2>2. CASE Enroll(r)
    BY <2>2 DEF Enroll
  <2>3. CASE GiveUp(r) \/ TryAttempt(r) \/ FailQuarantined(r) \/ KeepWaiting(r) \/ TimeOut(r)
    BY <2>3 DEF GiveUp, TryAttempt, FailQuarantined, KeepWaiting, TimeOut
  <2>4. CASE (\E run \in Run : Admit(r, run)) \/ FailAllocation(r)
    BY <2>4 DEF Admit, FailAllocation
  <2>5. CASE PrepareThrows(r) \/ Release(r)
    BY <2>5 DEF PrepareThrows, Release
  <2>6. QED
    BY <1>1, <2>1, <2>2, <2>3, <2>4, <2>5 DEF CallStep
<1>2. CASE Tick
  BY <1>2 DEF Tick
<1>3. ASSUME NEW h \in Host, Dies(h) PROVE ReturnedHoldsNoPlace'
  BY <1>3 DEF Dies
<1>4. ASSUME NEW run \in Run, NEW quarantining \in BOOLEAN, ReleaseSlot(run, quarantining)
      PROVE ReturnedHoldsNoPlace'
  BY <1>4 DEF ReleaseSlot
<1>5. CASE ReconcileSlot
  BY <1>5 DEF ReconcileSlot
<1>6. CASE UNCHANGED vars
  BY <1>6 DEF vars
<1>7. QED
  BY <1>1, <1>2, <1>3, <1>4, <1>5, <1>6 DEF Next, Crash, CrashPreparing

\* Directories are created exclusively and before the slot names them.
LEMMA StepKeepsRunsDurable ==
  ASSUME IInv, [Next]_vars
  PROVE  AdmittedRunsAreDurable'
<1> USE ConstantsAssumption DEF IInv, TypeOK, AdmittedRunsAreDurable,
      Moves, queueFile, runsDir, machine, calls
<1>1. ASSUME NEW r \in Request, CallStep(r) PROVE AdmittedRunsAreDurable'
  <2>1. ASSUME NEW run \in Run, Admit(r, run) PROVE AdmittedRunsAreDurable'
    BY <2>1 DEF Admit
  <2>2. CASE \/ EnterCancelled(r) \/ EnterWithoutSpace(r) \/ Enter(r) \/ Enroll(r)
             \/ GiveUp(r) \/ TryAttempt(r) \/ FailQuarantined(r) \/ KeepWaiting(r)
             \/ TimeOut(r) \/ FailAllocation(r) \/ PrepareThrows(r) \/ Release(r)
    <3>1. UNCHANGED <<activeRun, recorded, runOf>>
      BY <2>2 DEF EnterCancelled, EnterWithoutSpace, Enter, Enroll, GiveUp, TryAttempt,
           FailQuarantined, KeepWaiting, TimeOut, FailAllocation, PrepareThrows, Release
    <3>2. QED
      BY <3>1
  <2>3. QED
    BY <1>1, <2>1, <2>2 DEF CallStep
<1>2. CASE Tick \/ (\E h \in Host : Crash(h))
  BY <1>2 DEF Tick, Crash, Dies
<1>3. ASSUME NEW r \in Request, NEW run \in Run, CrashPreparing(r, run)
      PROVE AdmittedRunsAreDurable'
  BY <1>3 DEF CrashPreparing, Dies
<1>4. ASSUME NEW run \in Run, NEW quarantining \in BOOLEAN, ReleaseSlot(run, quarantining)
      PROVE AdmittedRunsAreDurable'
  BY <1>4 DEF ReleaseSlot
<1>5. CASE ReconcileSlot
  BY <1>5 DEF ReconcileSlot
<1>6. CASE UNCHANGED vars
  BY <1>6 DEF vars
<1>7. QED
  BY <1>1, <1>2, <1>3, <1>4, <1>5, <1>6 DEF Next

\* The queue file agrees with the calls of admit in every reachable state: the
\* inductive invariant behind the three theorems that follow.
THEOREM Consistent == Spec => []IInv
<1>1. Init => IInv
  BY ConstantsAssumption DEF Init, IInv, TypeOK, TicketsMatchCalls, CallsConsistent,
     ReturnedHoldsNoPlace, AdmittedRunsAreDurable, Ticket, Phase, Outcome, Waiting
<1>2. IInv /\ TypeOK' /\ [Next]_vars => IInv'
  BY StepKeepsTickets, StepKeepsNoStrayTicket, StepKeepsRunsDurable DEF IInv
<1>3. QED
  BY <1>1, <1>2, TypeCorrect, PTL DEF Spec

\* Tickets always agree with the calls that hold them.
THEOREM TicketsInOrder == Spec => []TicketsMatchCalls
BY Consistent, PTL DEF IInv

\* No returned call leaves a ticket behind.
THEOREM NoStrayTicket == Spec => []ReturnedHoldsNoPlace
BY Consistent, PTL DEF IInv

\* The slot and every admission name a durable run, and no run id twice.
THEOREM RunsDurable == Spec => []AdmittedRunsAreDurable
BY Consistent, PTL DEF IInv

-----------------------------------------------------------------------------
\* Whatever the origins of the clocks, no process drops the place of a live
\* caller whose deadline no clock has reached.
THEOREM PlaceKept == Spec => []LiveTicketKept
<1> USE ConstantsAssumption
<1>1. Init => LiveTicketKept
  BY DEF Init, LiveTicketKept, Waiting
<1>2. IInv /\ LiveTicketKept /\ [Next]_vars => LiveTicketKept'
  <2> SUFFICES ASSUME IInv, LiveTicketKept, [Next]_vars PROVE LiveTicketKept'
    OBVIOUS
  <2>1. \A r \in Request, h \in alive :
          phase[r] \in Waiting /\ InTime(r) => TicketOf(r) \in Reap(h)
    BY DEF IInv, TypeOK, LiveTicketKept, CallsConsistent, Reap, InTime, TicketOf, Waiting
  <2> USE DEF IInv, TypeOK, LiveTicketKept, CallsConsistent, TicketOf, Waiting, Moves, InTime,
        Now, queueFile, runsDir, machine, calls
  <2>2. ASSUME NEW r \in Request, CallStep(r) PROVE LiveTicketKept'
    <3>1. CASE EnterCancelled(r) \/ EnterWithoutSpace(r) \/ Enter(r)
      BY <3>1 DEF EnterCancelled, EnterWithoutSpace, Enter
    <3>2. CASE Enroll(r)
      BY <2>1, <3>2 DEF Enroll
    <3>3. CASE GiveUp(r) \/ TryAttempt(r) \/ FailQuarantined(r) \/ KeepWaiting(r) \/ TimeOut(r)
      BY <3>3 DEF GiveUp, TryAttempt, FailQuarantined, KeepWaiting, TimeOut
    <3>4. CASE (\E run \in Run : Admit(r, run)) \/ FailAllocation(r)
      BY <2>1, <3>4 DEF Admit, FailAllocation, Without
    <3>5. CASE PrepareThrows(r) \/ Release(r)
      BY <3>5 DEF PrepareThrows, Release, Without
    <3>6. QED
      BY <2>2, <3>1, <3>2, <3>3, <3>4, <3>5 DEF CallStep
  <2>3. CASE Tick
    BY <2>3 DEF Tick
  <2>4. ASSUME NEW h \in Host, Dies(h) PROVE LiveTicketKept'
    BY <2>4 DEF Dies
  <2>5. ASSUME NEW run \in Run, NEW quarantining \in BOOLEAN, ReleaseSlot(run, quarantining)
        PROVE LiveTicketKept'
    BY <2>5 DEF ReleaseSlot
  <2>6. CASE ReconcileSlot
    BY <2>6 DEF ReconcileSlot
  <2>7. CASE UNCHANGED vars
    BY <2>7 DEF vars
  <2>8. QED
    BY <2>2, <2>3, <2>4, <2>5, <2>6, <2>7 DEF Next, Crash, CrashPreparing
<1>3. QED
  BY <1>1, <1>2, Consistent, PTL DEF Spec

\* Whatever the origins of the clocks, admission is first come, first served
\* among the live callers whose deadline no clock has reached.
THEOREM FirstComeFirstServed == Spec => NoOvertaking
<1>1. IInv /\ LiveTicketKept /\ [Next]_vars =>
        [\A r, q \in Request : Admitted(r) /\ WaitsAhead(q, r) => ~InTime(q)]_vars
  <2> SUFFICES ASSUME IInv, LiveTicketKept, Next, NEW r \in Request, NEW q \in Request,
                      phase[r] = "attempting", outcome'[r] = "admitted",
                      WaitsAhead(q, r), InTime(q)
               PROVE  FALSE
    BY DEF Admitted
  <2>1. outcome[r] = "none"
    BY DEF IInv, CallsConsistent, Waiting
  <2>2. ASSUME NEW p \in Request, CallStep(p) PROVE \E run \in Run : Admit(r, run)
    <3> USE <2>1 DEF IInv, TypeOK, Decides, queueFile, runsDir, machine, calls
    <3>1. CASE EnterCancelled(p) \/ EnterWithoutSpace(p) \/ Enter(p) \/ Enroll(p)
      BY <3>1 DEF EnterCancelled, EnterWithoutSpace, Enter, Enroll
    <3>2. CASE GiveUp(p) \/ TryAttempt(p) \/ FailQuarantined(p) \/ KeepWaiting(p) \/ TimeOut(p)
      BY <3>2 DEF GiveUp, TryAttempt, FailQuarantined, KeepWaiting, TimeOut
    <3>3. CASE FailAllocation(p) \/ PrepareThrows(p) \/ Release(p)
      BY <3>3 DEF FailAllocation, PrepareThrows, Release
    <3>4. ASSUME NEW run \in Run, Admit(p, run) PROVE Admit(r, run)
      BY <3>4 DEF Admit
    <3>5. QED
      BY <2>2, <3>1, <3>2, <3>3, <3>4 DEF CallStep
  <2>3. \E run \in Run : Admit(r, run)
    <3>1. CASE UNCHANGED outcome
      BY <3>1, <2>1
    <3>2. CASE \E p \in Request : CallStep(p)
      BY <3>2, <2>2
    <3>3. QED
      BY <3>1, <3>2 DEF Next, Tick, Crash, CrashPreparing, Dies, ReleaseSlot, ReconcileSlot,
         calls
  <2>4. caller[r] \in alive /\ IsHead(r, Reap(caller[r]))
    BY <2>3 DEF Admit, MayTakeSlot, Moves
  <2>5. TicketOf(q) \in Reap(caller[r])
    BY <2>4 DEF WaitsAhead, IInv, TypeOK, LiveTicketKept, CallsConsistent, Reap, InTime,
       TicketOf, Waiting
  <2>6. PICK t \in Reap(caller[r]) :
          t.request = r /\ \A u \in Reap(caller[r]) : t.sequence <= u.sequence
    BY <2>4 DEF IsHead
  <2>7. t.sequence = place[r] /\ t.sequence <= place[q]
    BY <2>5, <2>6 DEF Reap, IInv, TicketsMatchCalls, TicketOf
  <2>8. QED
    BY <2>7 DEF WaitsAhead, IInv, TypeOK
<1>2. QED
  BY <1>1, Consistent, PlaceKept, PTL DEF Spec, NoOvertaking

=============================================================================
