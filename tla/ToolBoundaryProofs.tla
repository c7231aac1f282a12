-------------------------- MODULE ToolBoundaryProofs --------------------------
(***************************************************************************)
(* What the plugin promises its host for any number of calls and of        *)
(* recoveries: a tool that is available stays so, and an answer that names *)
(* no run is the answer of a call that has none.                           *)
(***************************************************************************)
EXTENDS ToolBoundary, TLAPS

Ended == {"disabled", "structuralFailure", "ready"}

\* Setup ends as its gates decided, and a revalidation is in flight only while
\* the tool is transiently unavailable.
RecoveryInv ==
  /\ setup = "gates" \/ verdict \in Ended
  /\ InFlight => setup = "ready" /\ state = "transient"
  /\ setup \notin Ended => state = "none" /\ rounds = 0

\* A probe that is waited for is alive, a toolchain probe that is not is dead,
\* and each start of a probe leaves at most one behind.
ProbeInv ==
  /\ setup = "gates" => \A i \in Item : item[i] = "idle"
  /\ \A i \in Item : item[i] = "running" => setup = "running"
  /\ \A p \in Probe :
       /\ item[p] = "running" \/ round[p] = "running" => live[p] > 0
       /\ item[p] # "running" /\ round[p] # "running" /\ p = "toolchain" => live[p] = 0
       /\ p = "toolchain" => live[p] <= 1
       /\ live[p] <= rounds + 1
       /\ setup = "gates" => live[p] = 0

\* The answers that name no run.
NoRunNamed == {"noRun", "cancelledQueued", "failedWithoutRun", "thrown"}

\* One call: its slot is taken by the admission, announced right after it, and
\* its answer is final.
CallRule(r) ==
  /\ r.slot <=> r.service = "admitted" \/ r.admitted = "resolved"
  /\ r.service \notin {"running", "over"} => r.admitted = "pending"
  /\ r.service = "running" => r.admitted = "resolved"
  /\ r.tool = "waiting" => r.aborted
  /\ r.tool = "contained" => r.service = "over"
  /\ r.service = "over" => r.tool \notin {"racing", "waiting"}
  /\ r.service = "none" => r.tool \in {"idle", "answered"}
  /\ r.answer # "none" => r.tool = "answered"
  /\ r.answer \in NoRunNamed =>
       /\ ~r.slot
       /\ r.service = "over" \/ (r.aborted /\ r.service \in {"resolving", "reconciled", "queued"})

CallInv == \A c \in Call : CallRule(call[c])

PluginInv ==
  /\ RecoveryInv
  /\ ProbeInv
  /\ live \in [Probe -> 0 .. MaxRounds + 1]
  /\ rounds \in 0 .. MaxRounds

IInv == TypeOK /\ PluginInv

-----------------------------------------------------------------------------
(* Startup and recovery. *)

\* A call leaves the plugin as it is.
LEMMA CallFrame ==
  ASSUME NEW c \in Call, CallStep(c)
  PROVE  UNCHANGED <<plugin, live, recovery>>
<1>1. ASSUME NEW x, Becomes(c, x)
      PROVE  UNCHANGED <<plugin, live, recovery>>
  BY <1>1 DEF Becomes
<1>2. QED
  BY <1>1 DEF CallStep, ServiceStep, Start, Abort, WaitExpires, Contain, Resolve, Queue, Attempt, Announce, RunEnds

\* The rest leaves every call as it is.
LEMMA PluginFrame == StartupStep \/ RecoveryStep => UNCHANGED call
BY DEF StartupStep, RecoveryStep, RunStartup, Finish, Abandon, Conclude, LeftoverEnds,
       Recover, ProbeAnswers, ProbeAbandoned, Revalidated

\* Whatever startup, a recovery or a call does, the probes are accounted for.
LEMMA PluginHolds == IInv /\ [Next]_vars => PluginInv'
<1> SUFFICES ASSUME IInv, [Next]_vars
             PROVE  PluginInv'
  OBVIOUS
<1> USE ToolBoundaryAssumption DEF IInv, PluginInv, TypeOK
<1>1. ASSUME NEW v \in {"disabled", "structuralFailure", "ready"}, RunStartup(v)
      PROVE  PluginInv'
  BY <1>1 DEF RunStartup, recovery, RecoveryInv, ProbeInv, Ended, InFlight, NoRound, Probe, Item
<1>2. ASSUME NEW i \in Item, Finish(i)
      PROVE  PluginInv'
  BY <1>2 DEF Finish, recovery, RecoveryInv, ProbeInv, Ended, InFlight, NoRound, Probe, Item
<1>3. ASSUME NEW i \in Item, Abandon(i)
      PROVE  PluginInv'
  BY <1>3 DEF Abandon, Stopped, recovery, RecoveryInv, ProbeInv, Ended, InFlight, NoRound, Probe, Item
<1>4. CASE LeftoverEnds
  BY <1>4 DEF LeftoverEnds, plugin, recovery, RecoveryInv, ProbeInv, Ended, InFlight, NoRound, Probe, Item
<1>5. CASE Conclude
  BY <1>5 DEF Conclude, RecoveryInv, ProbeInv, Ended, InFlight, NoRound, Probe, Item
<1>6. ASSUME NEW r \in Recoverer, Recover(r)
      PROVE  PluginInv'
  BY <1>6 DEF Recover, StartRound, plugin, RecoveryInv, ProbeInv, Ended, InFlight, NoRound, Probe, Item
<1>7. ASSUME NEW p \in Probe, ProbeAnswers(p) \/ ProbeAbandoned(p)
      PROVE  PluginInv'
  BY <1>7 DEF ProbeAnswers, ProbeAbandoned, Stopped, plugin, RecoveryInv, ProbeInv, Ended, InFlight, NoRound, Probe, Item, Finding
<1>8. CASE Revalidated
  BY <1>8 DEF Revalidated, plugin, RecoveryInv, ProbeInv, Ended, InFlight, NoRound, Probe, Item
<1>9. CASE \E c \in Call : CallStep(c)
  BY <1>9, CallFrame DEF plugin, recovery, RecoveryInv, ProbeInv, InFlight
<1>10. CASE UNCHANGED vars
  BY <1>10 DEF vars, plugin, recovery, RecoveryInv, ProbeInv, InFlight
<1>11. QED
  BY <1>1, <1>2, <1>3, <1>4, <1>5, <1>6, <1>7, <1>8, <1>9, <1>10 DEF Next, StartupStep, RecoveryStep
-----------------------------------------------------------------------------
(* A call. *)

\* Every step of a call makes it another call.
LEMMA CallTypes ==
  ASSUME TypeOK, NEW c \in Call, CallStep(c)
  PROVE  \E x \in TestCall : call' = [call EXCEPT ![c] = x]
<1> DEFINE r == call[c]
<1>1. r \in TestCall /\ NoCall \in TestCall
  BY DEF TypeOK, NoCall, TestCall, Tool, Service, Answer
<1>2. ASSUME NEW q \in TestCall, NEW a \in Answer
      PROVE  Result(q, a) \in TestCall /\ Failure(q) \in TestCall
             /\ [q EXCEPT !.admitted = "rejected"] \in TestCall
  BY <1>2 DEF Result, Failure, TestCall, Tool, Service
<1>3. ASSUME \E x \in TestCall : Becomes(c, x)
      PROVE  \E x \in TestCall : call' = [call EXCEPT ![c] = x]
  BY <1>3 DEF Becomes
<1>4. CASE Start(c)
  BY <1>3, <1>4 DEF Start, NoCall, TestCall, Tool, Service, Answer
<1>5. CASE Abort(c)
  BY <1>1, <1>3, <1>5 DEF Abort, TestCall, Tool
<1>6. CASE WaitExpires(c) \/ Contain(c)
  BY <1>1, <1>3, <1>6 DEF WaitExpires, Contain, TestCall, Tool, Answer
<1>7. CASE Resolve(c)
  <2>1. [r EXCEPT !.service = "reconciled"] \in TestCall
    BY <1>1 DEF TestCall, Service
  <2>2. QED
    BY <1>1, <1>2, <1>3, <1>7, <2>1 DEF Resolve, Answer
<1>8. CASE Queue(c)
  <2>1. [r EXCEPT !.service = "locking"] \in TestCall
    BY <1>1 DEF TestCall, Service
  <2>2. NotAdmitted(c) \subseteq TestCall
    BY <1>1, <1>2 DEF NotAdmitted, Answer
  <2>3. QED
    BY <1>3, <1>8, <2>1, <2>2 DEF Queue
<1>9. CASE Attempt(c)
  BY <1>1, <1>3, <1>9 DEF Attempt, TestCall, Service
<1>10. CASE Announce(c)
  <2>1. [r EXCEPT !.service = "running", !.admitted = "resolved"] \in TestCall
    BY <1>1 DEF TestCall, Service
  <2>2. QED
    BY <1>1, <1>2, <1>3, <1>10, <2>1 DEF Announce, Answer
<1>11. CASE RunEnds(c)
  BY <1>1, <1>2, <1>3, <1>11 DEF RunEnds, Answer
<1>12. QED
  BY <1>4, <1>5, <1>6, <1>7, <1>8, <1>9, <1>10, <1>11 DEF CallStep, ServiceStep

\* Without a slow lock, and with a record that can be read and written after
\* the admission, every step of a call keeps its rule.
LEMMA CallRules ==
  ASSUME Fault \subseteq {"unrenderable"}, TypeOK, CallInv, NEW c \in Call, CallStep(c)
  PROVE  CallRule(call'[c])
<1> DEFINE r == call[c]
<1>1. r \in TestCall /\ CallRule(r)
  BY DEF TypeOK, CallInv
<1>2. ASSUME NEW x, Becomes(c, x)
      PROVE  call'[c] = x
  BY <1>2 DEF Becomes, TypeOK
<1>3. CASE Start(c)
  BY <1>2, <1>3 DEF Start, NoCall, CallRule, NoRunNamed
<1>4. CASE Abort(c)
  BY <1>1, <1>2, <1>4 DEF Abort, CallRule, NoRunNamed, TestCall
<1>5. CASE WaitExpires(c)
  BY <1>1, <1>2, <1>5 DEF WaitExpires, Patient, CallRule, NoRunNamed, TestCall, Service
<1>6. CASE Contain(c)
  BY <1>1, <1>2, <1>6 DEF Contain, CallRule, NoRunNamed, TestCall
<1>7. CASE Resolve(c)
  <2>1. CallRule(Result([r EXCEPT !.admitted = "rejected"], "noRun"))
    BY <1>1, <1>7 DEF Resolve, Result, CallRule, NoRunNamed, TestCall
  <2>2. CallRule(Failure(r))
    BY <1>1, <1>7 DEF Resolve, Failure, CallRule, NoRunNamed, TestCall
  <2>3. CallRule([r EXCEPT !.service = "reconciled"])
    BY <1>1, <1>7 DEF Resolve, CallRule, NoRunNamed, TestCall
  <2>4. QED
    BY <1>2, <1>7, <2>1, <2>2, <2>3 DEF Resolve
<1>8. CASE Queue(c)
  <2>1. CallRule(Result([r EXCEPT !.admitted = "rejected"], "noRun"))
    BY <1>1, <1>8 DEF Queue, Result, CallRule, NoRunNamed, TestCall
  <2>2. CallRule(Failure([r EXCEPT !.admitted = "rejected"]))
    BY <1>1, <1>8 DEF Queue, Failure, CallRule, NoRunNamed, TestCall
  <2>3. r.aborted \/ CallRule([r EXCEPT !.service = "locking"])
    BY <1>1, <1>8 DEF Queue, CallRule, NoRunNamed, TestCall
  <2>4. QED
    BY <1>2, <1>8, <2>1, <2>2, <2>3 DEF Queue, NotAdmitted
<1>9. CASE Attempt(c)
  <2>1. CallRule([r EXCEPT !.service = "queued"])
    BY <1>1, <1>9 DEF Attempt, CallRule, NoRunNamed, TestCall
  <2>2. CallRule([r EXCEPT !.service = "admitted", !.slot = TRUE])
    BY <1>1, <1>9 DEF Attempt, CallRule, NoRunNamed, TestCall
  <2>3. QED
    BY <1>2, <1>9, <2>1, <2>2 DEF Attempt
<1>10. CASE Announce(c)
  <2>1. CallRule([r EXCEPT !.service = "running", !.admitted = "resolved"])
    BY <1>1, <1>10 DEF Announce, CallRule, NoRunNamed, TestCall
  <2>2. QED
    BY <1>2, <1>10, <2>1 DEF Announce
<1>11. CASE RunEnds(c)
  <2>1. CallRule(Result(r, "summary"))
    BY <1>1, <1>11 DEF RunEnds, Result, CallRule, NoRunNamed, TestCall
  <2>2. CallRule(Failure(r))
    BY <1>1, <1>11 DEF RunEnds, Failure, CallRule, NoRunNamed, TestCall
  <2>3. QED
    BY <1>2, <1>11, <2>1, <2>2 DEF RunEnds
<1>12. QED
  BY <1>3, <1>4, <1>5, <1>6, <1>7, <1>8, <1>9, <1>10, <1>11 DEF CallStep, ServiceStep

-----------------------------------------------------------------------------
(* The theorems. *)

\* Every variable keeps its type.
LEMMA TypesHold == IInv /\ [Next]_vars => TypeOK'
<1> SUFFICES ASSUME IInv, [Next]_vars
             PROVE  TypeOK'
  OBVIOUS
<1> USE ToolBoundaryAssumption DEF IInv, TypeOK
<1>1. live' \in [Probe -> 0 .. MaxRounds + 1] /\ live'["toolchain"] \in {0, 1} /\ rounds' \in 0 .. MaxRounds
  BY PluginHolds DEF PluginInv, ProbeInv, Probe
<1>2. CASE StartupStep
  <2>1. UNCHANGED <<round, recoverer, call>>
    BY <1>2, PluginFrame DEF StartupStep, RunStartup, Finish, Abandon, Conclude, LeftoverEnds, recovery
  <2>2. CASE \E v \in {"disabled", "structuralFailure", "ready"} : RunStartup(v)
    BY <1>1, <2>1, <2>2 DEF RunStartup, recovery, Item
  <2>3. CASE \E i \in Item : Finish(i) \/ Abandon(i)
    <3>1. atStartup' \in [Probe -> Finding \cup {"unknown"}]
      BY <2>3 DEF Finish, Abandon
    <3>2. item' \in [Item -> {"idle", "running", "done", "expired"}]
      BY <2>3 DEF Finish, Abandon
    <3>3. UNCHANGED <<setup, verdict, state>>
      BY <2>3 DEF Finish, Abandon, recovery
    <3>4. QED
      BY <1>1, <2>1, <3>1, <3>2, <3>3
  <2>4. CASE Conclude
    BY <1>1, <2>1, <2>4 DEF Conclude, AvailabilityFor, PluginInv, RecoveryInv, Ended
  <2>5. CASE LeftoverEnds
    BY <1>1, <2>1, <2>5 DEF LeftoverEnds, plugin, recovery
  <2>6. QED
    BY <1>2, <2>2, <2>3, <2>4, <2>5 DEF StartupStep
<1>3. CASE RecoveryStep
  <2>1. UNCHANGED <<setup, verdict, item, atStartup, call>>
    BY <1>3, PluginFrame DEF RecoveryStep, Recover, ProbeAnswers, ProbeAbandoned, Revalidated, plugin
  <2>2. QED
    BY <1>1, <1>3, <2>1 DEF RecoveryStep, Recover, StartRound, ProbeAnswers, ProbeAbandoned, Revalidated,
       AvailabilityFor, NoRound, Finding
<1>4. ASSUME NEW c \in Call, CallStep(c)
      PROVE  TypeOK'
  BY <1>4, CallFrame, CallTypes DEF plugin, recovery
<1>5. CASE UNCHANGED vars
  BY <1>5 DEF vars, plugin, recovery
<1>6. QED
  BY <1>2, <1>3, <1>4, <1>5 DEF Next

\* The initial states satisfy the invariant.
LEMMA InitHolds == Init => IInv /\ CallInv
<1> SUFFICES ASSUME Init
             PROVE  IInv /\ CallInv
  OBVIOUS
<1>1. TypeOK
  BY ToolBoundaryAssumption DEF Init, TypeOK, Probe, NoRound, NoCall, TestCall, Tool, Service, Answer
<1>2. PluginInv
  BY ToolBoundaryAssumption DEF Init, PluginInv, RecoveryInv, ProbeInv, Ended, InFlight, NoRound, Probe, Item
<1>3. CallInv
  BY DEF Init, CallInv, CallRule, NoRunNamed, NoCall
<1>4. QED
  BY <1>1, <1>2, <1>3 DEF IInv

\* The invariant of the plugin holds throughout, whatever goes wrong.
THEOREM PluginInvariant == Spec => []IInv
<1>1. IInv /\ [Next]_vars => IInv'
  BY TypesHold, PluginHolds DEF IInv
<1>2. QED
  BY <1>1, InitHolds, PTL DEF Spec

\* Type correctness: ToolBoundary's TypeOK, which lets no two probes of the
\* toolchain be alive, and of the runtime one for each time it was probed.
THEOREM BoundaryTypes == Spec => []TypeOK
<1>1. IInv => TypeOK
  BY DEF IInv
<1>2. QED
  BY <1>1, PluginInvariant, PTL

\* A tool that is available stays so, for any number of recoveries and faults:
\* availability.ts revalidatingService.
THEOREM AvailabilityIsKept == Spec => AvailableStays
<1>1. IInv /\ [Next]_vars => (state = "available" => state' = "available")
  <2> SUFFICES ASSUME IInv, [Next]_vars, state = "available"
               PROVE  state' = "available"
    OBVIOUS
  <2>1. setup # "running" /\ ~InFlight
    BY DEF IInv, PluginInv, RecoveryInv, Ended
  <2>2. CASE StartupStep
    BY <2>1, <2>2 DEF StartupStep, RunStartup, Finish, Abandon, Conclude, LeftoverEnds, recovery
  <2>3. CASE RecoveryStep
    BY <2>1, <2>3 DEF RecoveryStep, Recover, ProbeAnswers, ProbeAbandoned, Revalidated
  <2>4. ASSUME NEW c \in Call, CallStep(c)
        PROVE  state' = "available"
    BY <2>4, CallFrame DEF recovery
  <2>5. QED
    BY <2>2, <2>3, <2>4 DEF Next, vars, recovery
<1>2. QED
  BY <1>1, PluginInvariant, PTL DEF Spec, AvailableStays

\* Where the root lock is given within the abort wait and the record of a run
\* just admitted can be read and written, an answer that names no run is the
\* answer of a call without one, for any number of calls: tools.ts runTest and
\* containedFailure.
THEOREM AnswersNameTheirRun ==
  ASSUME Fault \subseteq {"unrenderable"}
  PROVE  Spec => []AnswerNamesItsRun
<1>1. TypeOK /\ CallInv /\ [Next]_vars => CallInv'
  <2> SUFFICES ASSUME TypeOK, CallInv, [Next]_vars
               PROVE  CallInv'
    OBVIOUS
  <2>1. ASSUME UNCHANGED call
        PROVE  CallInv'
    BY <2>1 DEF CallInv
  <2>2. ASSUME NEW c \in Call, CallStep(c)
        PROVE  CallInv'
    <3>1. \A d \in Call : d # c => call'[d] = call[d]
      BY <2>2, CallTypes DEF TypeOK
    <3>2. QED
      BY <2>2, <3>1, CallRules DEF CallInv
  <2>3. QED
    BY <2>1, <2>2, PluginFrame DEF Next, vars
<1>2. CallInv => AnswerNamesItsRun
  BY DEF CallInv, CallRule, NoRunNamed, AnswerNamesItsRun
<1>3. QED
  BY <1>1, <1>2, BoundaryTypes, InitHolds, PTL DEF Spec
=============================================================================
