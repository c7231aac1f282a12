--------------------------- MODULE SupervisionProofs ---------------------------
(***************************************************************************)
(* What holds of every supervisor, whichever of the record's writes may    *)
(* fail: the gate, the evidence and the trigger.                           *)
(***************************************************************************)
EXTENDS Supervision, TLAPS

\* Where the gate has not been opened.
BeforeLaunch == {"handshaken", "ready", "spawned", "recorded", "authorized", "abandoning"}

\* Where the gate has been, and the supervisor still works.
AfterLaunch == {"racing", "signalling", "waiting", "observingExit", "observingExec",
                "draining", "judging", "concluding"}

PastGate == gate \in {"released", "announcing", "running"}

\* What the record says of the launch, by where the supervisor is.
GateInv ==
  /\ sup \in BeforeLaunch => ~PastGate /\ ~executed /\ drained = "unset"
  /\ sup \in {"handshaken", "ready"} => gate = "none" /\ ~exitSeen /\ evidence = "unset"
  /\ sup \in AfterLaunch \cup {"authorized"} => disk.state = "launchAuthorized"
  /\ PastGate \/ executed => disk.state \in {"launchAuthorized", "executionCompleted"}
  /\ gate = "running" => executed
  /\ executed => gate \in {"running", "gone"}
  /\ offspring => executed

\* What the supervisor found stays true: a group never comes back.
EvidenceInv ==
  /\ exitSeen => ~LeaderLives
  /\ drained = "yes" => GroupEmpty
  /\ status = ExecFailure => gate = "gone"
  /\ evidence = "no" => gate \in {"none", "gone"} /\ (executed => status = ExecFailure)
  /\ disk.execObserved = "no" => ~PastGate /\ (executed => status = ExecFailure) /\ sup \in Over
  /\ sup = "exited" /\ ~disk.quarantined => GroupEmpty

\* The record's trigger is the supervisor's, or is missing and known to be.
TriggerInv ==
  /\ disk.trigger \in {"none", trigger}
  /\ trigger # "none" => disk.trigger = trigger \/ uncertain
  /\ requested \/ sup \in {"signalling", "waiting"} => trigger # "none"
  /\ sup \in BeforeLaunch => ~uncertain
  /\ sup = "exited" /\ uncertain => disk.quarantined

IInv ==
  /\ TypeOK
  /\ GateInv
  /\ EvidenceInv
  /\ TriggerInv

-----------------------------------------------------------------------------
\* What fixing and persisting a trigger leaves on disk.
LEMMA Fixing ==
  ASSUME NEW cause \in Trigger \ {"none"}, IInv, FixAndPersist(cause)
  PROVE  /\ trigger' \in Trigger \ {"none"} /\ uncertain' \in BOOLEAN
         /\ disk' \in DiskRecord
         /\ disk'.trigger \in {"none", trigger'}
         /\ disk'.trigger = trigger' \/ uncertain'
         /\ disk'.state = disk.state /\ disk'.execObserved = disk.execObserved
         /\ disk'.quarantined = disk.quarantined
BY DEF FixAndPersist, IInv, TypeOK, TriggerInv, DiskRecord, Trigger

\* No step of the supervisor, of its events or of its group breaks the invariant.
LEMMA Inductive == IInv /\ [Next]_vars => IInv'
<1> USE DEF IInv, TypeOK, GateInv, EvidenceInv, TriggerInv, BeforeLaunch, AfterLaunch,
            PastGate, Awaiting, Running, Over, Rank, Trigger, Fact, DiskRecord, LastStep,
            LeaderLives, GroupEmpty, ExecFailure, Goes, Advances, Throws, Escalated,
            events, verdict, group, outcome
<1> SUFFICES ASSUME IInv, [Next]_vars
             PROVE  IInv'
  OBVIOUS
<1>1. CASE BecomeReady
  BY <1>1 DEF BecomeReady
<1>2. CASE CancelBeforeSpawn
  BY <1>2 DEF CancelBeforeSpawn
<1>3. CASE SpawnGatedChild
  <2>1. TypeOK'
    <3>1. CASE gate' = "starting" /\ UNCHANGED <<exitSeen, evidence>>
      BY <1>3, <3>1 DEF SpawnGatedChild
    <3>2. CASE exitSeen' = TRUE /\ evidence' = "no" /\ UNCHANGED gate
      BY <1>3, <3>2 DEF SpawnGatedChild
    <3>3. QED
      BY <1>3, <3>1, <3>2 DEF SpawnGatedChild
  <2>2. GateInv'
    BY <1>3 DEF SpawnGatedChild
  <2>3. EvidenceInv'
    BY <1>3 DEF SpawnGatedChild
  <2>4. TriggerInv'
    BY <1>3 DEF SpawnGatedChild
  <2>5. QED
    BY <2>1, <2>2, <2>3, <2>4
<1>4. CASE RecordChild
  BY <1>4 DEF RecordChild
<1>5. CASE Abandon
  BY <1>5 DEF Abandon
<1>6. CASE AuthorizeLaunch
  BY <1>6 DEF AuthorizeLaunch
<1>7. CASE ReleaseGate
  BY <1>7 DEF ReleaseGate
<1>8. CASE ConcludeAbandoned
  <2>1. TypeOK'
    <3>1. sup' \in Over /\ disk' \in DiskRecord
      BY <1>8 DEF ConcludeAbandoned
    <3>2. QED
      BY <1>8, <3>1 DEF ConcludeAbandoned
  <2>2. GateInv'
    BY <1>8 DEF ConcludeAbandoned
  <2>3. EvidenceInv'
    BY <1>8 DEF ConcludeAbandoned
  <2>4. TriggerInv'
    BY <1>8 DEF ConcludeAbandoned
  <2>5. QED
    BY <2>1, <2>2, <2>3, <2>4
<1>9. CASE Interrupt("callerCancellation")
  <2>1. FixAndPersist("callerCancellation") /\ UNCHANGED <<requested, verdict, lost, exitSeen, announcedSeen, group>>
    BY <1>9 DEF Interrupt
  <2>2. Goes("racing", "signalling") /\ step' = 1 /\ aborted' \in BOOLEAN
    BY <1>9 DEF Interrupt
  <2>3. QED
    BY <2>1, <2>2, Fixing
<1>10. CASE Interrupt("processDeadline")
  <2>1. FixAndPersist("processDeadline") /\ UNCHANGED <<requested, verdict, lost, exitSeen, announcedSeen, group>>
    BY <1>10 DEF Interrupt
  <2>2. Goes("racing", "signalling") /\ step' = 1 /\ aborted' \in BOOLEAN
    BY <1>10 DEF Interrupt
  <2>3. QED
    BY <2>1, <2>2, Fixing
<1>11. CASE Signal
  BY <1>11 DEF Signal
<1>12. CASE SignalUnsafe
  BY <1>12 DEF SignalUnsafe
<1>13. CASE WaitAfterSignal
  BY <1>13 DEF WaitAfterSignal
<1>14. CASE ObserveExit
  BY <1>14 DEF ObserveExit
<1>15. CASE ObserveExecution
  BY <1>15 DEF ObserveExecution
<1>16. CASE Drain
  BY <1>16 DEF Drain
<1>17. CASE Judge
  <2>1. /\ sup = "judging" /\ sup' \in {"signalling", "concluding"} /\ step' \in {step, 1}
        /\ UNCHANGED <<requested, verdict, events, group>>
        /\ sup' = "signalling" => FixAndPersist("toolFailure")
    BY <1>17 DEF Judge
  <2>2. CASE FixAndPersist("toolFailure")
    BY <2>1, <2>2, Fixing
  <2>3. CASE UNCHANGED <<trigger, uncertain, disk>> /\ sup' = "concluding"
    BY <2>1, <2>3
  <2>4. QED
    BY <1>17, <2>2, <2>3 DEF Judge
<1>18. CASE Conclude
  <2>1. UNCHANGED <<step, outcome, verdict, events, group>>
    BY <1>18 DEF Conclude
  <2>2. CASE Throws("concluding", "failed", "executionCompleted")
    BY <2>1, <2>2
  <2>3. CASE sup = "concluding" /\ sup' = "exited"
             /\ disk' = [state |-> "executionCompleted", trigger |-> trigger,
                         execObserved |-> evidence, descendants |-> drained,
                         quarantined |-> QuarantineRequired]
    <3>1. /\ QuarantineRequired \in BOOLEAN
          /\ ~QuarantineRequired => drained = "yes"
          /\ uncertain => QuarantineRequired
      BY DEF QuarantineRequired
    <3>2. /\ disk' \in DiskRecord /\ disk'.state = "executionCompleted"
          /\ disk'.trigger = trigger /\ disk'.execObserved = evidence
          /\ disk'.quarantined = QuarantineRequired
      BY <2>3, <3>1
    <3>3. QED
      BY <2>1, <2>3, <3>1, <3>2
  <2>4. QED
    BY <1>18, <2>2, <2>3 DEF Conclude
<1>19. CASE CancelArrives
  BY <1>19 DEF CancelArrives
<1>20. CASE ChannelLost
  BY <1>20 DEF ChannelLost
<1>21. CASE AnnouncementSeen
  BY <1>21 DEF AnnouncementSeen
<1>22. CASE ExitSeen
  BY <1>22 DEF ExitSeen, ExecEvidence
<1>23. CASE Crash
  BY <1>23 DEF Crash
<1>24. CASE GroupStep
  <2> USE DEF GroupStep
  <2>1. CASE PublishIdentity
    BY <1>24, <2>1 DEF PublishIdentity
  <2>2. CASE GateRefused
    BY <1>24, <2>2 DEF GateRefused, Refused
  <2>3. CASE AnnounceExec
    BY <1>24, <2>3 DEF AnnounceExec
  <2>4. CASE Exec
    <3>1. CASE gate' = "running" /\ executed' = TRUE /\ UNCHANGED status
      BY <1>24, <2>4, <3>1 DEF Exec
    <3>2. CASE gate' = "gone" /\ status' = ExecFailure /\ UNCHANGED executed
      BY <1>24, <2>4, <3>2 DEF Exec
    <3>3. QED
      BY <2>4, <3>1, <3>2 DEF Exec
  <2>5. CASE LeaderExits
    BY <1>24, <2>5 DEF LeaderExits
  <2>6. CASE Spawns
    BY <1>24, <2>6 DEF Spawns
  <2>7. CASE OffspringExit
    <3>1. /\ offspring' = FALSE
          /\ UNCHANGED <<sup, step, outcome, verdict, events, disk, gate, announced, status,
                         executed, killed>>
      BY <1>24, <2>7 DEF OffspringExit
    <3>2. offspring' \in BOOLEAN
      BY <3>1, Zenon
    <3>3. TypeOK'
      <4>1. /\ requested' \in BOOLEAN /\ uncertain' \in BOOLEAN
            /\ aborted' \in BOOLEAN /\ lost' \in BOOLEAN
            /\ exitSeen' \in BOOLEAN /\ announcedSeen' \in BOOLEAN
            /\ announced' \in BOOLEAN /\ executed' \in BOOLEAN /\ killed' \in BOOLEAN
        BY <3>1, Zenon
      <4>2. /\ UNCHANGED <<sup, step, trigger, confirmed, evidence, drained, disk, gate, status>>
            /\ sup \in Awaiting \cup Running \cup Over /\ step \in 0..LastStep
            /\ trigger \in Trigger
            /\ confirmed \in Fact /\ evidence \in Fact /\ drained \in Fact
            /\ disk \in DiskRecord
            /\ gate \in {"none", "starting", "published", "released", "announcing",
                         "running", "gone"}
            /\ status \in {"none", "refused", ExecFailure, "other"}
        BY <3>1
      <4>3. QED
        BY <3>2, <4>1, <4>2
    <3>4. TriggerInv'
      BY <3>1
    <3>5. GateInv'
      BY <3>1
    <3>6. EvidenceInv'
      BY <3>1
    <3>7. QED
      BY <3>3, <3>5, <3>6, <3>4
  <2>8. QED
    BY <1>24, <2>1, <2>2, <2>3, <2>4, <2>5, <2>6, <2>7
<1>25. CASE UNCHANGED vars
  BY <1>25 DEF vars
<1>26. QED
  BY <1>1, <1>2, <1>3, <1>4, <1>5, <1>6, <1>7, <1>8, <1>9, <1>10, <1>11, <1>12, <1>13, <1>14, <1>15, <1>16, <1>17, <1>18, <1>19, <1>20, <1>21, <1>22, <1>23, <1>24, <1>25 DEF Next, SupervisorStep

-----------------------------------------------------------------------------
\* The invariant holds of every supervisor that was ever started.
THEOREM Supervised == Spec => []IInv
<1>1. Init => IInv
  <2> SUFFICES ASSUME Init PROVE IInv
    OBVIOUS
  <2>1. disk \in DiskRecord
    BY DEF Init, DiskRecord, Rank, Trigger, Fact
  <2>2. TypeOK
    <3>1. /\ requested \in BOOLEAN /\ uncertain \in BOOLEAN
          /\ aborted \in BOOLEAN /\ lost \in BOOLEAN
          /\ exitSeen \in BOOLEAN /\ announcedSeen \in BOOLEAN
          /\ announced \in BOOLEAN /\ executed \in BOOLEAN
          /\ offspring \in BOOLEAN /\ killed \in BOOLEAN
      BY Zenon DEF Init
    <3>2. /\ sup \in Awaiting \cup Running \cup Over /\ step \in 0..LastStep
          /\ trigger \in Trigger
          /\ confirmed \in Fact /\ evidence \in Fact /\ drained \in Fact
      BY DEF Init, Awaiting, Running, Over, Trigger, Fact, LastStep
    <3>3. QED
      BY <2>1, <3>1, <3>2 DEF Init, TypeOK
  <2>3. GateInv /\ EvidenceInv /\ TriggerInv
    BY DEF Init, GateInv, EvidenceInv, TriggerInv, BeforeLaunch, AfterLaunch, PastGate,
           LeaderLives, GroupEmpty, ExecFailure, Over
  <2>4. QED
    BY <2>2, <2>3 DEF IInv
<1>2. QED
  BY <1>1, Inductive, PTL DEF Spec

\* Every field of the supervisor, its record and its group stays in its type.
THEOREM TypeCorrect == Spec => []TypeOK
<1>1. IInv => TypeOK
  BY DEF IInv
<1>2. QED
  BY <1>1, Supervised, PTL

\* GATE_SCRIPT passes its gate, and xcodebuild runs, only when the record that
\* authorizes it is on disk, whichever write fails and wherever a crash falls.
THEOREM GateHolds == Spec => []ExecOnlyWhenDurable
<1>1. IInv => ExecOnlyWhenDurable
  BY DEF IInv, GateInv, ExecOnlyWhenDurable, PastGate, Rank
<1>2. QED
  BY <1>1, Supervised, PTL

\* terminate signals nothing before its trigger is persisted or known not to be.
THEOREM TriggerComesFirst == Spec => []TriggerBeforeSignal
<1>1. IInv => TriggerBeforeSignal
  BY DEF IInv, TriggerInv, TriggerBeforeSignal
<1>2. QED
  BY <1>1, Supervised, PTL

\* A supervisor that exits in order without a quarantine leaves no process, and no
\* trigger it failed to write down.
THEOREM CleanEnd == Spec => []UnquarantinedIsGone
<1>1. IInv => UnquarantinedIsGone
  BY DEF IInv, EvidenceInv, TriggerInv, UnquarantinedIsGone
<1>2. QED
  BY <1>1, Supervised, PTL

\* execObserved says "no" only of a run that nothing can execute any more, and of one
\* that reached xcodebuild only if xcodebuild itself exited with 126 or 127.
THEOREM NoIsHonest == Spec => []NoIsWarranted
<1>1. IInv => NoIsWarranted
  BY DEF IInv, EvidenceInv, PastGate, NoIsWarranted
<1>2. QED
  BY <1>1, Supervised, PTL

\* Once the record names a trigger, no later write of it names another.
THEOREM TriggerStays == Spec => FirstTriggerStays
<1>1. ASSUME IInv, [Next]_vars, disk.trigger # "none"
      PROVE  disk'.trigger = disk.trigger
  <2>1. disk \in DiskRecord /\ trigger = disk.trigger
    BY <1>1 DEF IInv, TypeOK, TriggerInv
  <2>2. ASSUME NEW cause, FixAndPersist(cause)
        PROVE  disk'.trigger = disk.trigger
    BY <1>1, <2>1, <2>2 DEF FixAndPersist, DiskRecord
  <2>3. ASSUME NEW from, NEW to, NEW state, Advances(from, to, state) \/ Throws(from, to, state)
        PROVE  disk'.trigger = disk.trigger
    BY <2>1, <2>3 DEF Advances, Throws, DiskRecord
  <2>4. CASE BecomeReady \/ RecordChild \/ AuthorizeLaunch
    BY <2>3, <2>4 DEF BecomeReady, RecordChild, AuthorizeLaunch
  <2>5. CASE ConcludeAbandoned
    BY <2>1, <2>3, <2>5 DEF ConcludeAbandoned, DiskRecord
  <2>6. CASE Interrupt("callerCancellation") \/ Interrupt("processDeadline")
    BY <2>2, <2>6 DEF Interrupt
  <2>7. CASE Judge
    BY <2>2, <2>7 DEF Judge
  <2>8. CASE Conclude
    BY <2>1, <2>3, <2>8 DEF Conclude
  <2>9. CASE UNCHANGED disk
    BY <2>9
  <2>10. QED
    BY <1>1, <2>4, <2>5, <2>6, <2>7, <2>8, <2>9
       DEF Next, SupervisorStep, CancelBeforeSpawn, SpawnGatedChild, Abandon, ReleaseGate,
           Signal, SignalUnsafe, WaitAfterSignal, ObserveExit, ObserveExecution, Drain,
           CancelArrives, ChannelLost, AnnouncementSeen, ExitSeen, Crash, GroupStep, vars
<1>2. IInv /\ [Next]_vars => [disk.trigger # "none" => disk'.trigger = disk.trigger]_disk
  BY <1>1
<1>3. QED
  BY <1>2, Supervised, PTL DEF Spec, FirstTriggerStays

=============================================================================
