------------------------------ MODULE Supervision ------------------------------
(***************************************************************************)
(* How one supervisor (runner/supervisor.ts, in the process of             *)
(* supervisor-entry.ts) takes one admitted run from its handshake to its   *)
(* last word: the gated child of runner/gate.ts that may become xcodebuild *)
(* only once its launch is durable, the race of exit, cancellation and     *)
(* deadline, the escalation and evidence rules of runner/termination.ts,   *)
(* and the record they leave.                                              *)
(*                                                                         *)
(* The supervisor is one event loop.  Between two awaits its steps follow  *)
(* each other with no event in between, but the child, the disk and a      *)
(* crash of the supervisor itself know nothing of that.  Every timer is an *)
(* action that may happen whenever it is waited for.  Nobody else writes   *)
(* the record while a run's owner and supervisor live (RunLifecycle), so   *)
(* the record the code holds in memory is the one on disk.                 *)
(***************************************************************************)
EXTENDS Naturals

CONSTANT FallibleWrites  \* the writes of the record that may fail

RecordWrites == {"supervisorReady", "childRecorded", "launchAuthorized", "trigger",
                 "executionCompleted"}

ASSUME WritesAssumption == FallibleWrites \subseteq RecordWrites

VARIABLES
  sup, step,                   \* where superviseRun is, and how far it escalated
  trigger, requested,          \* TerminationTrigger
  uncertain,                   \* durableStateUncertain
  confirmed, evidence, drained, \* what observeExit, observeExecution, drain found
  aborted, lost, exitSeen, announcedSeen,  \* what its event loop has delivered
  disk,                        \* metadata.json
  gate, announced, status, executed, offspring, killed  \* the process group

verdict == <<confirmed, evidence, drained>>
events == <<aborted, lost, exitSeen, announcedSeen>>
group == <<gate, announced, status, executed, offspring, killed>>
outcome == <<trigger, requested, uncertain>>
vars == <<sup, step, trigger, requested, uncertain, confirmed, evidence, drained, aborted,
          lost, exitSeen, announcedSeen, disk, gate, announced, status, executed, offspring,
          killed>>

\* Where superviseRun awaits, where it is between two awaits, where it is over.
Awaiting == {"spawned", "abandoning", "racing", "waiting", "observingExit",
             "observingExec", "draining"}
Running == {"handshaken", "ready", "recorded", "authorized", "signalling",
            "judging", "concluding"}
Over == {"exited", "failed", "crashed"}

Rank == [admitted |-> 0, supervisorReady |-> 1, childRecorded |-> 2,
         launchAuthorized |-> 3, executionCompleted |-> 4]

Trigger == {"none", "callerCancellation", "processDeadline", "toolFailure"}
Fact == {"unset", "yes", "no", "unknown"}

DiskRecord == [state : DOMAIN Rank, trigger : Trigger, execObserved : Fact,
               descendants : Fact, quarantined : BOOLEAN]

\* ESCALATION: SIGINT, SIGTERM, SIGKILL.
LastStep == 3

\* EXEC_FAILURE_STATUSES: sh exits with 126 or 127 if it cannot execute its
\* target, and any program may.
ExecFailure == "execFailure"

LeaderLives == gate \notin {"none", "gone"}
GroupEmpty == ~LeaderLives /\ ~offspring

\* The gate's authorization pipe has no writer any more.
Refused == sup \in {"abandoning"} \cup Over

-----------------------------------------------------------------------------
Init ==
  /\ sup = "handshaken" /\ step = 0
  /\ trigger = "none" /\ requested = FALSE /\ uncertain = FALSE
  /\ confirmed = "unset" /\ evidence = "unset" /\ drained = "unset"
  /\ aborted \in BOOLEAN
  /\ lost = FALSE /\ exitSeen = FALSE /\ announcedSeen = FALSE
  /\ disk = [state |-> "admitted", trigger |-> "none", execObserved |-> "unset",
             descendants |-> "unset", quarantined |-> FALSE]
  /\ gate = "none" /\ announced = FALSE /\ status = "none" /\ executed = FALSE
  /\ offspring = FALSE /\ killed = FALSE

Goes(from, to) == sup = from /\ sup' = to

\* advance succeeds, or throws.
Advances(from, to, state) ==
  /\ Goes(from, to)
  /\ disk' = [disk EXCEPT !.state = state]

Throws(from, to, state) ==
  /\ state \in FallibleWrites
  /\ Goes(from, to)
  /\ UNCHANGED disk

-----------------------------------------------------------------------------
\* Up to the launch.

BecomeReady ==
  /\ \/ Advances("handshaken", "ready", "supervisorReady")
     \/ Throws("handshaken", "failed", "supervisorReady")
  /\ UNCHANGED <<step, outcome, verdict, events, group>>

\* Cancelled with nothing spawned: the record stays supervisorReady.
CancelBeforeSpawn ==
  /\ aborted
  /\ Goes("ready", "exited")
  /\ UNCHANGED <<step, outcome, verdict, events, disk, group>>

\* spawnGatedChild: a child at the gate, or (neverStarted) none, of which both
\* observations are settled at once.
SpawnGatedChild ==
  /\ ~aborted
  /\ Goes("ready", "spawned")
  /\ \/ gate' = "starting" /\ UNCHANGED <<exitSeen, evidence>>
     \/ exitSeen' = TRUE /\ evidence' = "no" /\ UNCHANGED gate
  /\ UNCHANGED <<step, outcome, confirmed, drained, aborted, lost,
                 announcedSeen, disk, announced, status, executed, offspring, killed>>

\* The child's identity arrived and is written down.
RecordChild ==
  /\ gate # "none" /\ gate # "starting"
  /\ \/ Advances("spawned", "recorded", "childRecorded")
     \/ Throws("spawned", "failed", "childRecorded")
  /\ UNCHANGED <<step, outcome, verdict, events, group>>

\* No usable identity within the startup deadline, or a cancellation: abandon.
Abandon ==
  /\ \/ Goes("spawned", "abandoning")
     \/ aborted /\ Goes("recorded", "abandoning")
  /\ UNCHANGED <<step, outcome, verdict, events, disk, group>>

\* Mutation of AuthorizeLaunch: a write that failed does not stop the launch.
AuthorizeAnyway ==
  /\ ~aborted
  /\ \/ Advances("recorded", "authorized", "launchAuthorized")
     \/ Throws("recorded", "authorized", "launchAuthorized")
  /\ UNCHANGED <<step, outcome, verdict, events, group>>

\* The launch is durable before the gate opens; if it cannot be, it never does.
AuthorizeLaunch ==
  /\ ~aborted
  /\ \/ Advances("recorded", "authorized", "launchAuthorized")
     \/ Throws("recorded", "abandoning", "launchAuthorized")
  /\ UNCHANGED <<step, outcome, verdict, events, group>>

\* authorize, and enter the race; an exit already delivered ends it at once.
ReleaseGate ==
  /\ Goes("authorized", IF exitSeen THEN "observingExit" ELSE "racing")
  /\ gate' = IF gate = "published" THEN "released" ELSE gate
  /\ UNCHANGED <<step, outcome, verdict, events, disk, announced, status,
                 executed, offspring, killed>>

\* Mutation of ConcludeAbandoned: a gate that was refused is taken to be gone.
ConcludeAbandonedBlindly ==
  /\ Goes("abandoning", "exited")
  /\ UNCHANGED <<step, outcome, verdict, events, disk, group>>

\* unlaunchedEvidence: an exit that was seen leaves the record as it is; one
\* that was not seen within its budget is written down with a quarantine.
ConcludeAbandoned ==
  /\ \/ exitSeen /\ Goes("abandoning", "exited") /\ UNCHANGED disk
     \/ /\ ~exitSeen
        /\ Goes("abandoning", "exited")
        /\ disk' = [disk EXCEPT !.state = "executionCompleted", !.execObserved = "no",
                                !.descendants = "unknown", !.quarantined = TRUE]
     \/ ~exitSeen /\ Throws("abandoning", "failed", "executionCompleted")
  /\ UNCHANGED <<step, outcome, verdict, events, group>>

-----------------------------------------------------------------------------
\* The race and the escalation.

\* TerminationTrigger.fix, then persistTrigger: a bounded attempt, or two of
\* which the second may succeed.
FixAndPersist(cause) ==
  LET fixed == IF trigger = "none" THEN cause ELSE trigger
      persisted == [disk EXCEPT !.trigger = fixed]
  IN /\ trigger' = fixed
     /\ \/ disk' = persisted /\ UNCHANGED uncertain
        \/ "trigger" \in FallibleWrites /\ uncertain' = TRUE /\ disk' \in {disk, persisted}

\* Mutation of Interrupt: the trigger is persisted only with the conclusion.
InterruptUnpersisted(cause) ==
  /\ Goes("racing", "signalling")
  /\ step' = 1
  /\ trigger' = cause
  /\ aborted' = (aborted \/ cause = "callerCancellation")
  /\ UNCHANGED <<requested, uncertain, disk, verdict, lost, exitSeen, announcedSeen, group>>

\* Cancellation arrives, or the deadline passes, while the child is raced: the
\* trigger is fixed and persisted, then terminate begins.
Interrupt(cause) ==
  /\ Goes("racing", "signalling")
  /\ step' = 1
  /\ FixAndPersist(cause)
  /\ aborted' = (aborted \/ cause = "callerCancellation")
  /\ UNCHANGED <<requested, verdict, lost, exitSeen, announcedSeen, group>>

\* terminate is over, for the first time or after judging.
Escalated == IF drained = "unset" THEN "observingExit" ELSE "concluding"

\* One step of the ladder: the group is signalled if its leader still validates.
Signal ==
  /\ LeaderLives
  /\ Goes("signalling", "waiting")
  /\ requested' = TRUE
  /\ killed' = (killed \/ step = LastStep)
  /\ UNCHANGED <<step, trigger, uncertain, verdict, events, disk, gate, announced,
                 status, executed, offspring>>

\* signallingIsSafe says no: terminate returns.
SignalUnsafe ==
  /\ ~LeaderLives
  /\ Goes("signalling", Escalated)
  /\ UNCHANGED <<step, outcome, verdict, events, disk, group>>

\* Mutation of WaitAfterSignal: one step beyond the ladder.
WaitPastTheEnd ==
  /\ \/ GroupEmpty /\ Goes("waiting", Escalated) /\ UNCHANGED step
     \/ step <= LastStep /\ Goes("waiting", "signalling") /\ step' = step + 1
  /\ UNCHANGED <<outcome, verdict, events, disk, group>>

\* Mutation of WaitAfterSignal: the ladder ends with SIGTERM.
WaitPolitely ==
  /\ \/ GroupEmpty /\ Goes("waiting", Escalated) /\ UNCHANGED step
     \/ step = 1 /\ Goes("waiting", "signalling") /\ step' = step + 1
     \/ step > 1 /\ Goes("waiting", Escalated) /\ UNCHANGED step
  /\ UNCHANGED <<outcome, verdict, events, disk, group>>

\* waitForEmptyGroup: the group emptied, or the wait ran out and the next
\* step, if there is one, follows.
WaitAfterSignal ==
  /\ \/ GroupEmpty /\ Goes("waiting", Escalated) /\ UNCHANGED step
     \/ step < LastStep /\ Goes("waiting", "signalling") /\ step' = step + 1
     \/ step = LastStep /\ Goes("waiting", Escalated) /\ UNCHANGED step
  /\ UNCHANGED <<outcome, verdict, events, disk, group>>

-----------------------------------------------------------------------------
\* The evidence, each piece within its budget.

\* Mutation of ObserveExit: the exit is awaited without a budget.
ObserveExitForEver ==
  /\ exitSeen
  /\ Goes("observingExit", "observingExec")
  /\ confirmed' = "yes"
  /\ UNCHANGED <<step, outcome, evidence, drained, events, disk, group>>

ObserveExit ==
  /\ Goes("observingExit", "observingExec")
  /\ confirmed' = IF exitSeen THEN "yes" ELSE "unknown"
  /\ UNCHANGED <<step, outcome, evidence, drained, events, disk, group>>

\* The answer settled when the exit was delivered; without one it is unknown.
ObserveExecution ==
  /\ Goes("observingExec", "draining")
  /\ evidence' = IF exitSeen THEN evidence ELSE "unknown"
  /\ UNCHANGED <<step, outcome, confirmed, drained, events, disk, group>>

Drain ==
  /\ Goes("draining", "judging")
  /\ drained' = IF GroupEmpty THEN "yes" ELSE "no"
  /\ UNCHANGED <<step, outcome, confirmed, evidence, events, disk, group>>

\* runnerFailureApplies
RunnerFailureApplies == trigger \notin {"callerCancellation", "processDeadline"}

\* Mutation of Judge: what is found at the end becomes the trigger.
JudgeAfresh ==
  LET failed == drained # "yes" \/ lost IN
  /\ Goes("judging", "concluding")
  /\ trigger' = IF failed THEN "toolFailure" ELSE trigger
  /\ disk' = [disk EXCEPT !.trigger = trigger']
  /\ UNCHANGED <<step, requested, uncertain, verdict, events, group>>

\* A lost channel or a surviving group is a tool failure unless something fixed
\* the outcome before; a surviving group is then signalled once more.
Judge ==
  LET survivors == drained # "yes" /\ RunnerFailureApplies IN
  /\ Goes("judging", IF survivors THEN "signalling" ELSE "concluding")
  /\ step' = IF survivors THEN 1 ELSE step
  /\ IF survivors \/ (lost /\ trigger = "none")
     THEN FixAndPersist("toolFailure")
     ELSE UNCHANGED <<trigger, uncertain, disk>>
  /\ UNCHANGED <<requested, verdict, events, group>>

QuarantineRequired == confirmed # "yes" \/ drained # "yes" \/ uncertain

\* The last advance carries everything that was found.
Conclude ==
  /\ \/ /\ Goes("concluding", "exited")
        /\ disk' = [state |-> "executionCompleted", trigger |-> trigger,
                    execObserved |-> evidence, descendants |-> drained,
                    quarantined |-> QuarantineRequired]
     \/ Throws("concluding", "failed", "executionCompleted")
  /\ UNCHANGED <<step, outcome, verdict, events, group>>

-----------------------------------------------------------------------------
\* What the event loop delivers between two awaits, and what kills it.

\* A cancel frame anywhere but in the race.  It may have waited in the pipe since
\* before a failed write told that the other end is gone.
CancelArrives ==
  /\ ~aborted
  /\ sup \in Awaiting \ {"racing"}
  /\ aborted' = TRUE
  /\ UNCHANGED <<sup, step, outcome, verdict, lost, exitSeen,
                 announcedSeen, disk, group>>

\* The host is gone: the channel ends.
ChannelLost ==
  /\ ~lost
  /\ sup \in Awaiting
  /\ lost' = TRUE
  /\ UNCHANGED <<sup, step, outcome, verdict, aborted, exitSeen,
                 announcedSeen, disk, group>>

AnnouncementSeen ==
  /\ announced /\ ~announcedSeen
  /\ sup \in Awaiting
  /\ announcedSeen' = TRUE
  /\ UNCHANGED <<sup, step, outcome, verdict, aborted, lost, exitSeen,
                 disk, group>>

\* Mutation of ExecEvidence: an announcement that was not delivered was not made.
ExecUnannounced == IF ~announcedSeen \/ status = ExecFailure THEN "no" ELSE "yes"

\* execObserved, as it settles with the exit.
ExecEvidence ==
  IF ~announcedSeen THEN "unknown" ELSE IF status = ExecFailure THEN "no" ELSE "yes"

\* The exit event; in the race it ends the race.
ExitSeen ==
  /\ gate = "gone" /\ ~exitSeen
  /\ sup \in Awaiting
  /\ exitSeen' = TRUE
  /\ evidence' = IF evidence = "unset" THEN ExecEvidence ELSE evidence
  /\ sup' = IF sup = "racing" THEN "observingExit" ELSE sup
  /\ UNCHANGED <<step, outcome, confirmed, drained, aborted, lost,
                 announcedSeen, disk, group>>

Crash ==
  /\ sup \notin Over
  /\ sup' = "crashed"
  /\ UNCHANGED <<step, outcome, verdict, events, disk, group>>

-----------------------------------------------------------------------------
\* The process group (GATE_SCRIPT, then xcodebuild).

PublishIdentity ==
  /\ gate = "starting" /\ gate' = "published"
  /\ UNCHANGED <<announced, status, executed, offspring, killed>>

\* read fails: exit 70.
GateRefused ==
  /\ gate \in {"starting", "published"}
  /\ Refused
  /\ gate' = "gone" /\ status' = "refused"
  /\ UNCHANGED <<announced, executed, offspring, killed>>

AnnounceExec ==
  /\ gate = "released" /\ gate' = "announcing" /\ announced' = TRUE
  /\ UNCHANGED <<status, executed, offspring, killed>>

\* exec succeeds, or fails and sh exits with 126 or 127.
Exec ==
  /\ gate = "announcing"
  /\ \/ gate' = "running" /\ executed' = TRUE /\ UNCHANGED status
     \/ gate' = "gone" /\ status' = ExecFailure /\ UNCHANGED executed
  /\ UNCHANGED <<announced, offspring, killed>>

\* xcodebuild exits, with any status (126 and 127 are xcodebuild's or its
\* wrapper's to choose), or a signal ends the leader, at the gate or past it.
LeaderExits ==
  /\ \/ gate = "running" /\ status' \in {ExecFailure, "other"}
     \/ requested /\ gate \in {"released", "announcing"} /\ status' = "other"
  /\ gate' = "gone"
  /\ UNCHANGED <<announced, executed, offspring, killed>>

\* xcodebuild spawns processes of its own, which may outlive it.
Spawns ==
  /\ gate = "running" /\ ~killed
  /\ offspring' = TRUE
  /\ UNCHANGED <<gate, announced, status, executed, killed>>

OffspringExit ==
  /\ offspring /\ offspring' = FALSE
  /\ UNCHANGED <<gate, announced, status, executed, killed>>

GroupStep ==
  /\ \/ PublishIdentity \/ GateRefused \/ AnnounceExec \/ Exec
     \/ LeaderExits \/ Spawns \/ OffspringExit
  /\ UNCHANGED <<sup, step, outcome, verdict, events, disk>>

-----------------------------------------------------------------------------
SupervisorStep ==
  \/ BecomeReady
  \/ CancelBeforeSpawn
  \/ SpawnGatedChild
  \/ RecordChild
  \/ Abandon
  \/ AuthorizeLaunch
  \/ ReleaseGate
  \/ ConcludeAbandoned
  \/ Interrupt("callerCancellation")
  \/ Interrupt("processDeadline")
  \/ Signal
  \/ SignalUnsafe
  \/ WaitAfterSignal
  \/ ObserveExit
  \/ ObserveExecution
  \/ Drain
  \/ Judge
  \/ Conclude

Next ==
  \/ SupervisorStep
  \/ CancelArrives
  \/ ChannelLost
  \/ AnnouncementSeen
  \/ ExitSeen
  \/ Crash
  \/ GroupStep

Spec == Init /\ [][Next]_vars

\* The supervisor's event loop runs, so every timer it awaits fires; a group
\* that was sent SIGKILL dies, and a gate that was refused exits.
FairSpec ==
  /\ Spec
  /\ WF_vars(SupervisorStep)
  /\ WF_vars(killed /\ GroupStep)
  /\ WF_vars(gate \in {"starting", "published"} /\ Refused /\ GroupStep)

-----------------------------------------------------------------------------
TypeOK ==
  /\ sup \in Awaiting \cup Running \cup Over
  /\ step \in 0..LastStep
  /\ trigger \in Trigger
  /\ requested \in BOOLEAN /\ uncertain \in BOOLEAN
  /\ aborted \in BOOLEAN /\ lost \in BOOLEAN
  /\ exitSeen \in BOOLEAN /\ announcedSeen \in BOOLEAN
  /\ announced \in BOOLEAN /\ executed \in BOOLEAN
  /\ offspring \in BOOLEAN /\ killed \in BOOLEAN
  /\ confirmed \in Fact /\ evidence \in Fact /\ drained \in Fact
  /\ disk \in DiskRecord
  /\ gate \in {"none", "starting", "published", "released", "announcing", "running", "gone"}
  /\ status \in {"none", "refused", ExecFailure, "other"}

\* Nothing is past the gate unless its authorization is on disk, whichever
\* write failed and whenever the supervisor died: recovery can account for it.
ExecOnlyWhenDurable ==
  gate \in {"released", "announcing", "running"} \/ executed =>
    Rank[disk.state] >= Rank.launchAuthorized

\* No signal is sent before the event that called for it is on disk, unless the
\* supervisor knows its durable state to be uncertain.
TriggerBeforeSignal ==
  requested => /\ trigger # "none"
               /\ disk.trigger = trigger \/ uncertain

\* A supervisor that ends in order and leaves no quarantine leaves no process
\* behind, and no doubt about what its record says of the trigger.
UnquarantinedIsGone == sup = "exited" /\ ~disk.quarantined => GroupEmpty /\ ~uncertain

\* A record that says nothing was executed is never overtaken by an exec, and is
\* right unless xcodebuild itself exited with the status sh keeps for its failures.
NoIsWarranted ==
  disk.execObserved = "no" =>
    /\ gate \notin {"released", "announcing", "running"}
    /\ executed => status = ExecFailure

\* The first trigger on record stays: what happens while a run is torn down, a
\* lost channel or a surviving group, never displaces it.
FirstTriggerStays ==
  [][disk.trigger # "none" => disk'.trigger = disk.trigger]_disk

\* A supervisor ends, whatever its child does.
SupervisorEnds == sup = "handshaken" ~> sup \in Over

\* Once cancelled, a run stops executing, if its supervisor does not die: the
\* gate is refused or the group's leader is signalled until it dies.
CancellationStopsTheRun == aborted ~> ~LeaderLives \/ sup = "crashed"

\* What gate.ts says of 126 and 127, "Exit statuses `sh` uses when it could not
\* execute the target at all": "no" is said of what did not.  (The README gives an
\* instance that refutes it.)
NoMeansNotExecuted == disk.execObserved = "no" => ~executed

\* "yes" is said of what did execute.  (The README gives an instance that refutes it.)
YesMeansExecuted == disk.execObserved = "yes" => executed

\* Recovery learns of uncertain durable state.  (The README gives an instance that
\* refutes it.)
UncertaintyIsDurable == sup \in {"exited", "failed"} /\ uncertain => disk.quarantined

=============================================================================
