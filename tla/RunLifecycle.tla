----------------------------- MODULE RunLifecycle -----------------------------
(***************************************************************************)
(* The life of a Test Run across the processes that share one storage      *)
(* scope: the calls that drive it (adapter/service.ts), the reconciliation *)
(* passes that finish what a crash left (runner/recovery.ts), the detached *)
(* supervisor of each run (runner/supervisor.ts, supervisor-entry.ts) and  *)
(* the process group in which xcodebuild runs (runner/gate.ts).            *)
(*                                                                         *)
(* They share the queue file's execution slot and quarantine, and one      *)
(* durable record per run.  The queue file changes under the root lock;    *)
(* the records are written without it, each writer replacing the whole     *)
(* record by the copy it read earlier with its own fields changed.         *)
(*                                                                         *)
(* Who waits before whom is AdmissionQueue's subject: here a call is       *)
(* admitted or not.  How supervision reaches its verdict is Supervision's  *)
(* subject: here a supervisor watches until it concludes.                  *)
(***************************************************************************)
EXTENDS Naturals, FiniteSets

CONSTANTS
  Host,     \* OpenCode processes; a restarted one is another element
  Mortal,   \* those that may crash
  NoHost,   \* the owner of a record that does not exist
  Task,     \* the calls in progress: a Test Run, or a recovery
  process,  \* the process each call runs in
  Run,      \* run ids
  NoRun,    \* the absent activeRunId, and the absent quarantine
  Unconfirmed, \* the runs whose end may go unconfirmed past its budgets
  Faults    \* the faults beyond plain crashes an instance includes

FaultNames == {"spawnWindow", "supervisorLost", "readyUnread", "prepareCrash",
               "publishFails"}

ASSUME ConstantsAssumption ==
  /\ Mortal \subseteq Host
  /\ NoHost \notin Host
  /\ process \in [Task -> Host]
  /\ NoRun \notin Run
  /\ Unconfirmed \subseteq Run
  /\ Faults \subseteq FaultNames

VARIABLES
  active, quarantine,      \* the queue file
  record,                  \* metadata.json of each run
  alive,                   \* the OpenCode processes that run
  pc, mine, todo, copy,    \* each call: its run, the runs it adopted, its record
  supervisor, held,        \* each run's supervisor, and the record it holds
  leader, offspring        \* each run's process group: its leader, the others

slot == <<active, quarantine>>
calls == <<pc, mine, todo, copy>>
supervisors == <<supervisor, held>>
groups == <<leader, offspring>>
vars == <<active, quarantine, record, alive, pc, mine, todo, copy, supervisor, held,
          leader, offspring>>

Pc == {"idle", "reconciled", "admitted", "supervising", "killing", "publishing",
       "adopting", "releasing", "dead"}

\* RUN_STATES in order, below them a directory without a readable record and a
\* run that was never prepared.
Rank == [none |-> 0, unreadable |-> 1, admitted |-> 2, supervisorReady |-> 3,
         childRecorded |-> 4, launchAuthorized |-> 5, executionCompleted |-> 6,
         completed |-> 7]

Evidence == {"unset", "yes", "no"}

Record == [state : DOMAIN Rank, owner : Host \cup {NoHost}, supervisor : BOOLEAN,
           child : BOOLEAN, descendantsGone : Evidence, quarantined : BOOLEAN]

NoRecord == [state |-> "none", owner |-> NoHost, supervisor |-> FALSE, child |-> FALSE,
             descendantsGone |-> "unset", quarantined |-> FALSE]

\* A supervisor that may still launch, one that has launched, and one that is no more.
Launching == {"starting", "handshaken", "ready", "gated", "recorded"}
Launched == {"authorizing", "watching"}
Gone == {"none", "exited", "crashed"}
SupervisorPc == Launching \cup Launched \cup Gone \cup {"abandoning", "killed"}

Readable(r) == Rank[record[r].state] >= Rank.admitted
Unfinished(r) == Readable(r) /\ record[r].state # "completed"
Finished(r) == record[r].state = "completed"

\* Something of run r's group is executing the tests: xcodebuild or what it spawned.
Executing(r) == leader[r] = "running" \/ offspring[r]

-----------------------------------------------------------------------------
\* What a probe of the process table tells about a record.

LeaderLives(r) == record[r].child /\ leader[r] \in {"gated", "running"}
SupervisorLives(r) == record[r].supervisor /\ supervisor[r] \notin Gone

\* stillAttributable: may anything of this completed run be running?
StillAttributable(r) ==
  \/ LeaderLives(r)
  \/ SupervisorLives(r)
  \/ record[r].child /\ record[r].descendantsGone # "yes" /\ offspring[r]

\* Mutation of Busy: the owner a record names is taken to be alive.
BusyOwned(r) ==
  \/ record[r].owner # NoHost
  \/ LeaderLives(r) \/ SupervisorLives(r)

\* classify: a live owner, child or supervisor keeps a run busy.  Any other run
\* is finalizable: a recorded leader that lives is in its own group, so the
\* code's third answer, uncertain, is left to unreadable records.
Busy(r) ==
  \/ record[r].owner \in alive
  \/ /\ ~(record[r].state = "admitted" /\ ~record[r].supervisor)
     /\ LeaderLives(r) \/ SupervisorLives(r)

-----------------------------------------------------------------------------
Init ==
  /\ active = NoRun
  /\ quarantine = NoRun
  /\ record = [r \in Run |-> NoRecord]
  /\ alive = Host
  /\ pc = [t \in Task |-> "idle"]
  /\ mine = [t \in Task |-> NoRun]
  /\ todo = [t \in Task |-> {}]
  /\ copy = [t \in Task |-> NoRecord]
  /\ supervisor = [r \in Run |-> "none"]
  /\ held = [r \in Run |-> NoRecord]
  /\ leader = [r \in Run |-> "none"]
  /\ offspring = [r \in Run |-> FALSE]

Moves(t, from, to) == pc[t] = from /\ pc' = [pc EXCEPT ![t] = to]

\* Write run r's record, whole.
Write(r, new) == record' = [record EXCEPT ![r] = new]

-----------------------------------------------------------------------------
\* One reconciliation pass (reconcileLocked), by a call that adopts what it can
\* finish (`claiming`) or by startup and housekeeping, which adopt nothing.

Finalizable == {r \in Run : Unfinished(r) /\ ~Busy(r)}
Uncertain == {r \in Run : record[r].state = "unreadable"}
Quarantining == {r \in Run : /\ Finished(r) /\ record[r].quarantined
                             /\ quarantine = NoRun /\ StillAttributable(r)}

\* Mutation of CanClear: a quarantined run goes on holding the root.
CanClearUnflagged(r) == Finished(r) /\ ~record[r].quarantined

\* canClearQuarantine
CanClear(r) == (Finished(r) /\ ~StillAttributable(r)) \/ record[r].state = "none"

\* Mutation of KeepBooks: the slot of an adopted run goes back with its adoption.
KeepBooksEager ==
  LET stale == active # NoRun /\ (active \in Finalizable \/ Finished(active))
      holding == IF Uncertain # {} THEN Uncertain ELSE Quarantining
  IN IF holding # {}
     THEN active' = NoRun /\ quarantine' \in holding
     ELSE /\ active' = IF stale THEN NoRun ELSE active
          /\ quarantine' = IF /\ quarantine # NoRun /\ Finalizable = {}
                              /\ CanClear(quarantine)
                           THEN NoRun ELSE quarantine

\* The slot bookkeeping that ends the pass.
KeepBooks ==
  LET stale == /\ active \notin Finalizable \cup Uncertain \cup {NoRun}
               /\ record[active].state \in {"none", "completed"}
      holding == IF Uncertain # {} THEN Uncertain ELSE Quarantining
  IN IF holding # {}
     THEN active' = NoRun /\ quarantine' \in holding
     ELSE /\ active' = IF stale THEN NoRun ELSE active
          /\ quarantine' = IF /\ quarantine # NoRun /\ Finalizable = {}
                              /\ CanClear(quarantine)
                           THEN NoRun ELSE quarantine

\* Mutation of Reconcile: adopted runs are not claimed before the lock goes.
ReconcileUnclaimed(t) ==
  /\ Moves(t, "idle", "reconciled")
  /\ todo' = [todo EXCEPT ![t] = Finalizable]
  /\ KeepBooks
  /\ UNCHANGED <<record, alive, mine, copy, supervisors, groups>>

\* reconcile, by a call: each finalizable run is claimed for this process.
Reconcile(t) ==
  /\ Moves(t, "idle", "reconciled")
  /\ todo' = [todo EXCEPT ![t] = Finalizable]
  /\ record' = [r \in Run |-> IF r \in Finalizable
                              THEN [record[r] EXCEPT !.owner = process[t]]
                              ELSE record[r]]
  /\ KeepBooks
  /\ UNCHANGED <<alive, mine, copy, supervisors, groups>>

\* The root lock is held by another process: the pass is deferred, the call goes on.
Defer(t) ==
  /\ \E h \in alive : h # process[t]
  /\ Moves(t, "idle", "reconciled")
  /\ UNCHANGED <<slot, record, alive, mine, todo, copy, supervisors, groups>>

\* The pass of startup or housekeeping, in some live process.  One that its
\* deadline cuts short returns before it writes, and is no step.
Glance ==
  /\ alive # {}
  /\ KeepBooks
  /\ UNCHANGED <<record, alive, calls, supervisors, groups>>

-----------------------------------------------------------------------------
\* finalizeRecovered: the call finishes the runs it adopted, one by one.

\* A run that never reached launch is quarantined if its gated child lives; one
\* that did is advanced to executionCompleted.  Then the call interprets.
Adopted(r) ==
  IF Rank[record[r].state] < Rank.launchAuthorized
  THEN [record[r] EXCEPT !.quarantined = @ \/ LeaderLives(r)]
  ELSE [record[r] EXCEPT !.state = IF Finished(r) THEN @ ELSE "executionCompleted"]

Adopt(t, r) ==
  /\ r \in todo[t]
  /\ Moves(t, "reconciled", "adopting")
  /\ todo' = [todo EXCEPT ![t] = @ \ {r}]
  /\ mine' = [mine EXCEPT ![t] = r]
  /\ Write(r, Adopted(r))
  /\ copy' = [copy EXCEPT ![t] = Adopted(r)]
  /\ UNCHANGED <<slot, alive, supervisors, groups>>

\* The recovery is over, or the call gives up, is refused or is cancelled.
Finish(t) ==
  /\ todo[t] = {}
  /\ Moves(t, "reconciled", "idle")
  /\ UNCHANGED <<slot, record, alive, mine, todo, copy, supervisors, groups>>

-----------------------------------------------------------------------------
\* A call drives its own run.

\* Mutation of Admit: a standing quarantine is not looked at.
AdmitQuarantined(t, r) ==
  /\ active = NoRun
  /\ record[r].state = "none"
  /\ todo[t] = {}
  /\ Moves(t, "reconciled", "admitted")
  /\ mine' = [mine EXCEPT ![t] = r]
  /\ Write(r, [NoRecord EXCEPT !.state = "admitted", !.owner = process[t]])
  /\ active' = r
  /\ UNCHANGED <<quarantine, alive, todo, copy, supervisors, groups>>

\* admit: the record is created, then the slot transfers, under one lock.
Admit(t, r) ==
  /\ slot = <<NoRun, NoRun>>
  /\ record[r].state = "none"
  /\ todo[t] = {}
  /\ Moves(t, "reconciled", "admitted")
  /\ mine' = [mine EXCEPT ![t] = r]
  /\ Write(r, [NoRecord EXCEPT !.state = "admitted", !.owner = process[t]])
  /\ active' = r
  /\ UNCHANGED <<quarantine, alive, todo, copy, supervisors, groups>>

\* The window between spawning a supervisor and its identity being durable.
InSpawnWindow(h) ==
  \E t \in Task : /\ process[t] = h
                  /\ pc[t] \in {"supervising", "killing"}
                  /\ ~record[mine[t]].supervisor
                  /\ supervisor[mine[t]] \notin Gone

\* Process h is gone, and with it what its calls remembered.
Dies(h) ==
  LET keeps(f, lost) == [t \in Task |-> IF process[t] = h THEN lost ELSE f[t]]
  IN /\ h \in Mortal \cap alive
     /\ "spawnWindow" \in Faults \/ ~InSpawnWindow(h)
     /\ alive' = alive \ {h}
     /\ pc' = keeps(pc, "dead")
     /\ mine' = keeps(mine, NoRun)
     /\ todo' = keeps(todo, {})
     /\ copy' = keeps(copy, NoRecord)

\* Fault: the process dies between creating the directory and its record.
PrepareCrash(t, r) ==
  /\ "prepareCrash" \in Faults
  /\ slot = <<NoRun, NoRun>>
  /\ pc[t] = "reconciled" /\ todo[t] = {}
  /\ record[r].state = "none"
  /\ Write(r, [NoRecord EXCEPT !.state = "unreadable"])
  /\ Dies(process[t])
  /\ UNCHANGED <<slot, supervisors, groups>>

\* runSupervisor: spawn it and write hello into its pipe.
SpawnSupervisor(t) ==
  /\ Moves(t, "admitted", "supervising")
  /\ supervisor' = [supervisor EXCEPT ![mine[t]] = "starting"]
  /\ UNCHANGED <<slot, record, alive, mine, todo, copy, held, groups>>

\* The record a call publishes from, read when supervision is over.
Reread(t) == copy' = [copy EXCEPT ![t] = record[mine[t]]]

\* The supervisor could not be started, or it exited: with status 0 the result
\* is interpreted, otherwise a runner failure is reported.
EndSupervision(t) ==
  /\ \/ Moves(t, "admitted", "publishing")
     \/ /\ pc[t] \in {"supervising", "killing"}
        /\ supervisor[mine[t]] \in {"exited", "crashed"}
        /\ pc' = [pc EXCEPT ![t] = "publishing"]
  /\ Reread(t)
  /\ UNCHANGED <<slot, record, alive, mine, todo, supervisors, groups>>

\* The handshake deadline passes with no `ready` read: the supervisor is killed.
HandshakeDeadline(t) ==
  /\ Moves(t, "supervising", "killing")
  /\ supervisor[mine[t]] \in Launching \cup (IF "readyUnread" \in Faults THEN Launched ELSE {})
  /\ supervisor' = [supervisor EXCEPT ![mine[t]] = "killed"]
  /\ held' = [held EXCEPT ![mine[t]] = NoRecord]
  /\ UNCHANGED <<slot, record, alive, mine, todo, copy, groups>>

\* unhandshaken: the killed supervisor's exit was not seen and it still answers.
HoldUnhandshaken(t) ==
  LET r == mine[t]
      holding == [record[r] EXCEPT !.quarantined = TRUE, !.supervisor = TRUE]
  IN /\ Moves(t, "killing", "publishing")
     /\ supervisor[r] = "killed" /\ r \in Unconfirmed
     /\ Write(r, holding)
     /\ copy' = [copy EXCEPT ![t] = holding]
     /\ UNCHANGED <<slot, alive, mine, todo, supervisors, groups>>

\* Mutation of Publish: the record is built from what was written at admission.
PublishStale(t) ==
  /\ pc[t] \in {"publishing", "adopting"}
  /\ copy[t].state # "completed"
  /\ Write(mine[t], [copy[t] EXCEPT !.state = "completed", !.quarantined = FALSE])
  /\ pc' = [pc EXCEPT ![t] = "releasing"]
  /\ copy' = [copy EXCEPT ![t] = NoRecord]
  /\ UNCHANGED <<slot, alive, mine, todo, supervisors, groups>>

\* publishTerminal: index, summary, then `completed` from the call's own copy.
Publish(t) ==
  /\ pc[t] \in {"publishing", "adopting"}
  /\ copy[t].state # "completed"
  /\ Write(mine[t], [copy[t] EXCEPT !.state = "completed"])
  /\ pc' = [pc EXCEPT ![t] = "releasing"]
  /\ copy' = [copy EXCEPT ![t] = NoRecord]
  /\ UNCHANGED <<slot, alive, mine, todo, supervisors, groups>>

\* Publishing throws: a fault (the volume is full, the interpreter fails), or a
\* copy that is completed already.  A run's own call still releases ownership;
\* a recovery ends with the exception, what it adopted unfinished.
PublishFails(t) ==
  /\ "publishFails" \in Faults \/ copy[t].state = "completed"
  /\ \/ /\ Moves(t, "publishing", "releasing")
        /\ UNCHANGED <<mine, todo>>
     \/ /\ Moves(t, "adopting", "idle")
        /\ mine' = [mine EXCEPT ![t] = NoRun]
        /\ todo' = [todo EXCEPT ![t] = {}]
  /\ copy' = [copy EXCEPT ![t] = NoRecord]
  /\ UNCHANGED <<slot, record, alive, supervisors, groups>>

\* Mutation of Release: the record's own quarantine is not published.
ReleaseUnconditionally(t) ==
  /\ Moves(t, "releasing", "reconciled")
  /\ active' = IF active = mine[t] THEN NoRun ELSE active
  /\ mine' = [mine EXCEPT ![t] = NoRun]
  /\ UNCHANGED <<quarantine, record, alive, todo, copy, supervisors, groups>>

\* Mutation of Release: the call does not let go of its run.
ReleaseKeeping(t) ==
  /\ Moves(t, "releasing", "reconciled")
  /\ active' = IF active = mine[t] THEN NoRun ELSE active
  /\ quarantine' = IF record[mine[t]].quarantined /\ quarantine = NoRun THEN mine[t]
                   ELSE quarantine
  /\ UNCHANGED <<record, alive, mine, todo, copy, supervisors, groups>>

\* releaseOwnership: give the slot back, or hold the root quarantined unless
\* another run's quarantine stands.  A recovery then turns to its next run.
Release(t) ==
  LET r == mine[t] IN
  /\ Moves(t, "releasing", "reconciled")
  /\ active' = IF active = r THEN NoRun ELSE active
  /\ quarantine' = IF record[r].quarantined /\ quarantine = NoRun THEN r ELSE quarantine
  /\ mine' = [mine EXCEPT ![t] = NoRun]
  /\ UNCHANGED <<record, alive, todo, copy, supervisors, groups>>

-----------------------------------------------------------------------------
\* The supervisor of run r.  Each write replaces the record by its own copy.

\* Supervisor r leaves state `from` for `to`, writing nothing.
Steps(r, from, to) ==
  /\ supervisor[r] = from
  /\ supervisor' = [supervisor EXCEPT ![r] = to]
  /\ UNCHANGED <<slot, record, alive, calls>>

\* Supervisor r writes `new` and leaves `from` for `to`.
Advances(r, from, to, new) ==
  /\ supervisor[r] = from
  /\ supervisor' = [supervisor EXCEPT ![r] = to]
  /\ Write(r, new)
  /\ held' = [held EXCEPT ![r] = IF to \in Gone THEN NoRecord ELSE new]
  /\ UNCHANGED <<slot, alive, calls>>

\* main: hello arrives, the record is read, `ready` is sent.
ReadHello(r) ==
  /\ Steps(r, "starting", "handshaken")
  /\ held' = [held EXCEPT ![r] = record[r]]
  /\ UNCHANGED groups

\* superviseRun: the identity is recorded before anything is spawned.
BecomeReady(r) ==
  /\ held[r].state = "admitted"
  /\ Advances(r, "handshaken", "ready",
              [held[r] EXCEPT !.state = "supervisorReady", !.supervisor = TRUE])
  /\ UNCHANGED groups

\* Cancelled before anything was spawned.
CancelBeforeSpawn(r) ==
  /\ Steps(r, "ready", "exited")
  /\ held' = [held EXCEPT ![r] = NoRecord]
  /\ UNCHANGED groups

SpawnGatedChild(r) ==
  /\ Steps(r, "ready", "gated")
  /\ leader' = [leader EXCEPT ![r] = "gated"]
  /\ UNCHANGED <<held, offspring>>

RecordChild(r) ==
  /\ leader[r] = "gated"
  /\ Advances(r, "gated", "recorded",
              [held[r] EXCEPT !.state = "childRecorded", !.child = TRUE])
  /\ UNCHANGED groups

\* The child published nothing usable, the caller cancelled, or authorization
\* could not be persisted: the gate is refused.
Abandon(r) ==
  /\ \/ Steps(r, "gated", "abandoning")
     \/ Steps(r, "recorded", "abandoning")
  /\ UNCHANGED <<held, groups>>

\* An exit that was seen leaves the record as it is; one that was not seen
\* within the evidence budget quarantines the run.
ConcludeAbandoned(r) ==
  /\ \/ /\ leader[r] = "gone"
        /\ Steps(r, "abandoning", "exited")
        /\ held' = [held EXCEPT ![r] = NoRecord]
     \/ /\ leader[r] # "gone" /\ r \in Unconfirmed
        /\ Advances(r, "abandoning", "exited",
                    [held[r] EXCEPT !.state = "executionCompleted",
                                    !.descendantsGone = "no", !.quarantined = TRUE])
  /\ UNCHANGED groups

\* Mutation of AuthorizeLaunch: the gate is released before the write.
AuthorizeUnrecorded(r) ==
  /\ leader[r] = "gated"
  /\ Steps(r, "recorded", "authorizing")
  /\ leader' = [leader EXCEPT ![r] = "running"]
  /\ UNCHANGED <<held, offspring>>

AuthorizeLaunch(r) ==
  /\ Advances(r, "recorded", "authorizing", [held[r] EXCEPT !.state = "launchAuthorized"])
  /\ UNCHANGED groups

\* authorize: GO is written, and a child still at the gate becomes xcodebuild.
ReleaseGate(r) ==
  /\ Steps(r, "authorizing", "watching")
  /\ leader' = [leader EXCEPT ![r] = IF @ = "gated" THEN "running" ELSE @]
  /\ UNCHANGED <<held, offspring>>

\* Mutation of Conclude: the leader's exit alone confirms the lifecycle.
ConcludeOnExit(r) ==
  LET confirmed == leader[r] = "gone" IN
  /\ confirmed \/ r \in Unconfirmed
  /\ Advances(r, "watching", "exited",
              [held[r] EXCEPT !.state = "executionCompleted",
                              !.descendantsGone = IF confirmed THEN "yes" ELSE "no",
                              !.quarantined = ~confirmed])
  /\ UNCHANGED groups

\* The run exited, or was cancelled or timed out and terminated, or the signals
\* did not end it: the supervisor records what it could confirm of the group,
\* and quarantines a run it could not confirm (or whose trigger it could not
\* persist, `doubt`).
Conclude(r) ==
  \E doubt \in BOOLEAN :
    LET empty == ~Executing(r) IN
    /\ (empty /\ ~doubt) \/ r \in Unconfirmed
    /\ Advances(r, "watching", "exited",
                [held[r] EXCEPT !.state = "executionCompleted",
                                !.descendantsGone = IF empty THEN "yes" ELSE "no",
                                !.quarantined = doubt \/ ~empty])
    /\ UNCHANGED groups

\* A supervisor dies: killed, crashed, refused a write, or (advance) finding
\* that its run has moved on without it.
SupervisorDies(r) ==
  /\ \/ \E s \in Launching : Steps(r, s, "crashed")
     \/ Steps(r, "abandoning", "crashed")
     \/ Steps(r, "killed", "crashed")
     \/ "supervisorLost" \in Faults /\ \E s \in Launched : Steps(r, s, "crashed")
  /\ held' = [held EXCEPT ![r] = NoRecord]
  /\ UNCHANGED groups

-----------------------------------------------------------------------------
\* The process group of run r.

\* Nobody will authorize the child any more: its read fails and it exits.
GateCloses(r) ==
  /\ leader[r] = "gated"
  /\ supervisor[r] \in {"abandoning", "exited", "crashed"}
  /\ leader' = [leader EXCEPT ![r] = "gone"]
  /\ UNCHANGED <<slot, record, alive, calls, supervisors, offspring>>

LeaderSpawns(r) ==
  /\ leader[r] = "running"
  /\ offspring' = [offspring EXCEPT ![r] = TRUE]
  /\ UNCHANGED <<slot, record, alive, calls, supervisors, leader>>

LeaderExits(r) ==
  /\ leader[r] = "running"
  /\ leader' = [leader EXCEPT ![r] = "gone"]
  /\ UNCHANGED <<slot, record, alive, calls, supervisors, offspring>>

OffspringExit(r) ==
  /\ offspring[r]
  /\ offspring' = [offspring EXCEPT ![r] = FALSE]
  /\ UNCHANGED <<slot, record, alive, calls, supervisors, leader>>

-----------------------------------------------------------------------------
Crash(h) ==
  /\ Dies(h)
  /\ UNCHANGED <<slot, record, supervisors, groups>>

CallStep(t) ==
  \/ Reconcile(t)
  \/ Defer(t)
  \/ \E r \in Run : Adopt(t, r)
  \/ Finish(t)
  \/ \E r \in Run : Admit(t, r)
  \/ SpawnSupervisor(t)
  \/ EndSupervision(t)
  \/ HandshakeDeadline(t)
  \/ HoldUnhandshaken(t)
  \/ Publish(t)
  \/ PublishFails(t)
  \/ Release(t)

SupervisorStep(r) ==
  \/ ReadHello(r)
  \/ BecomeReady(r)
  \/ CancelBeforeSpawn(r)
  \/ SpawnGatedChild(r)
  \/ RecordChild(r)
  \/ Abandon(r)
  \/ ConcludeAbandoned(r)
  \/ AuthorizeLaunch(r)
  \/ ReleaseGate(r)
  \/ Conclude(r)
  \/ SupervisorDies(r)

GroupStep(r) ==
  \/ GateCloses(r)
  \/ LeaderSpawns(r)
  \/ LeaderExits(r)
  \/ OffspringExit(r)

Next ==
  \/ \E t \in Task : CallStep(t)
  \/ \E t \in Task, r \in Run : PrepareCrash(t, r)
  \/ \E r \in Run : SupervisorStep(r) \/ GroupStep(r)
  \/ Glance
  \/ \E h \in Host : Crash(h)

Spec == Init /\ [][Next]_vars

\* Every process that lives keeps running, and everything it waits for is
\* bounded: the handshake, evidence and run deadlines, the escalation to SIGKILL.
\* What xcodebuild leaves behind ends at last.  Calls keep being made in the
\* processes that do not crash, and a lock that is tried again and again is
\* found free at last, so not every pass is deferred.
FairSpec ==
  /\ Spec
  /\ \A t \in Task : /\ WF_vars(CallStep(t))
                      /\ SF_vars(Reconcile(t))
  /\ \A r \in Run : /\ WF_vars(SupervisorStep(r))
                     /\ WF_vars(GateCloses(r))
                     /\ WF_vars(LeaderExits(r))
                     /\ WF_vars(OffspringExit(r))

-----------------------------------------------------------------------------
TypeOK ==
  /\ active \in Run \cup {NoRun}
  /\ quarantine \in Run \cup {NoRun}
  /\ record \in [Run -> Record]
  /\ alive \subseteq Host
  /\ pc \in [Task -> Pc]
  /\ mine \in [Task -> Run \cup {NoRun}]
  /\ todo \in [Task -> SUBSET Run]
  /\ copy \in [Task -> Record]
  /\ supervisor \in [Run -> SupervisorPc]
  /\ held \in [Run -> Record]
  /\ leader \in [Run -> {"none", "gated", "running", "gone"}]
  /\ offspring \in [Run -> BOOLEAN]
  /\ \A t \in Task : mine[t] = NoRun <=> pc[t] \in {"idle", "reconciled", "dead"}

\* Test Runs are serialized across processes: no two process groups ever
\* execute at once, whatever crashes.
OneAtATime == \A r, q \in Run : Executing(r) /\ Executing(q) => r = q

\* While anything of a run executes, the run holds the slot or holds the root
\* quarantined: no release, by its owner or by a recovery, comes too early.
SlotCoversExecution == \A r \in Run : Executing(r) => r \in {active, quarantine}

\* What executes can be accounted for after any crash: its authorization, its
\* supervisor and its child are in the record, whoever wrote it last.
LaunchIsRecorded ==
  \A r \in Run : leader[r] = "running" =>
    /\ Rank[record[r].state] >= Rank.launchAuthorized
    /\ record[r].supervisor /\ record[r].child

\* A run is completed with something of it executing only if it is quarantined.
CompletedIsAccounted ==
  \A r \in Run : Finished(r) /\ Executing(r) => record[r].quarantined

\* A run keeps the slot until its terminal evidence is published.
UnfinishedHoldsSlot == \A r \in Run : Unfinished(r) => active = r

\* A run that a recovery finishes is over, or quarantined: with the recorded
\* processes gone, what they left behind is not taken to be gone too.  (The
\* README gives an instance that refutes it.)
AdoptedIsAccounted ==
  \A t \in Task : pc[t] = "adopting" /\ Executing(mine[t]) => record[mine[t]].quarantined

\* No two calls drive or finalize one run.
OneFinalizer ==
  \A t, u \in Task : mine[t] = mine[u] /\ mine[t] # NoRun => t = u

\* A root that is quarantined never also looks busy.  (The README gives an instance
\* that refutes it.)
QuarantinedNotBusy == quarantine = NoRun \/ active = NoRun

\* A record only moves forward, and no writer's older copy undoes what another
\* recorded: a process identity, a quarantine, a completion.
RecordsOnlyGrow ==
  [][\A r \in Run :
       /\ Rank[record'[r].state] >= Rank[record[r].state]
       /\ record[r].supervisor => record'[r].supervisor
       /\ record[r].child => record'[r].child
       /\ record[r].quarantined => record'[r].quarantined
       /\ Finished(r) => record'[r] = record[r]]_record

\* Slot, quarantine, crashes and recoveries keep the promise of ExecutionSlot.
Slot == INSTANCE ExecutionSlot WITH executing <- {r \in Run : Executing(r)}

ImplementsExecutionSlot == Slot!Spec

\* No crash leaves the root unusable: a run gives up the slot, and a quarantine
\* is lifted, as long as calls keep being made.
SlotComesBack == \A r \in Run : active = r ~> active # r
QuarantineLifts == \A r \in Run : quarantine = r ~> quarantine # r

=============================================================================
