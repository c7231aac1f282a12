---------------------------- MODULE ToolBoundary ----------------------------
(***************************************************************************)
(* The plugin of one Location: its start within budgets (adapter/startup,  *)
(* setup), whether the Test Tool is available and the one way back when it *)
(* is not (adapter/availability), and its calls of xcode_test with the     *)
(* abort of the caller (adapter/tools), down to the promises startRun of   *)
(* adapter/service settles.  What a run does between admission and result  *)
(* is the business of RunLifecycle and Supervision.                        *)
(*                                                                         *)
(* Budgets are events: an item that runs may finish or be given up at any  *)
(* time.  Everything one macrotask of the event loop does, with the        *)
(* microtasks it leaves, is one action.                                    *)
(***************************************************************************)
EXTENDS Integers, FiniteSets

CONSTANTS Call,       \* calls of xcode_test
          Recoverer,  \* calls of xcode_test_recover
          MaxRounds,  \* bound: revalidations
          Fault       \* faults: see the four places that name one

ASSUME ToolBoundaryAssumption ==
  /\ MaxRounds \in Nat
  /\ Fault \subseteq {"slowLock", "unwritable", "vanished", "unrenderable"}

VARIABLES
  setup,      \* where plugin setup is, and how it ended
  verdict,    \* what the gates of startup decided
  item,       \* per bounded item: what became of it
  live,       \* per probe: its executions that have not ended
  atStartup,  \* per probe: what it found at startup, unknown if not in time
  state,      \* availability
  round,      \* the revalidation in flight, per probe
  rounds,
  recoverer,  \* per recovery: idle, waiting, answered
  call        \* per test call

plugin == <<setup, verdict, item, atStartup>>
recovery == <<state, round, rounds, recoverer>>
vars == <<plugin, live, recovery, call>>

Probe == {"runtime", "toolchain"}
Item == Probe \cup {"hostVersion", "reconciliation", "housekeeping"}
Finding == {"resolved", "transient", "permanent"}
Tool == {"idle", "racing", "waiting", "contained", "answered"}
Service == {"none", "resolving", "reconciled", "queued", "locking", "admitted", "running", "over"}
Answer == {"none", "refused", "summary", "noRun", "cancelledQueued", "cancelledPending",
           "failedWithRun", "failedWithoutRun", "thrown"}
TestCall == [tool : Tool, service : Service, aborted : BOOLEAN, slot : BOOLEAN,
             admitted : {"pending", "resolved", "rejected"}, answer : Answer]

NoCall == [tool |-> "idle", service |-> "none", aborted |-> FALSE, slot |-> FALSE,
           admitted |-> "pending", answer |-> "none"]
NoRound == [p \in Probe |-> "idle"]
InFlight == round # NoRound

Init ==
  /\ setup = "gates" /\ verdict = "none" /\ item = [i \in Item |-> "idle"]
  /\ live = [p \in Probe |-> 0] /\ atStartup = [p \in Probe |-> "unknown"]
  /\ state = "none" /\ round = NoRound /\ rounds = 0 /\ recoverer = [r \in Recoverer |-> "idle"]
  /\ call = [c \in Call |-> NoCall]

-----------------------------------------------------------------------------
(* Startup. *)

\* The gates; housekeeping is not behind them, everything else is.
RunStartup(v) ==
  /\ setup = "gates" /\ setup' = "running" /\ verdict' = v
  /\ item' = [i \in Item |-> IF v = "ready" \/ i = "housekeeping" THEN "running" ELSE "idle"]
  /\ live' = [p \in Probe |-> IF v = "ready" THEN 1 ELSE 0]
  /\ UNCHANGED <<atStartup, recovery, call>>

Finish(i) ==
  /\ item[i] = "running" /\ item' = [item EXCEPT ![i] = "done"]
  /\ IF i \in Probe
     THEN \E f \in Finding : atStartup' = [atStartup EXCEPT ![i] = f] /\ live' = [live EXCEPT ![i] = @ - 1]
     ELSE UNCHANGED <<atStartup, live>>
  /\ UNCHANGED <<setup, verdict, recovery, call>>

\* Mutant: the toolchain probe is not handed the signal either.
StoppedByNobody(p) == live

\* The budget is over, or the item threw: its signal aborts, which kills a
\* toolchain probe; the probe of the runtime takes no signal.
Stopped(p) == IF p = "toolchain" THEN [live EXCEPT ![p] = @ - 1] ELSE live

Abandon(i) ==
  /\ item[i] = "running" /\ item' = [item EXCEPT ![i] = "expired"]
  /\ live' = IF i \in Probe THEN Stopped(i) ELSE live
  /\ UNCHANGED <<setup, verdict, atStartup, recovery, call>>

LeftoverEnds ==
  /\ live["runtime"] > (IF item["runtime"] = "running" \/ round["runtime"] = "running" THEN 1 ELSE 0)
  /\ live' = [live EXCEPT !["runtime"] = @ - 1]
  /\ UNCHANGED <<plugin, recovery, call>>

\* A permanent failure is told before one that may pass.
AvailabilityFor(found) ==
  IF \E p \in Probe : found[p] = "permanent" THEN "permanent"
  ELSE IF \A p \in Probe : found[p] = "resolved" THEN "available" ELSE "transient"

Conclude ==
  /\ setup = "running" /\ \A i \in Item : item[i] # "running"
  /\ setup' = verdict
  /\ state' = IF verdict = "ready" THEN AvailabilityFor(atStartup) ELSE "none"
  /\ UNCHANGED <<verdict, item, atStartup, live, round, rounds, recoverer, call>>

-----------------------------------------------------------------------------
(* Recovery of the tool itself. *)

\* probeAgain: what startup resolved is kept, the rest is probed once more.
StartRound ==
  /\ round' = [p \in Probe |-> IF atStartup[p] = "resolved" THEN "resolved" ELSE "running"]
  /\ live' = [p \in Probe |-> IF atStartup[p] = "resolved" THEN live[p] ELSE live[p] + 1]
  /\ rounds' = rounds + 1

\* Concurrent recoveries share one revalidation.
RecoverProbing(r) ==
  /\ setup = "ready" /\ recoverer[r] # "waiting"
  /\ IF state = "permanent"
     THEN recoverer' = [recoverer EXCEPT ![r] = "answered"] /\ UNCHANGED <<round, live, rounds>>
     ELSE /\ recoverer' = [recoverer EXCEPT ![r] = "waiting"]
          /\ IF InFlight THEN UNCHANGED <<round, live, rounds>> ELSE rounds < MaxRounds /\ StartRound
  /\ UNCHANGED <<plugin, state, call>>

Recover(r) ==
  /\ setup = "ready" /\ recoverer[r] # "waiting"
  /\ IF state # "transient"
     THEN recoverer' = [recoverer EXCEPT ![r] = "answered"] /\ UNCHANGED <<round, live, rounds>>
     ELSE /\ recoverer' = [recoverer EXCEPT ![r] = "waiting"]
          /\ IF InFlight THEN UNCHANGED <<round, live, rounds>> ELSE rounds < MaxRounds /\ StartRound
  /\ UNCHANGED <<plugin, state, call>>

ProbeAnswers(p) ==
  /\ round[p] = "running"
  /\ \E f \in Finding : round' = [round EXCEPT ![p] = f]
  /\ live' = [live EXCEPT ![p] = @ - 1]
  /\ UNCHANGED <<plugin, state, rounds, recoverer, call>>

ProbeAbandoned(p) ==
  /\ round[p] = "running" /\ round' = [round EXCEPT ![p] = "unknown"] /\ live' = Stopped(p)
  /\ UNCHANGED <<plugin, state, rounds, recoverer, call>>

Revalidated ==
  /\ InFlight /\ \A p \in Probe : round[p] # "running"
  /\ state' = AvailabilityFor(round) /\ round' = NoRound
  /\ recoverer' = [r \in Recoverer |-> IF recoverer[r] = "waiting" THEN "answered" ELSE recoverer[r]]
  /\ UNCHANGED <<plugin, live, rounds, call>>

-----------------------------------------------------------------------------
(* One call of xcode_test: the service settles two promises, `admitted` and  *)
(* the result; the tool answers at the first of the result, the abort wait   *)
(* and a failure.                                                            *)

Becomes(c, r) == call' = [call EXCEPT ![c] = r] /\ UNCHANGED <<plugin, live, recovery>>

Start(c) ==
  /\ setup = "ready" /\ call[c] = NoCall
  /\ Becomes(c, IF state = "available" THEN [NoCall EXCEPT !.tool = "racing", !.service = "resolving"]
                ELSE [NoCall EXCEPT !.tool = "answered", !.answer = "refused"])

Abort(c) ==
  /\ call[c].tool = "racing"
  /\ Becomes(c, [call[c] EXCEPT !.aborted = TRUE, !.tool = "waiting"])

\* The result is there: the tool answers with it, unless it answered already.
Result(r, answer) ==
  [r EXCEPT !.service = "over",
     !.tool = IF @ \in {"racing", "waiting"} THEN "answered" ELSE @,
     !.answer = IF r.tool \in {"racing", "waiting"} THEN answer ELSE @]
\* The result, or its rendering, failed: the boundary contains the failure.
Failure(r) ==
  [r EXCEPT !.service = "over", !.tool = IF @ \in {"racing", "waiting"} THEN "contained" ELSE @]

\* Resolution and reconciliation reject the request, throw, or go on.
Resolve(c) ==
  /\ call[c].service = "resolving"
  /\ \E r \in {Result([call[c] EXCEPT !.admitted = "rejected"], "noRun"), Failure(call[c]),
               [call[c] EXCEPT !.service = "reconciled"]} : Becomes(c, r)

\* A result that names no run, from the queue; its rendering is not expected to fail.
NotAdmitted(c) ==
  LET r == [call[c] EXCEPT !.admitted = "rejected"] IN
  {Result(r, "noRun")} \cup {Failure(r) : f \in Fault \cap {"unrenderable"}}

\* admit reads the cancellation when it is entered and before each attempt.
Queue(c) ==
  LET r == call[c] IN
  /\ r.service \in {"reconciled", "queued"}
  /\ \E next \in NotAdmitted(c) \cup (IF r.aborted THEN {} ELSE {[r EXCEPT !.service = "locking"]}) : Becomes(c, next)

\* The root lock is waited for without looking at the cancellation.
Attempt(c) ==
  /\ call[c].service = "locking"
  /\ \E next \in {[call[c] EXCEPT !.service = "queued"], [call[c] EXCEPT !.service = "admitted", !.slot = TRUE]} :
       Becomes(c, next)

\* After admission the record is read back and written; then it is announced.
Announce(c) ==
  LET r == call[c] IN
  /\ r.service = "admitted"
  /\ \E next \in {[r EXCEPT !.service = "running", !.admitted = "resolved"]}
              \cup {Failure(r) : f \in Fault \cap {"unwritable"}}
              \cup {Result([r EXCEPT !.admitted = "rejected"], "noRun") : f \in Fault \cap {"vanished"}} : Becomes(c, next)

\* The run's summary, or an exception of its supervision, interpretation or rendering.
RunEnds(c) ==
  /\ call[c].service = "running"
  /\ \E r \in {Result(call[c], "summary"), Failure(call[c])} : Becomes(c, r)

\* The abort wait is over and there is no result.  Between admission and its
\* announcement no timer fires; a lock is waited for less long, but for a fault.
Patient(c) == call[c].service = "admitted" \/ (call[c].service = "locking" /\ "slowLock" \notin Fault)

WaitExpiresUnread(c) ==
  /\ call[c].tool = "waiting" /\ ~Patient(c)
  /\ Becomes(c, [call[c] EXCEPT !.tool = "answered", !.answer = "cancelledQueued"])
WaitExpiresAdmitted(c) ==
  /\ call[c].tool = "waiting" /\ call[c].admitted = "resolved"
  /\ Becomes(c, [call[c] EXCEPT !.tool = "answered", !.answer = "cancelledPending"])

WaitExpires(c) ==
  /\ call[c].tool = "waiting" /\ ~Patient(c)
  /\ Becomes(c, [call[c] EXCEPT !.tool = "answered",
       !.answer = IF call[c].admitted = "resolved" THEN "cancelledPending" ELSE "cancelledQueued"])

\* containedFailure asks whether a run was admitted; asking a promise that was
\* rejected throws.
Contain(c) ==
  /\ call[c].tool = "contained"
  /\ Becomes(c, [call[c] EXCEPT !.tool = "answered",
       !.answer = CASE call[c].admitted = "resolved" -> "failedWithRun"
                    [] call[c].admitted = "pending"  -> "failedWithoutRun"
                    [] call[c].admitted = "rejected" -> "thrown"])

-----------------------------------------------------------------------------
StartupStep ==
  \/ \E v \in {"disabled", "structuralFailure", "ready"} : RunStartup(v)
  \/ \E i \in Item : Finish(i) \/ Abandon(i)
  \/ Conclude \/ LeftoverEnds
RecoveryStep ==
  (\E r \in Recoverer : Recover(r)) \/ (\E p \in Probe : ProbeAnswers(p) \/ ProbeAbandoned(p)) \/ Revalidated
ServiceStep(c) == Resolve(c) \/ Queue(c) \/ Attempt(c) \/ Announce(c) \/ RunEnds(c)
CallStep(c) == Start(c) \/ Abort(c) \/ WaitExpires(c) \/ Contain(c) \/ ServiceStep(c)

Next == StartupStep \/ RecoveryStep \/ \E c \in Call : CallStep(c)

Spec == Init /\ [][Next]_vars

\* Timers fire and the root lock is given in time; nothing else is promised:
\* not that a probe answers, a request resolves or a run ends.
FairSpec ==
  /\ Spec
  /\ \A i \in Item : WF_vars(Finish(i) \/ Abandon(i))
  /\ WF_vars(Conclude) /\ \A p \in Probe : WF_vars(ProbeAnswers(p) \/ ProbeAbandoned(p))
  /\ WF_vars(Revalidated)
  /\ \A c \in Call : WF_vars(WaitExpires(c)) /\ WF_vars(Contain(c)) /\ WF_vars(Attempt(c)) /\ WF_vars(Announce(c))

-----------------------------------------------------------------------------
\* Every variable has its type; of the toolchain, one probe runs at a time.
TypeOK ==
  /\ setup \in {"gates", "running", "disabled", "structuralFailure", "ready"}
  /\ verdict \in {"none", "disabled", "structuralFailure", "ready"}
  /\ item \in [Item -> {"idle", "running", "done", "expired"}]
  /\ live \in [Probe -> 0 .. MaxRounds + 1] /\ live["toolchain"] \in {0, 1} /\ atStartup \in [Probe -> Finding \cup {"unknown"}]
  /\ state \in {"none", "available", "transient", "permanent"} /\ rounds \in 0 .. MaxRounds
  /\ round \in [Probe -> Finding \cup {"idle", "running", "unknown"}]
  /\ recoverer \in [Recoverer -> {"idle", "waiting", "answered"}] /\ call \in [Call -> TestCall]

\* An answer that names no run belongs to a call that has no run and will
\* never have one, however abort, admission and result interleave: tools.ts
\* runTest and containedFailure.
AnswerNamesItsRun ==
  \A c \in Call : call[c].answer \in {"noRun", "cancelledQueued", "failedWithoutRun", "thrown"} => ~call[c].slot

\* A tool that became available stays so, whichever recoveries are in flight
\* and whatever their probes find: availability.ts revalidatingService.
AvailableStays ==
  [][state = "available" => state' = "available"]_vars

\* An aborted call is answered even if its run never ends and its request is
\* never resolved: tools.ts waitFor.
AbortIsAnswered ==
  \A c \in Call : (call[c].aborted /\ call[c].tool # "answered") ~> (call[c].tool = "answered")

\* A failure of the tool's own is contained, never thrown: tools.ts:197.
\* Refuted with "unrenderable": the admission that was rejected is awaited.
NeverThrows ==
  \A c \in Call : call[c].answer # "thrown"

\* When setup returns, no probe is left running: startup.ts:26-31.  Refuted
\* by the probe of the runtime.
NothingLeftRunning ==
  setup \in {"disabled", "structuralFailure", "ready"} /\ ~InFlight => \A p \in Probe : live[p] = 0

=============================================================================
