---------------------------- MODULE AdmissionQueue ----------------------------
(***************************************************************************)
(* The durable cross-process admission queue of one storage scope          *)
(* (runner/queue.ts).  Every OpenCode process sharing the scope runs the   *)
(* same `admit` loop against one queue file; the root lock makes each file *)
(* transition one step, and everything between two acquisitions of the     *)
(* lock may interleave with the other processes, with cancellation, with   *)
(* the passing of time and with a crash.                                   *)
(*                                                                         *)
(* The array of tickets is a set here: the code appends with a growing     *)
(* sequence number and only ever filters, so the array's first element is  *)
(* the ticket with the smallest sequence number.                           *)
(***************************************************************************)
EXTENDS Integers, FiniteSets

CONSTANTS
  Host,        \* OpenCode processes; a restarted one is another element
  Request,     \* calls of admit
  Run,         \* the run ids the generator may produce
  NoRun,       \* the absent activeRunId, and the absent quarantine
  Origin,      \* what each process's monotonic clock reads at time 0: unrelated
  WaitBudget,  \* CONCURRENCY_WAIT_DEADLINE_MS, in ticks
  MaxTime      \* bound: the last instant modelled

ASSUME ConstantsAssumption ==
  /\ NoRun \notin Run
  /\ Origin \in [Host -> Nat]
  /\ WaitBudget \in Nat \ {0}
  /\ MaxTime \in Nat
  /\ WaitBudget <= MaxTime

VARIABLES
  \* the queue file
  tickets, nextSequence, activeRun, quarantine,
  \* the run directories: those that exist, and those that hold a record
  directories, recorded,
  \* the machine
  clock, alive,
  \* the calls of admit
  caller, phase, place, deadline, outcome, runOf

queueFile == <<tickets, nextSequence, activeRun, quarantine>>
runsDir == <<directories, recorded>>
machine == <<clock, alive>>
calls == <<caller, phase, place, deadline, outcome, runOf>>
vars == <<tickets, nextSequence, activeRun, quarantine, directories, recorded,
          clock, alive, caller, phase, place, deadline, outcome, runOf>>

Phase == {"idle", "enrolling", "polling", "attempting", "releasing",
          "returned", "thrown", "gone"}

Outcome == {"none", "admitted", "cancelled", "insufficientStorage",
            "executionSlotQuarantined", "recoveryFailed",
            "concurrencyWaitTimedOut"}

Ticket == [sequence : Nat, request : Request, owner : Host, deadline : Nat]

Waiting == {"polling", "attempting"}

-----------------------------------------------------------------------------
\* What the code reads.

\* environment.now() in process h: the monotonic clock of that process.
Now(h) == clock + Origin[h]

\* Mutation of Reap: a ticket survives only if its owner is the looking process.
ReapForeign(h) == {t \in tickets : t.deadline > Now(h) /\ t.owner = h}

\* reap: the tickets that survive a look by process h.
Reap(h) == {t \in tickets : t.deadline > Now(h) /\ t.owner \in alive}

\* The queue without the ticket of request r.
Without(r, queue) == {t \in queue : t.request # r}

\* Mutation of IsHead: a ticket anywhere in the queue will do.
IsQueued(r, queue) == \E t \in queue : t.request = r

\* state.tickets[0].ticketId === ticket.ticketId
IsHead(r, queue) ==
  \E t \in queue : /\ t.request = r
                   /\ \A u \in queue : t.sequence <= u.sequence

TicketOf(r) == [sequence |-> place[r], request |-> r, owner |-> caller[r],
                deadline |-> deadline[r]]

-----------------------------------------------------------------------------
Init ==
  /\ tickets = {}
  /\ nextSequence = 1
  /\ activeRun = NoRun
  /\ quarantine = NoRun
  /\ directories = {}
  /\ recorded = {}
  /\ clock = 0
  /\ alive = Host
  /\ caller \in [Request -> Host]
  /\ phase = [r \in Request |-> "idle"]
  /\ place = [r \in Request |-> 0]
  /\ deadline = [r \in Request |-> 0]
  /\ outcome = [r \in Request |-> "none"]
  /\ runOf = [r \in Request |-> NoRun]

\* Request r, of a live process, leaves phase `from` for phase `to`.
Moves(r, from, to) ==
  /\ caller[r] \in alive
  /\ phase[r] = from
  /\ phase' = [phase EXCEPT ![r] = to]

Decides(r, result) == outcome' = [outcome EXCEPT ![r] = result]

-----------------------------------------------------------------------------
\* Entering: the checks admit makes before it touches the queue.

EnterCancelled(r) ==
  /\ Moves(r, "idle", "returned")
  /\ Decides(r, "cancelled")
  /\ UNCHANGED <<queueFile, runsDir, machine, caller, place, deadline, runOf>>

EnterWithoutSpace(r) ==
  /\ Moves(r, "idle", "returned")
  /\ Decides(r, "insufficientStorage")
  /\ UNCHANGED <<queueFile, runsDir, machine, caller, place, deadline, runOf>>

\* Bound: a call enters while its whole wait still lies in modelled time.
Enter(r) ==
  /\ clock + WaitBudget <= MaxTime
  /\ Moves(r, "idle", "enrolling")
  /\ UNCHANGED <<queueFile, runsDir, machine, caller, place, deadline, outcome, runOf>>

\* The ticket is appended, and the file is written without what reap dropped.
Enroll(r) ==
  /\ Moves(r, "enrolling", "polling")
  /\ place' = [place EXCEPT ![r] = nextSequence]
  /\ deadline' = [deadline EXCEPT ![r] = Now(caller[r]) + WaitBudget]
  /\ nextSequence' = nextSequence + 1
  /\ tickets' = Reap(caller[r]) \cup
       {[sequence |-> nextSequence, request |-> r, owner |-> caller[r],
         deadline |-> Now(caller[r]) + WaitBudget]}
  /\ UNCHANGED <<activeRun, quarantine, runsDir, machine, caller, outcome, runOf>>

-----------------------------------------------------------------------------
\* The polling loop.

\* isCancelled at the top of an iteration.  The flag is a live view of the
\* caller's signal, so any look may be the first that finds it set; the call
\* that finds it set looks no further.
GiveUp(r) ==
  /\ Moves(r, "polling", "releasing")
  /\ Decides(r, "cancelled")
  /\ UNCHANGED <<queueFile, runsDir, machine, caller, place, deadline, runOf>>

\* Not cancelled: wait for the root lock.
TryAttempt(r) ==
  /\ Moves(r, "polling", "attempting")
  /\ UNCHANGED <<queueFile, runsDir, machine, caller, place, deadline, outcome, runOf>>

\* Mutation of FailQuarantined: the failure is returned without release().
FailQuarantinedKeepingTicket(r) ==
  /\ quarantine # NoRun
  /\ Moves(r, "attempting", "returned")
  /\ Decides(r, "executionSlotQuarantined")
  /\ UNCHANGED <<queueFile, runsDir, machine, caller, place, deadline, runOf>>

\* Under the lock: the root is quarantined, so the call fails at once.
FailQuarantined(r) ==
  /\ quarantine # NoRun
  /\ Moves(r, "attempting", "releasing")
  /\ Decides(r, "executionSlotQuarantined")
  /\ UNCHANGED <<queueFile, runsDir, machine, caller, place, deadline, runOf>>

\* Under the lock: not this request's turn.  Nothing is written, so what reap
\* dropped is still in the file.
NotMyTurn(r) ==
  /\ quarantine = NoRun
  /\ activeRun # NoRun \/ ~IsHead(r, Reap(caller[r]))

\* Mutation of KeepWaiting: the loop never looks at its deadline.
KeepWaitingForEver(r) ==
  /\ NotMyTurn(r)
  /\ Moves(r, "attempting", "polling")
  /\ UNCHANGED <<queueFile, runsDir, machine, caller, place, deadline, outcome, runOf>>

KeepWaiting(r) ==
  /\ NotMyTurn(r)
  /\ Now(caller[r]) < deadline[r]
  /\ Moves(r, "attempting", "polling")
  /\ UNCHANGED <<queueFile, runsDir, machine, caller, place, deadline, outcome, runOf>>

TimeOut(r) ==
  /\ NotMyTurn(r)
  /\ Now(caller[r]) >= deadline[r]
  /\ Moves(r, "attempting", "releasing")
  /\ Decides(r, "concurrencyWaitTimedOut")
  /\ UNCHANGED <<queueFile, runsDir, machine, caller, place, deadline, runOf>>

\* Under the lock: the slot is free and this request's ticket is the first.
MayTakeSlot(r) ==
  /\ quarantine = NoRun
  /\ activeRun = NoRun
  /\ IsHead(r, Reap(caller[r]))

\* Mutation of Admit: the slot transfers and prepare runs afterwards.
AdmitUnprepared(r, run) ==
  /\ MayTakeSlot(r)
  /\ run \notin directories
  /\ Moves(r, "attempting", "returned")
  /\ Decides(r, "admitted")
  /\ activeRun' = run
  /\ tickets' = Without(r, Reap(caller[r]))
  /\ runOf' = [runOf EXCEPT ![r] = run]
  /\ UNCHANGED <<nextSequence, quarantine, runsDir, machine, caller, place, deadline>>

\* Mutation of Admit: the record is written where no directory was made.
AdmitWithoutDirectory(r, run) ==
  /\ MayTakeSlot(r)
  /\ run \notin directories
  /\ Moves(r, "attempting", "returned")
  /\ Decides(r, "admitted")
  /\ recorded' = recorded \cup {run}
  /\ activeRun' = run
  /\ tickets' = Without(r, Reap(caller[r]))
  /\ runOf' = [runOf EXCEPT ![r] = run]
  /\ UNCHANGED <<nextSequence, quarantine, directories, machine, caller, place, deadline>>

\* prepare created the directory of an unused id and wrote its record; then
\* the slot transfers and the ticket is withdrawn in one write.
Admit(r, run) ==
  /\ MayTakeSlot(r)
  /\ run \notin directories
  /\ Moves(r, "attempting", "returned")
  /\ Decides(r, "admitted")
  /\ directories' = directories \cup {run}
  /\ recorded' = recorded \cup {run}
  /\ activeRun' = run
  /\ tickets' = Without(r, Reap(caller[r]))
  /\ runOf' = [runOf EXCEPT ![r] = run]
  /\ UNCHANGED <<nextSequence, quarantine, machine, caller, place, deadline>>

\* All RUN_ID_ATTEMPTS candidates name directories that exist.
FailAllocation(r) ==
  /\ MayTakeSlot(r)
  /\ directories # {}
  /\ Moves(r, "attempting", "releasing")
  /\ Decides(r, "recoveryFailed")
  /\ tickets' = Without(r, Reap(caller[r]))
  /\ UNCHANGED <<nextSequence, activeRun, quarantine, runsDir, machine, caller, place,
                 deadline, runOf>>

\* prepare throws (the volume filled, the directory was refused): the exception
\* leaves admit with the ticket still in the file and, when it was the record
\* that could not be written, with a directory that holds none.
PrepareThrows(r) ==
  /\ MayTakeSlot(r)
  /\ Moves(r, "attempting", "thrown")
  /\ \/ UNCHANGED directories
     \/ \E run \in Run \ directories : directories' = directories \cup {run}
  /\ UNCHANGED <<queueFile, recorded, machine, caller, place, deadline, outcome, runOf>>

\* release: withdraw the ticket under the lock, then return the result.
Release(r) ==
  /\ Moves(r, "releasing", "returned")
  /\ tickets' = Without(r, tickets)
  /\ UNCHANGED <<nextSequence, activeRun, quarantine, runsDir, machine, caller, place,
                 deadline, outcome, runOf>>

-----------------------------------------------------------------------------
\* The caller, the machine and the other writers of the queue file.

\* Bound: time stops at MaxTime, and does not pass the last instant at which a
\* call that is about to enroll still can.
Tick ==
  /\ clock < MaxTime
  /\ \/ clock + 1 + WaitBudget <= MaxTime
     \/ \A r \in Request : phase[r] # "enrolling"
  /\ clock' = clock + 1
  /\ UNCHANGED <<queueFile, runsDir, alive, calls>>

\* Process h dies: its calls are gone, the kernel drops its locks, and the
\* files stay as the last completed write left them.
Dies(h) ==
  /\ h \in alive
  /\ alive' = alive \ {h}
  /\ phase' = [r \in Request |-> IF caller[r] = h THEN "gone" ELSE phase[r]]
  /\ UNCHANGED <<queueFile, clock, caller, place, deadline, outcome, runOf>>

Crash(h) ==
  /\ Dies(h)
  /\ UNCHANGED runsDir

\* The crash falls inside prepare or right after it, before the slot's write.
CrashPreparing(r, run) ==
  /\ MayTakeSlot(r)
  /\ phase[r] = "attempting"
  /\ run \notin directories
  /\ Dies(caller[r])
  /\ directories' = directories \cup {run}
  /\ recorded' \in {recorded, recorded \cup {run}}

\* releaseSlot, by whichever process finishes the run: the slot goes back only
\* if this run still holds it, and a quarantine is published unless another
\* run's is standing.
ReleaseSlot(run, quarantining) ==
  /\ run \in recorded
  /\ activeRun' = IF activeRun = run THEN NoRun ELSE activeRun
  /\ quarantine' = IF quarantining /\ quarantine \in {NoRun, run} THEN run ELSE quarantine
  /\ UNCHANGED <<tickets, nextSequence, runsDir, machine, calls>>

\* What a reconciliation pass may write to the file: it drops the slot of a
\* run that is over, replaces it by a quarantine, or clears the quarantine.
\* Which of them a pass does is RunLifecycle's subject; here it may do any.
ReconcileSlot ==
  /\ \/ /\ activeRun' = NoRun
        /\ UNCHANGED quarantine
     \/ /\ activeRun' = NoRun
        /\ quarantine' \in directories
     \/ /\ quarantine' = NoRun
        /\ UNCHANGED activeRun
  /\ UNCHANGED <<tickets, nextSequence, runsDir, machine, calls>>

-----------------------------------------------------------------------------
\* The steps of request r in its own process, crashes apart.
CallStep(r) ==
  \/ EnterCancelled(r)
  \/ EnterWithoutSpace(r)
  \/ Enter(r)
  \/ Enroll(r)
  \/ GiveUp(r)
  \/ TryAttempt(r)
  \/ FailQuarantined(r)
  \/ KeepWaiting(r)
  \/ TimeOut(r)
  \/ \E run \in Run : Admit(r, run)
  \/ FailAllocation(r)
  \/ PrepareThrows(r)
  \/ Release(r)

Next ==
  \/ \E r \in Request : CallStep(r)
  \/ Tick
  \/ \E h \in Host : Crash(h)
  \/ \E r \in Request, run \in Run : CrashPreparing(r, run)
  \/ \E run \in Run, quarantining \in BOOLEAN : ReleaseSlot(run, quarantining)
  \/ ReconcileSlot

Spec == Init /\ [][Next]_vars

\* A live process keeps running its event loop, whose timers drive the poll
\* (POLL_INTERVAL_MS) and the lock retry (LOCK_POLL_INTERVAL_MS); time passes.
FairSpec ==
  /\ Spec
  /\ WF_vars(Tick)
  /\ \A r \in Request : WF_vars(phase[r] # "idle" /\ CallStep(r))

-----------------------------------------------------------------------------
TypeOK ==
  /\ tickets \subseteq Ticket
  /\ nextSequence \in Nat
  /\ activeRun \in Run \cup {NoRun}
  /\ quarantine \in Run \cup {NoRun}
  /\ recorded \subseteq directories
  /\ directories \subseteq Run
  /\ clock \in Nat
  /\ alive \subseteq Host
  /\ caller \in [Request -> Host]
  /\ phase \in [Request -> Phase]
  /\ place \in [Request -> Nat]
  /\ deadline \in [Request -> Nat]
  /\ outcome \in [Request -> Outcome]
  /\ runOf \in [Request -> Run \cup {NoRun}]

\* Each ticket in the file is the one its call was given, tickets of different
\* calls carry different sequence numbers, and the next number is above them
\* all: the order of the queue is the order of enrollment.
TicketsMatchCalls ==
  /\ nextSequence > 0
  /\ \A t \in tickets : /\ t = TicketOf(t.request)
                        /\ place[t.request] > 0
  /\ \A r \in Request : place[r] < nextSequence
  /\ \A r, q \in Request : r # q /\ place[r] > 0 => place[r] # place[q]

\* A call that has returned left no ticket behind, whichever of its exits it
\* took: a ticket nobody polls for would block every later call.
ReturnedHoldsNoPlace ==
  \A t \in tickets : phase[t.request] \notin {"idle", "enrolling", "returned"}

\* r's deadline, an instant of its caller's clock, has passed on no clock.
InTime(r) == \A h \in Host : Now(h) < deadline[r]

\* A live caller that is still waiting, and whose deadline no process's clock
\* has reached, still has its place: no reap, withdrawal or crash of another
\* took it.  This is all the code gives of "abandoning a live caller's place in
\* the queue is not recoverable": reap compares the deadline with the clock of
\* whichever process looks, and the clocks' origins are unrelated.
LiveTicketKept ==
  \A r \in Request :
    phase[r] \in Waiting /\ InTime(r) => TicketOf(r) \in tickets

\* What that comment asks: the deadline counts on the caller's own clock.  It
\* is false of the code whenever another clock is ahead (README, "Further
\* instances"): a process that has run for longer drops the live ticket.
LiveCallerKeepsPlace ==
  \A r \in Request :
    phase[r] \in Waiting /\ Now(caller[r]) < deadline[r] => TicketOf(r) \in tickets

\* Two calls are never admitted under one run id, and the slot and every
\* admitted call name a run whose record was written: prepare precedes the
\* transfer, and directories are created exclusively.
AdmittedRunsAreDurable ==
  /\ activeRun \in recorded \cup {NoRun}
  /\ \A r \in Request : runOf[r] # NoRun => runOf[r] \in recorded
  /\ \A r, q \in Request : r # q /\ runOf[r] # NoRun => runOf[r] # runOf[q]

\* Request q waits, and enrolled before r.
WaitsAhead(q, r) ==
  /\ phase[q] \in Waiting
  /\ place[q] < place[r]

\* Request r is admitted by the step.
Admitted(r) == phase[r] = "attempting" /\ outcome'[r] = "admitted"

\* FIFO: no call is admitted past an earlier one that is still waiting in a
\* live process, while no clock has reached the earlier one's deadline.
NoOvertaking ==
  [][\A r, q \in Request : Admitted(r) /\ WaitsAhead(q, r) => ~InTime(q)]_vars

\* "A newer eligible ticket must never overtake an older live one", live by its
\* caller's own clock: false of the code for the same reason (README).
OlderLiveNotOvertaken ==
  [][\A r, q \in Request :
       Admitted(r) /\ WaitsAhead(q, r) => Now(caller[q]) >= deadline[q]]_vars

\* Every call that began to enroll ends: admitted, refused, timed out or
\* thrown, unless its process died.  No interleaving waits for ever.
EveryCallReturns ==
  \A r \in Request :
    phase[r] = "enrolling" ~> phase[r] \in {"returned", "thrown", "gone"}

=============================================================================
