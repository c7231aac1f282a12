---------------------------- MODULE ExecutionSlot ----------------------------
(***************************************************************************)
(* What the runner promises about one storage scope, without the           *)
(* processes, files and crashes by which it keeps the promise: runs        *)
(* execute one at a time, each while it holds the slot or, when its end    *)
(* could not be confirmed, while it holds the root quarantined.            *)
(* RunLifecycle implements it.                                             *)
(***************************************************************************)
CONSTANTS
  Run,    \* run ids
  NoRun   \* the absent holder

VARIABLES
  active,      \* the run that holds the slot
  quarantine,  \* the run on whose account the root is quarantined
  executing    \* the runs of which something executes

vars == <<active, quarantine, executing>>

Init ==
  /\ active = NoRun
  /\ quarantine = NoRun
  /\ executing = {}

\* A free root is taken only when nothing executes.
Acquire(r) ==
  /\ active = NoRun /\ quarantine = NoRun
  /\ executing = {}
  /\ active' = r
  /\ UNCHANGED <<quarantine, executing>>

\* The holder of the slot, and no other run, begins to execute.
Start(r) ==
  /\ active = r
  /\ executing \subseteq {r}
  /\ executing' = {r}
  /\ UNCHANGED <<active, quarantine>>

Stop(r) ==
  /\ executing' = executing \ {r}
  /\ UNCHANGED <<active, quarantine>>

\* The root is quarantined on account of r, which gives up the slot if it has
\* it.  If r gave it up before, another run may hold it meanwhile.
Quarantine(r) ==
  /\ quarantine = NoRun
  /\ quarantine' = r
  /\ active' = IF active = r THEN NoRun ELSE active
  /\ UNCHANGED executing

\* The slot, the quarantine or both are given back: by a run that no longer
\* executes.
GiveBack ==
  /\ active' \in {active, NoRun}
  /\ quarantine' \in {quarantine, NoRun}
  /\ active' # active => active \notin executing
  /\ quarantine' # quarantine => quarantine \notin executing
  /\ UNCHANGED executing

Next ==
  \/ \E r \in Run : Acquire(r) \/ Start(r) \/ Stop(r) \/ Quarantine(r)
  \/ GiveBack

Spec == Init /\ [][Next]_vars

\* No two runs execute at once.
OneAtATime == \A r, q \in executing : r = q

\* What executes holds the slot or the root.
Covered == executing \subseteq {active, quarantine}

=============================================================================
