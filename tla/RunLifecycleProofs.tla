-------------------------- MODULE RunLifecycleProofs --------------------------
(***************************************************************************)
(* What holds of RunLifecycle for every set of processes, calls and runs,  *)
(* whatever crashes outside the spawn window (Confined).  Each theorem     *)
(* names what else it needs: which faults do not happen, and whether the   *)
(* end of at most one run goes unconfirmed (OneUnconfirmed).  Records only *)
(* grow, no two calls finish one run and launches are on record; runs      *)
(* execute one at a time and each under a hold; and the queue file         *)
(* implements ExecutionSlot.                                               *)
(***************************************************************************)
EXTENDS RunLifecycle, TLAPS

\* No process dies between spawning a supervisor and its identity on record.
Confined == "spawnWindow" \notin Faults

\* A supervisor that has launched lives until it has concluded.
Watchful == Faults \cap {"supervisorLost", "readyUnread"} = {}

\* What a call writes of its run is written.
Stored == Faults \cap {"prepareCrash", "publishFails"} = {}

\* The root has one place for a quarantined run: of two, the second would be
\* held by nothing.
OneUnconfirmed == \A r, q \in Unconfirmed : r = q

\* The supervisors that may still write their run's record.
Writing == {"handshaken", "ready", "gated", "recorded", "authorizing", "watching", "abandoning"}

\* The states of an unfinished run.
Open == {"admitted", "supervisorReady", "childRecorded", "launchAuthorized",
         "executionCompleted"}

\* A run a call has claimed and not yet adopted: nothing of it is in the way.
Adoptable(t, r) ==
  /\ Unfinished(r)
  /\ record[r].owner = process[t]
  /\ supervisor[r] \in Gone
  /\ ~LeaderLives(r)

Owned(t, r) == Unfinished(r) /\ record[r].owner = process[t]

\* The run a call drives: it is the call's own until its completion is written,
\* and after that too if the write failed.
Driven(t, r) ==
  /\ pc[t] # "releasing" => Owned(t, r)
  /\ pc[t] = "releasing" =>
       \/ Finished(r)
       \/ "publishFails" \in Faults /\ Owned(t, r) /\ supervisor[r] \in Gone \cup {"killed"}
  /\ pc[t] = "admitted" => supervisor[r] = "none"
  /\ pc[t] \in {"publishing", "adopting"} =>
       copy[t] = record[r] /\ supervisor[r] \in Gone \cup {"killed"}

CallInv ==
  \A t \in Task :
    /\ pc[t] # "dead" => process[t] \in alive
    /\ todo[t] # {} => pc[t] \in {"reconciled", "adopting", "releasing"}
    /\ \A r \in todo[t] : Adoptable(t, r)
    /\ mine[t] # NoRun => Driven(t, mine[t])

\* No two calls claim one run.
ClaimInv ==
  \A t, u \in Task :
    /\ mine[t] = mine[u] /\ mine[t] # NoRun => t = u
    /\ mine[t] \notin todo[u]
    /\ t # u => todo[t] \cap todo[u] = {}

\* What the record of run r says when its supervisor is in state s.
Recorded(r, s) ==
  /\ s \in Writing => held[r] = record[r]
  /\ s \in {"ready", "gated"} => record[r].state = "supervisorReady"
  /\ s = "recorded" => record[r].state = "childRecorded"
  /\ s \in Launched => record[r].state = "launchAuthorized"
  /\ s = "abandoning" => record[r].state \in {"supervisorReady", "childRecorded"}
  /\ s \in Writing \ {"handshaken"} => record[r].supervisor
  /\ s \in {"recorded"} \cup Launched => record[r].child

\* What executes was authorized, and by whom it was launched is on record.
Authorized(r) ==
  /\ record[r].state \in {"launchAuthorized", "executionCompleted", "completed"}
  /\ record[r].supervisor /\ record[r].child

\* What executes is watched, or was given up on and is accounted for.
Watched(r) ==
  \/ supervisor[r] = "watching"
  \/ /\ supervisor[r] = "exited"
     /\ record[r].state \in {"executionCompleted", "completed"}
     /\ record[r].quarantined
     /\ record[r].descendantsGone = "no"

\* What is true of a run and its own processes.
RunRule(r) ==
  /\ record[r].state = "unreadable" => "prepareCrash" \in Faults
  /\ record[r].state \in {"none", "unreadable"} => supervisor[r] = "none" /\ ~record[r].supervisor
  /\ record[r].quarantined => r \in Unconfirmed /\ supervisor[r] \in {"killed", "exited", "crashed"}
  /\ record[r].child => record[r].supervisor
  /\ Recorded(r, supervisor[r])
  /\ Executing(r) => Authorized(r)
  /\ Watchful => (Executing(r) => Watched(r))

\* A supervisor that is not yet in its record has a call that waits for it.
Attended(r) ==
  supervisor[r] \notin Gone /\ ~record[r].supervisor =>
    \E t \in Task : mine[t] = r /\ pc[t] \in {"supervising", "killing"}

RunInv == \A r \in Run : RunRule(r) /\ Attended(r)

\* A call drives run r and has not stopped waiting for its supervisor.
Supervised(r) == \E t \in Task : mine[t] = r /\ pc[t] \in {"admitted", "supervising", "killing"}

\* Run r may come to execute, or to be quarantined.
Live(r) == Unfinished(r) /\ (supervisor[r] \in {"starting"} \cup Writing \/ Supervised(r))

\* Run r is quarantined, and not known to be over.
Standing(r) == record[r].quarantined /\ (Unfinished(r) \/ StillAttributable(r))

Engaged(r) == Live(r) \/ Standing(r)

\* A run that is engaged has the slot or the root, or the root is held by a
\* directory no pass can judge; the root is held by no other; and unless a write
\* failed the slot is every unfinished run's.
HoldsRule(a, q) ==
  /\ \A r \in Run : Engaged(r) => r \in {a, q} \/ q \in Uncertain
  /\ q # NoRun => a # q /\ (record[q].quarantined \/ q \in Uncertain)
  /\ Stored => \A r \in Run : Unfinished(r) => a = r

\* Beside an engaged run none is.
AloneInv == \A r, q \in Run : Engaged(r) /\ Engaged(q) => r = q

HoldInv == OneUnconfirmed => HoldsRule(active, quarantine) /\ AloneInv

IInv == TypeOK /\ CallInv /\ ClaimInv /\ RunInv /\ HoldInv

-----------------------------------------------------------------------------
\* What the order of the states comes to.
LEMMA Stages ==
  /\ DOMAIN Rank = {"none", "unreadable"} \cup Open \cup {"completed"}
  /\ \A s \in DOMAIN Rank : Rank[s] >= Rank.admitted /\ s # "completed" <=> s \in Open
  /\ \A s \in DOMAIN Rank :
       Rank[s] < Rank.launchAuthorized <=>
         s \in {"none", "unreadable", "admitted", "supervisorReady", "childRecorded"}
BY DEF Rank, Open

\* An unfinished run by its state.
LEMMA OpenRuns ==
  ASSUME TypeOK, NEW r \in Run
  PROVE  Unfinished(r) <=> record[r].state \in Open
BY Stages DEF TypeOK, Unfinished, Readable, Record

\* The same in the next state.
LEMMA OpenRunsNext ==
  ASSUME TypeOK', NEW r \in Run
  PROVE  Unfinished(r)' <=> record'[r].state \in Open
BY Stages DEF TypeOK, Unfinished, Readable, Record

-----------------------------------------------------------------------------
\* A step of run r's supervisor or group leaves the rest of the system alone.
LocalTo(r) ==
  /\ UNCHANGED <<slot, alive, calls>>
  /\ \A q \in Run : q # r =>
       /\ record'[q] = record[q]
       /\ supervisor'[q] = supervisor[q]
       /\ held'[q] = held[q]
       /\ leader'[q] = leader[q]
       /\ offspring'[q] = offspring[q]

\* What a step of run r's supervisor or group may do to r.
Disciplined(r) ==
  /\ supervisor'[r] # supervisor[r] =>
       /\ supervisor[r] \notin Gone
       /\ supervisor'[r] \notin {"none", "killed"}
       /\ supervisor[r] = "killed" => supervisor'[r] = "crashed"
  /\ \/ record'[r] = record[r]
     \/ /\ record[r].state \in Open /\ record'[r].state \in Open
        /\ supervisor[r] \in Writing
        /\ record'[r].owner = record[r].owner
        /\ record[r].supervisor => record'[r].supervisor
  /\ Finished(r) /\ StillAttributable(r)' => StillAttributable(r)
  /\ LeaderLives(r)' => LeaderLives(r) \/ supervisor[r] \notin Gone
  /\ Executing(r)' => Executing(r) \/ supervisor[r] = "authorizing"
  /\ record'[r].quarantined => record[r].quarantined \/ supervisor[r] \in Writing
  /\ RunRule(r)'

\* A supervisor's step is typed and local to its run.
LEMMA SupervisorTypes ==
  ASSUME TypeOK, NEW r \in Run, SupervisorStep(r)
  PROVE  TypeOK' /\ LocalTo(r)
<1> USE DEF LocalTo, slot, calls, groups, supervisors
<1>0. /\ record[r] \in Record /\ held[r] \in Record /\ NoRecord \in Record
      /\ record \in [Run -> Record] /\ held \in [Run -> Record]
      /\ supervisor \in [Run -> SupervisorPc]
      /\ leader \in [Run -> {"none", "gated", "running", "gone"}]
  BY ConstantsAssumption DEF TypeOK, Record, NoRecord, Rank, Evidence
<1>t. ASSUME record' \in [Run -> Record], held' \in [Run -> Record],
             supervisor' \in [Run -> SupervisorPc],
             leader' \in [Run -> {"none", "gated", "running", "gone"}],
             UNCHANGED <<slot, alive, calls, offspring>>
      PROVE  TypeOK'
  BY <1>t DEF TypeOK
<1>1. CASE ReadHello(r)
  <2>1. UNCHANGED <<slot, alive, calls, offspring, record>>
    BY <1>1 DEF ReadHello, Steps
  <2>2. /\ supervisor' \in [Run -> SupervisorPc] /\ held' \in [Run -> Record]
        /\ leader' \in [Run -> {"none", "gated", "running", "gone"}]
    BY <1>0, <1>1 DEF ReadHello, Steps, SupervisorPc, Launching, Launched, Gone
  <2>3. \A q \in Run \ {r} : supervisor'[q] = supervisor[q] /\ held'[q] = held[q] /\ leader'[q] = leader[q]
    BY <1>0, <1>1 DEF ReadHello, Steps
  <2>4. QED
    BY <1>0, <1>t, <2>1, <2>2, <2>3
<1>2. CASE CancelBeforeSpawn(r)
  <2>1. UNCHANGED <<slot, alive, calls, offspring, record>>
    BY <1>2 DEF CancelBeforeSpawn, Steps
  <2>2. /\ supervisor' \in [Run -> SupervisorPc] /\ held' \in [Run -> Record]
        /\ leader' \in [Run -> {"none", "gated", "running", "gone"}]
    BY <1>0, <1>2 DEF CancelBeforeSpawn, Steps, SupervisorPc, Launching, Launched, Gone
  <2>3. \A q \in Run \ {r} : supervisor'[q] = supervisor[q] /\ held'[q] = held[q] /\ leader'[q] = leader[q]
    BY <1>0, <1>2 DEF CancelBeforeSpawn, Steps
  <2>4. QED
    BY <1>0, <1>t, <2>1, <2>2, <2>3
<1>3. CASE SpawnGatedChild(r)
  <2>1. UNCHANGED <<slot, alive, calls, offspring, record>>
    BY <1>3 DEF SpawnGatedChild, Steps
  <2>2. /\ supervisor' \in [Run -> SupervisorPc] /\ held' \in [Run -> Record]
        /\ leader' \in [Run -> {"none", "gated", "running", "gone"}]
    BY <1>0, <1>3 DEF SpawnGatedChild, Steps, SupervisorPc, Launching, Launched, Gone
  <2>3. \A q \in Run \ {r} : supervisor'[q] = supervisor[q] /\ held'[q] = held[q] /\ leader'[q] = leader[q]
    BY <1>0, <1>3 DEF SpawnGatedChild, Steps
  <2>4. QED
    BY <1>0, <1>t, <2>1, <2>2, <2>3
<1>4. CASE Abandon(r)
  <2>1. UNCHANGED <<slot, alive, calls, offspring, record>>
    BY <1>4 DEF Abandon, Steps
  <2>2. /\ supervisor' \in [Run -> SupervisorPc] /\ held' \in [Run -> Record]
        /\ leader' \in [Run -> {"none", "gated", "running", "gone"}]
    BY <1>0, <1>4 DEF Abandon, Steps, SupervisorPc, Launching, Launched, Gone
  <2>3. \A q \in Run \ {r} : supervisor'[q] = supervisor[q] /\ held'[q] = held[q] /\ leader'[q] = leader[q]
    BY <1>0, <1>4 DEF Abandon, Steps
  <2>4. QED
    BY <1>0, <1>t, <2>1, <2>2, <2>3
<1>5. CASE ReleaseGate(r)
  <2>1. UNCHANGED <<slot, alive, calls, offspring, record>>
    BY <1>5 DEF ReleaseGate, Steps
  <2>2. /\ supervisor' \in [Run -> SupervisorPc] /\ held' \in [Run -> Record]
        /\ leader' \in [Run -> {"none", "gated", "running", "gone"}]
    BY <1>0, <1>5 DEF ReleaseGate, Steps, SupervisorPc, Launching, Launched, Gone
  <2>3. \A q \in Run \ {r} : supervisor'[q] = supervisor[q] /\ held'[q] = held[q] /\ leader'[q] = leader[q]
    BY <1>0, <1>5 DEF ReleaseGate, Steps
  <2>4. QED
    BY <1>0, <1>t, <2>1, <2>2, <2>3
<1>6. CASE SupervisorDies(r)
  <2>1. UNCHANGED <<slot, alive, calls, offspring, record>>
    BY <1>6 DEF SupervisorDies, Steps
  <2>2. /\ supervisor' \in [Run -> SupervisorPc] /\ held' \in [Run -> Record]
        /\ leader' \in [Run -> {"none", "gated", "running", "gone"}]
    BY <1>0, <1>6 DEF SupervisorDies, Steps, SupervisorPc, Launching, Launched, Gone
  <2>3. \A q \in Run \ {r} : supervisor'[q] = supervisor[q] /\ held'[q] = held[q] /\ leader'[q] = leader[q]
    BY <1>0, <1>6 DEF SupervisorDies, Steps
  <2>4. QED
    BY <1>0, <1>t, <2>1, <2>2, <2>3
<1>7. CASE BecomeReady(r)
  <2>1. PICK new \in Record, to \in SupervisorPc :
          /\ supervisor' = [supervisor EXCEPT ![r] = to]
          /\ record' = [record EXCEPT ![r] = new]
          /\ held' = [held EXCEPT ![r] = IF to \in Gone THEN NoRecord ELSE new]
          /\ UNCHANGED <<slot, alive, calls, groups>>
    <3>1. [held[r] EXCEPT !.state = "supervisorReady", !.supervisor = TRUE] \in Record
      BY <1>0 DEF Record, Rank
    <3>2. QED
      BY <3>1, <1>7 DEF BecomeReady, Advances, Write, SupervisorPc, Launching, Launched
  <2>2. /\ record' \in [Run -> Record] /\ supervisor' \in [Run -> SupervisorPc] /\ held' \in [Run -> Record]
    BY <1>0, <2>1
  <2>3. \A q \in Run \ {r} : supervisor'[q] = supervisor[q] /\ held'[q] = held[q] /\ record'[q] = record[q]
    BY <1>0, <2>1
  <2>4. QED
    BY <1>0, <1>t, <2>1, <2>2, <2>3
<1>8. CASE RecordChild(r)
  <2>1. PICK new \in Record, to \in SupervisorPc :
          /\ supervisor' = [supervisor EXCEPT ![r] = to]
          /\ record' = [record EXCEPT ![r] = new]
          /\ held' = [held EXCEPT ![r] = IF to \in Gone THEN NoRecord ELSE new]
          /\ UNCHANGED <<slot, alive, calls, groups>>
    <3>1. [held[r] EXCEPT !.state = "childRecorded", !.child = TRUE] \in Record
      BY <1>0 DEF Record, Rank
    <3>2. QED
      BY <3>1, <1>8 DEF RecordChild, Advances, Write, SupervisorPc, Launching, Launched
  <2>2. /\ record' \in [Run -> Record] /\ supervisor' \in [Run -> SupervisorPc] /\ held' \in [Run -> Record]
    BY <1>0, <2>1
  <2>3. \A q \in Run \ {r} : supervisor'[q] = supervisor[q] /\ held'[q] = held[q] /\ record'[q] = record[q]
    BY <1>0, <2>1
  <2>4. QED
    BY <1>0, <1>t, <2>1, <2>2, <2>3
<1>9. CASE AuthorizeLaunch(r)
  <2>1. PICK new \in Record, to \in SupervisorPc :
          /\ supervisor' = [supervisor EXCEPT ![r] = to]
          /\ record' = [record EXCEPT ![r] = new]
          /\ held' = [held EXCEPT ![r] = IF to \in Gone THEN NoRecord ELSE new]
          /\ UNCHANGED <<slot, alive, calls, groups>>
    <3>1. [held[r] EXCEPT !.state = "launchAuthorized"] \in Record
      BY <1>0 DEF Record, Rank
    <3>2. QED
      BY <3>1, <1>9 DEF AuthorizeLaunch, Advances, Write, SupervisorPc, Launching, Launched
  <2>2. /\ record' \in [Run -> Record] /\ supervisor' \in [Run -> SupervisorPc] /\ held' \in [Run -> Record]
    BY <1>0, <2>1
  <2>3. \A q \in Run \ {r} : supervisor'[q] = supervisor[q] /\ held'[q] = held[q] /\ record'[q] = record[q]
    BY <1>0, <2>1
  <2>4. QED
    BY <1>0, <1>t, <2>1, <2>2, <2>3
<1>10. CASE ConcludeAbandoned(r)
  <2>1. CASE Steps(r, "abandoning", "exited") /\ held' = [held EXCEPT ![r] = NoRecord]
    BY <1>0, <1>t, <1>10, <2>1 DEF ConcludeAbandoned, Steps, SupervisorPc, Gone
  <2>2. CASE Advances(r, "abandoning", "exited",
                    [held[r] EXCEPT !.state = "executionCompleted",
                                    !.descendantsGone = "no", !.quarantined = TRUE])
    <3>1. [held[r] EXCEPT !.state = "executionCompleted",
                          !.descendantsGone = "no", !.quarantined = TRUE] \in Record
      BY <1>0 DEF Record, Rank, Evidence
    <3>2. QED
      BY <1>0, <1>t, <1>10, <2>2, <3>1 DEF ConcludeAbandoned, Advances, Write, SupervisorPc, Gone
  <2>3. QED
    BY <1>10, <2>1, <2>2 DEF ConcludeAbandoned
<1>11. CASE Conclude(r)
  <2>1. PICK doubt \in BOOLEAN :
          Advances(r, "watching", "exited",
                   [held[r] EXCEPT !.state = "executionCompleted",
                                   !.descendantsGone = IF Executing(r) THEN "no" ELSE "yes",
                                   !.quarantined = doubt \/ Executing(r)])
    BY <1>11 DEF Conclude
  <2>2. [held[r] EXCEPT !.state = "executionCompleted",
                        !.descendantsGone = IF Executing(r) THEN "no" ELSE "yes",
                        !.quarantined = doubt \/ Executing(r)] \in Record
    <3>1. \A e \in Evidence, b \in BOOLEAN :
            [held[r] EXCEPT !.state = "executionCompleted", !.descendantsGone = e,
                            !.quarantined = b] \in Record
      BY <1>0 DEF Record, Rank, Evidence
    <3>2. (doubt \/ Executing(r)) \in BOOLEAN /\ (IF Executing(r) THEN "no" ELSE "yes") \in Evidence
      BY DEF Evidence
    <3>3. QED
      BY <3>1, <3>2
  <2>3. UNCHANGED groups
    BY <1>11 DEF Conclude
  <2>4. QED
    BY <1>0, <1>t, <2>1, <2>2, <2>3 DEF Advances, Write, SupervisorPc, Gone
<1>12. QED
  BY <1>1, <1>2, <1>3, <1>4, <1>5, <1>6, <1>7, <1>8, <1>9, <1>10, <1>11 DEF SupervisorStep

\* What a supervisor's step does to its run, and that RunRule survives it.
LEMMA SupervisorDisciplined ==
  ASSUME IInv, NEW r \in Run, SupervisorStep(r)
  PROVE  Disciplined(r)
<1>0. /\ TypeOK /\ TypeOK' /\ RunRule(r)
      /\ record[r] \in Record /\ held[r] \in Record /\ record'[r] \in Record
      /\ record \in [Run -> Record] /\ held \in [Run -> Record]
      /\ supervisor \in [Run -> SupervisorPc]
      /\ leader \in [Run -> {"none", "gated", "running", "gone"}]
      /\ offspring \in [Run -> BOOLEAN]
  BY SupervisorTypes DEF IInv, RunInv, TypeOK
<1>u. Unfinished(r) <=> record[r].state \in Open
  BY <1>0, OpenRuns
<1> USE DEF RunRule, Recorded, Authorized, Watched, Executing, StillAttributable, LeaderLives, SupervisorLives,
           Finished, Gone, Launching, Launched, Writing, Open
<1>1. CASE ReadHello(r)
  <2>1. /\ supervisor[r] = "starting" /\ supervisor'[r] = "handshaken"
        /\ record'[r] = record[r]
        /\ held'[r] = record[r]
        /\ leader'[r] = leader[r] /\ offspring'[r] = offspring[r]
    BY <1>0, <1>1 DEF ReadHello, Steps, Advances, Write, groups, Launching
  <2>2. QED
    BY <1>0, <1>u, <2>1 DEF Disciplined, Record, groups
<1>2. CASE BecomeReady(r)
  <2>1. /\ supervisor[r] = "handshaken" /\ supervisor'[r] = "ready"
        /\ record'[r] = [held[r] EXCEPT !.state = "supervisorReady", !.supervisor = TRUE]
        /\ held'[r] = record'[r] /\ held[r].state = "admitted"
        /\ leader'[r] = leader[r] /\ offspring'[r] = offspring[r]
    BY <1>0, <1>2 DEF BecomeReady, Steps, Advances, Write, groups, Launching
  <2>2. QED
    BY <1>0, <1>u, <2>1 DEF Disciplined, Record, groups
<1>3. CASE CancelBeforeSpawn(r)
  <2>1. /\ supervisor[r] = "ready" /\ supervisor'[r] = "exited"
        /\ record'[r] = record[r]
        /\ held'[r] = NoRecord
        /\ leader'[r] = leader[r] /\ offspring'[r] = offspring[r]
    BY <1>0, <1>3 DEF CancelBeforeSpawn, Steps, Advances, Write, groups, Launching
  <2>2. QED
    BY <1>0, <1>u, <2>1 DEF Disciplined, Record, groups
<1>4. CASE SpawnGatedChild(r)
  <2>1. /\ supervisor[r] = "ready" /\ supervisor'[r] = "gated"
        /\ record'[r] = record[r]
        /\ held'[r] = held[r]
        /\ leader'[r] = "gated" /\ offspring'[r] = offspring[r]
    BY <1>0, <1>4 DEF SpawnGatedChild, Steps, Advances, Write, groups, Launching
  <2>2. QED
    BY <1>0, <1>u, <2>1 DEF Disciplined, Record, groups
<1>5. CASE RecordChild(r)
  <2>1. /\ supervisor[r] = "gated" /\ supervisor'[r] = "recorded"
        /\ record'[r] = [held[r] EXCEPT !.state = "childRecorded", !.child = TRUE]
        /\ held'[r] = record'[r]
        /\ leader'[r] = leader[r] /\ offspring'[r] = offspring[r]
    BY <1>0, <1>5 DEF RecordChild, Steps, Advances, Write, groups, Launching
  <2>2. QED
    BY <1>0, <1>u, <2>1 DEF Disciplined, Record, groups
<1>6. CASE Abandon(r)
  <2>1. /\ supervisor[r] \in {"gated", "recorded"} /\ supervisor'[r] = "abandoning"
        /\ record'[r] = record[r]
        /\ held'[r] = held[r]
        /\ leader'[r] = leader[r] /\ offspring'[r] = offspring[r]
    BY <1>0, <1>6 DEF Abandon, Steps, Advances, Write, groups, Launching
  <2>2. QED
    BY <1>0, <1>u, <2>1 DEF Disciplined, Record, groups
<1>7. CASE AuthorizeLaunch(r)
  <2>1. /\ supervisor[r] = "recorded" /\ supervisor'[r] = "authorizing"
        /\ record'[r] = [held[r] EXCEPT !.state = "launchAuthorized"]
        /\ held'[r] = record'[r]
        /\ leader'[r] = leader[r] /\ offspring'[r] = offspring[r]
    BY <1>0, <1>7 DEF AuthorizeLaunch, Steps, Advances, Write, groups, Launching
  <2>2. QED
    BY <1>0, <1>u, <2>1 DEF Disciplined, Record, groups
<1>8. CASE ReleaseGate(r)
  <2>1. /\ supervisor[r] = "authorizing" /\ supervisor'[r] = "watching"
        /\ record'[r] = record[r]
        /\ held'[r] = held[r]
        /\ leader'[r] = (IF leader[r] = "gated" THEN "running" ELSE leader[r]) /\ offspring'[r] = offspring[r]
    BY <1>0, <1>8 DEF ReleaseGate, Steps, Advances, Write, groups, Launching
  <2>2. QED
    BY <1>0, <1>u, <2>1 DEF Disciplined, Record, groups
<1>9. CASE SupervisorDies(r)
  <2>1. /\ supervisor[r] \in Launching \cup Launched \cup {"abandoning", "killed"} /\ supervisor'[r] = "crashed"
        /\ Watchful => supervisor[r] \notin Launched
        /\ record'[r] = record[r]
        /\ held'[r] = NoRecord
        /\ leader'[r] = leader[r] /\ offspring'[r] = offspring[r]
    BY <1>0, <1>9 DEF SupervisorDies, Steps, Advances, Write, groups, Launching, Watchful
  <2>2. QED
    BY <1>0, <1>u, <2>1 DEF Disciplined, Record, groups
<1>10. CASE ConcludeAbandoned(r)
  <2>1. leader'[r] = leader[r] /\ offspring'[r] = offspring[r]
    BY <1>10 DEF ConcludeAbandoned, groups
  <2>2. CASE Steps(r, "abandoning", "exited")
    <3>1. supervisor[r] = "abandoning" /\ supervisor'[r] = "exited" /\ record'[r] = record[r]
      BY <1>0, <2>2 DEF Steps
    <3>2. QED
      BY <1>0, <1>u, <2>1, <3>1 DEF Disciplined, Record
  <2>3. CASE /\ r \in Unconfirmed
             /\ Advances(r, "abandoning", "exited",
                         [held[r] EXCEPT !.state = "executionCompleted",
                                         !.descendantsGone = "no", !.quarantined = TRUE])
    <3>1. /\ supervisor[r] = "abandoning" /\ supervisor'[r] = "exited"
          /\ record'[r] = [held[r] EXCEPT !.state = "executionCompleted",
                                          !.descendantsGone = "no", !.quarantined = TRUE]
      BY <1>0, <2>3 DEF Advances, Write
    <3>2. QED
      BY <1>0, <1>u, <2>1, <2>3, <3>1 DEF Disciplined, Record
  <2>4. QED
    BY <1>10, <2>2, <2>3 DEF ConcludeAbandoned
<1>11. CASE Conclude(r)
  <2>1. PICK doubt \in BOOLEAN :
          /\ (~Executing(r) /\ ~doubt) \/ r \in Unconfirmed
          /\ Advances(r, "watching", "exited",
                   [held[r] EXCEPT !.state = "executionCompleted",
                                   !.descendantsGone = IF Executing(r) THEN "no" ELSE "yes",
                                   !.quarantined = doubt \/ Executing(r)])
    BY <1>11 DEF Conclude
  <2>2. /\ supervisor[r] = "watching" /\ supervisor'[r] = "exited"
        /\ leader'[r] = leader[r] /\ offspring'[r] = offspring[r]
    BY <1>0, <1>11, <2>1 DEF Conclude, Advances, groups
  <2>3. CASE Executing(r)
    <3>1. record'[r] = [held[r] EXCEPT !.state = "executionCompleted",
                                       !.descendantsGone = "no", !.quarantined = TRUE]
      BY <1>0, <2>1, <2>3 DEF Advances, Write
    <3>2. QED
      BY <1>0, <1>u, <2>1, <2>2, <2>3, <3>1 DEF Disciplined, Record
  <2>4. CASE ~Executing(r)
    <3>1. record'[r] = [held[r] EXCEPT !.state = "executionCompleted",
                                       !.descendantsGone = "yes", !.quarantined = doubt]
      BY <1>0, <2>1, <2>4 DEF Advances, Write
    <3>2. QED
      BY <1>0, <1>u, <2>1, <2>2, <2>4, <3>1 DEF Disciplined, Record
  <2>5. QED
    BY <2>3, <2>4
<1>12. QED
  BY <1>1, <1>2, <1>3, <1>4, <1>5, <1>6, <1>7, <1>8, <1>9, <1>10, <1>11 DEF SupervisorStep

\* So is a step of its group.
LEMMA GroupDisciplined ==
  ASSUME IInv, NEW r \in Run, GroupStep(r)
  PROVE  TypeOK' /\ LocalTo(r) /\ Disciplined(r)
<1>0. /\ TypeOK /\ RunRule(r)
      /\ leader \in [Run -> {"none", "gated", "running", "gone"}]
      /\ offspring \in [Run -> BOOLEAN]
  BY DEF IInv, RunInv, TypeOK
<1>1. UNCHANGED <<slot, record, alive, calls, supervisors>>
  BY DEF GroupStep, GateCloses, LeaderSpawns, LeaderExits, OffspringExit
<1>2. /\ leader' \in [Run -> {"none", "gated", "running", "gone"}]
      /\ offspring' \in [Run -> BOOLEAN]
  BY <1>0 DEF GroupStep, GateCloses, LeaderSpawns, LeaderExits, OffspringExit
<1>3. \A q \in Run \ {r} : leader'[q] = leader[q] /\ offspring'[q] = offspring[q]
  BY <1>0 DEF GroupStep, GateCloses, LeaderSpawns, LeaderExits, OffspringExit
<1>4. /\ leader'[r] = leader[r] \/ leader'[r] = "gone"
      /\ offspring'[r] => offspring[r] \/ (leader[r] = "running" /\ leader'[r] = "running")
  BY <1>0 DEF GroupStep, GateCloses, LeaderSpawns, LeaderExits, OffspringExit
<1>5. TypeOK'
  BY <1>0, <1>1, <1>2 DEF TypeOK, slot, calls, supervisors
<1>6. LocalTo(r)
  BY <1>1, <1>3 DEF LocalTo, slot, calls, supervisors
<1>7. Disciplined(r)
  <2>1. Executing(r)' => Executing(r)
    BY <1>4 DEF Executing
  <2>2. LeaderLives(r)' => LeaderLives(r)
    BY <1>1, <1>4 DEF LeaderLives
  <2>3. StillAttributable(r)' => StillAttributable(r)
    BY <1>1, <1>4 DEF StillAttributable, LeaderLives, SupervisorLives, supervisors
  <2>4. RunRule(r)'
    BY <1>0, <1>1, <2>1 DEF RunRule, Recorded, Authorized, Watched, supervisors
  <2>5. QED
    BY <1>1, <2>1, <2>2, <2>3, <2>4 DEF Disciplined, supervisors
<1>8. QED
  BY <1>5, <1>6, <1>7

\* The holds stand as long as the slot does, nothing new is engaged, nothing
\* finished is reopened and no quarantine is forgotten.
LEMMA HoldFrame ==
  ASSUME TypeOK, HoldInv, UNCHANGED slot,
         \A r \in Run : Engaged(r)' => Engaged(r),
         \A r \in Run : Unfinished(r)' => Unfinished(r),
         \A r \in Run : record[r].quarantined => record'[r].quarantined,
         Uncertain \subseteq Uncertain'
  PROVE  HoldInv'
<1> SUFFICES ASSUME OneUnconfirmed
             PROVE  HoldsRule(active, quarantine)' /\ AloneInv'
  BY DEF HoldInv
<1>0. /\ HoldsRule(active, quarantine) /\ AloneInv
      /\ active' = active /\ quarantine' = quarantine /\ quarantine \in Run \cup {NoRun}
  BY DEF HoldInv, slot, TypeOK
<1>1. HoldsRule(active, quarantine)'
  BY <1>0 DEF HoldsRule, Uncertain
<1>2. AloneInv'
  BY <1>0 DEF AloneInv
<1>3. QED
  BY <1>1, <1>2

\* Whatever is quarantined was admitted, and is unfinished or finished.
LEMMA QuarantinedIsOfRun ==
  ASSUME IInv, NEW r \in Run, record[r].quarantined
  PROVE  /\ r \in Unconfirmed /\ supervisor[r] \in {"killed", "exited", "crashed"}
         /\ Unfinished(r) \/ Finished(r)
<1>1. RunRule(r) /\ record[r].state \in DOMAIN Rank
  BY DEF IInv, RunInv, TypeOK, Record
<1>2. record[r].state \notin {"none", "unreadable"}
  BY <1>1 DEF RunRule
<1>3. QED
  BY <1>1, <1>2, Stages, OpenRuns DEF IInv, RunRule, Finished

\* Steps of that form keep the invariant: a claimed run has no supervisor that
\* could step, and nothing begins to execute beside an unfinished run.
LEMMA LocalKeeps ==
  ASSUME IInv, NEW r \in Run, TypeOK', LocalTo(r), Disciplined(r)
  PROVE  IInv'
<1>0. /\ TypeOK /\ TypeOK' /\ CallInv /\ ClaimInv /\ RunInv
      /\ HoldInv
      /\ UNCHANGED <<active, quarantine, alive, pc, mine, todo, copy>>
  BY DEF IInv, LocalTo, slot, calls
<1>f. ASSUME NEW q \in Run, q # r
      PROVE  /\ record'[q] = record[q] /\ supervisor'[q] = supervisor[q] /\ held'[q] = held[q]
             /\ leader'[q] = leader[q] /\ offspring'[q] = offspring[q]
             /\ Unfinished(q)' = Unfinished(q)
             /\ Finished(q)' = Finished(q)
             /\ LeaderLives(q)' = LeaderLives(q)
             /\ StillAttributable(q)' = StillAttributable(q)
             /\ Executing(q)' = Executing(q)
  BY <1>f DEF LocalTo, Unfinished, Readable, Finished, LeaderLives, StillAttributable,
              SupervisorLives, Executing
<1>u. /\ Unfinished(r) <=> record[r].state \in Open
      /\ Unfinished(r)' <=> record'[r].state \in Open
      /\ Finished(r) <=> record[r].state = "completed"
      /\ Finished(r)' <=> record'[r].state = "completed"
      /\ "completed" \notin Open
  BY <1>0, OpenRuns, OpenRunsNext DEF Finished, Open
<1>g. /\ Unfinished(r)' <=> Unfinished(r)
      /\ Finished(r)' <=> Finished(r)
      /\ Finished(r) => record'[r] = record[r]
  BY <1>u DEF Disciplined
<1>1. CallInv'
  <2> SUFFICES ASSUME NEW t \in Task
               PROVE  /\ (pc[t] # "dead" => process[t] \in alive)'
                      /\ (todo[t] # {} => pc[t] \in {"reconciled", "adopting", "releasing"})'
                      /\ (\A q \in todo[t] : Adoptable(t, q))'
                      /\ (mine[t] # NoRun => Driven(t, mine[t]))'
    BY DEF CallInv
  <2>0. todo[t] \subseteq Run /\ mine[t] \in Run \cup {NoRun}
    BY <1>0 DEF TypeOK
  <2>1. /\ (pc[t] # "dead" => process[t] \in alive)'
        /\ (todo[t] # {} => pc[t] \in {"reconciled", "adopting", "releasing"})'
    BY <1>0 DEF CallInv
  <2>2. ASSUME NEW q \in todo[t]
        PROVE  Adoptable(t, q)'
    <3>1. Adoptable(t, q) /\ q \in Run
      BY <1>0, <2>0, <2>2 DEF CallInv
    <3>2. CASE q # r
      BY <1>f, <3>1, <3>2 DEF Adoptable
    <3>3. CASE q = r
      BY <1>g, <3>1, <3>3 DEF Adoptable, Disciplined, Writing, Gone
    <3>4. QED
      BY <3>2, <3>3
  <2>3. ASSUME mine[t] # NoRun
        PROVE  Driven(t, mine[t])'
    <3>1. Driven(t, mine[t]) /\ mine[t] \in Run
      BY <1>0, <2>0, <2>3 DEF CallInv
    <3>2. CASE mine[t] # r
      BY <1>0, <1>f, <3>1, <3>2 DEF Driven, Owned
    <3>3. CASE mine[t] = r
      BY <1>0, <1>g, <3>1, <3>3 DEF Driven, Owned, Disciplined, Writing, Gone
    <3>4. QED
      BY <3>2, <3>3
  <2>4. QED
    BY <1>0, <2>1, <2>2, <2>3
<1>2. ClaimInv'
  BY <1>0 DEF ClaimInv
<1>3. RunInv'
  <2> SUFFICES ASSUME NEW q \in Run
               PROVE  RunRule(q)' /\ Attended(q)'
    BY DEF RunInv
  <2>1. RunRule(q) /\ Attended(q)
    BY <1>0 DEF RunInv
  <2>2. CASE q # r
    BY <1>0, <1>f, <2>1, <2>2 DEF RunRule, Attended, Recorded, Authorized, Watched
  <2>3. CASE q = r
    BY <1>0, <2>1, <2>3 DEF Disciplined, Attended
  <2>4. QED
    BY <2>2, <2>3
<1>4. HoldInv'
  <2>1. ASSUME NEW q \in Run, Engaged(q)'
        PROVE  Engaged(q)
    <3>1. CASE q # r
      BY <1>0, <1>f, <2>1, <3>1 DEF Engaged, Live, Supervised, Standing
    <3>2. CASE q = r /\ Live(q)'
      <4>1. supervisor'[r] \in {"starting"} \cup Writing => supervisor[r] \in {"starting"} \cup Writing
        BY <1>0 DEF Disciplined, TypeOK, SupervisorPc, Writing, Launching, Launched, Gone
      <4>2. QED
        BY <1>0, <1>g, <3>2, <4>1 DEF Engaged, Live, Supervised
    <3>3. CASE q = r /\ Standing(q)' /\ record[r].quarantined
      BY <1>g, <3>3, QuarantinedIsOfRun DEF Engaged, Standing, Disciplined
    <3>4. CASE q = r /\ Standing(q)' /\ ~record[r].quarantined
      BY <1>u, <3>4 DEF Engaged, Standing, Live, Disciplined
    <3>5. QED
      BY <2>1, <3>1, <3>2, <3>3, <3>4 DEF Engaged
  <2>2. \A q \in Run : Unfinished(q)' => Unfinished(q)
    BY <1>f, <1>g
  <2>3. \A q \in Run : record[q].quarantined => record'[q].quarantined
    BY <1>f, QuarantinedIsOfRun DEF Disciplined, Writing
  <2>4. Uncertain \subseteq Uncertain'
    <3>1. record[r].state = "unreadable" => record'[r] = record[r]
      BY DEF Disciplined, Open
    <3>2. QED
      BY <1>f, <3>1 DEF Uncertain
  <2>5. QED
    BY <1>0, <2>1, <2>2, <2>3, <2>4, HoldFrame DEF slot
<1>5. QED
  BY <1>0, <1>1, <1>2, <1>3, <1>4 DEF IInv

-----------------------------------------------------------------------------
\* A step of call t that concerns run m alone, which no other call claims.
OwnStep(t, m) ==
  /\ UNCHANGED <<alive, groups>>
  /\ mine[t] \in {NoRun, m} /\ mine'[t] \in {NoRun, m}
  /\ todo'[t] \subseteq todo[t] \ {m}
  /\ pc[t] # "dead"
  /\ \A u \in Task : u # t =>
       /\ pc'[u] = pc[u] /\ mine'[u] = mine[u] /\ todo'[u] = todo[u] /\ copy'[u] = copy[u]
       /\ mine[u] # m /\ m \notin todo[u]
  /\ \A q \in Run : q # m =>
       record'[q] = record[q] /\ supervisor'[q] = supervisor[q] /\ held'[q] = held[q]

\* What such a step leaves of the other runs.
LEMMA OwnFrame ==
  ASSUME NEW t \in Task, NEW m \in Run, OwnStep(t, m), NEW q \in Run
  PROVE  /\ Executing(q)' = Executing(q)
         /\ q # m => /\ Unfinished(q)' = Unfinished(q)
                     /\ Finished(q)' = Finished(q)
                     /\ LeaderLives(q)' = LeaderLives(q)
                     /\ Engaged(q)' = Engaged(q)
<1>1. /\ Executing(q)' = Executing(q)
      /\ q # m => /\ Unfinished(q)' = Unfinished(q)
                  /\ Finished(q)' = Finished(q)
                  /\ LeaderLives(q)' = LeaderLives(q)
                  /\ StillAttributable(q)' = StillAttributable(q)
  BY DEF OwnStep, Executing, Unfinished, Readable, Finished, LeaderLives, StillAttributable,
         SupervisorLives, groups
<1>2. ASSUME q # m
      PROVE  Engaged(q)' = Engaged(q)
  <2>1. \A u \in Task : u # t => mine'[u] = mine[u] /\ pc'[u] = pc[u]
    BY DEF OwnStep
  <2>2. mine[t] # q /\ mine'[t] # q
    BY <1>2, ConstantsAssumption DEF OwnStep
  <2>3. Supervised(q)' = Supervised(q)
    BY <2>1, <2>2 DEF Supervised
  <2>4. record'[q] = record[q] /\ supervisor'[q] = supervisor[q]
    BY <1>2 DEF OwnStep
  <2>5. QED
    BY <1>1, <1>2, <2>3, <2>4 DEF Engaged, Live, Standing
<1>3. QED
  BY <1>1, <1>2

\* What remains to be seen of such a step: its call, its run, and the slot.
LEMMA OwnKeeps ==
  ASSUME IInv, NEW t \in Task, NEW m \in Run, OwnStep(t, m), TypeOK',
         todo'[t] # {} => pc'[t] \in {"reconciled", "adopting", "releasing"},
         mine'[t] = m => Driven(t, m)',
         RunRule(m)', Attended(m)',
         HoldInv'
  PROVE  IInv'
<1>0. /\ TypeOK /\ CallInv /\ ClaimInv /\ RunInv
      /\ UNCHANGED <<alive, leader, offspring>>
  BY DEF IInv, OwnStep, groups
<1>1. CallInv'
  <2> SUFFICES ASSUME NEW u \in Task
               PROVE  /\ (pc[u] # "dead" => process[u] \in alive)'
                      /\ (todo[u] # {} => pc[u] \in {"reconciled", "adopting", "releasing"})'
                      /\ (\A q \in todo[u] : Adoptable(u, q))'
                      /\ (mine[u] # NoRun => Driven(u, mine[u]))'
    BY DEF CallInv
  <2>0. /\ todo[u] \subseteq Run /\ mine[u] \in Run \cup {NoRun}
        /\ pc[u] # "dead" => process[u] \in alive
        /\ todo[u] # {} => pc[u] \in {"reconciled", "adopting", "releasing"}
        /\ \A q \in todo[u] : Adoptable(u, q)
        /\ mine[u] # NoRun => Driven(u, mine[u])
    BY <1>0 DEF TypeOK, CallInv
  <2>1. ASSUME NEW q \in todo[u], q # m
        PROVE  Adoptable(u, q)'
    <3>1. Adoptable(u, q) /\ q \in Run
      BY <2>0, <2>1
    <3>2. Unfinished(q)' = Unfinished(q) /\ LeaderLives(q)' = LeaderLives(q)
      BY <2>1, <3>1, OwnFrame
    <3>3. QED
      BY <2>1, <3>1, <3>2 DEF Adoptable, OwnStep
  <2>2. CASE u = t
    <3>1. \A q \in todo'[t] : q \in todo[t] /\ q # m
      BY DEF OwnStep
    <3>2. \A q \in todo'[t] : Adoptable(t, q)'
      BY <2>1, <2>2, <3>1
    <3>3. mine'[t] # NoRun => Driven(t, mine[t])'
      BY DEF OwnStep
    <3>4. (pc[t] # "dead" => process[t] \in alive)'
      BY <1>0, <2>0, <2>2 DEF OwnStep
    <3>5. QED
      BY <2>2, <3>2, <3>3, <3>4
  <2>3. CASE u # t
    <3>1. /\ pc'[u] = pc[u] /\ mine'[u] = mine[u] /\ todo'[u] = todo[u] /\ copy'[u] = copy[u]
          /\ mine[u] # m /\ m \notin todo[u]
      BY <2>3 DEF OwnStep
    <3>2. ASSUME mine[u] # NoRun
          PROVE  Driven(u, mine[u])'
      <4>1. mine[u] \in Run /\ mine[u] # m /\ Driven(u, mine[u])
        BY <2>0, <3>1, <3>2
      <4>2. Unfinished(mine[u])' = Unfinished(mine[u]) /\ Finished(mine[u])' = Finished(mine[u])
        BY <3>1, <4>1, OwnFrame
      <4>3. /\ record'[mine[u]] = record[mine[u]]
            /\ supervisor'[mine[u]] = supervisor[mine[u]]
        BY <4>1 DEF OwnStep
      <4>4. QED
        BY <3>1, <4>1, <4>2, <4>3 DEF Driven, Owned
    <3>3. \A q \in todo[u] : Adoptable(u, q)'
      BY <2>1, <3>1
    <3>4. QED
      BY <1>0, <2>0, <3>1, <3>2, <3>3
  <2>4. QED
    BY <2>2, <2>3
<1>2. ClaimInv'
  <2> SUFFICES ASSUME NEW u \in Task, NEW v \in Task
               PROVE  /\ (mine[u] = mine[v] /\ mine[u] # NoRun => u = v)'
                      /\ (mine[u] \notin todo[v])'
                      /\ (u # v => todo[u] \cap todo[v] = {})'
    BY DEF ClaimInv
  <2>1. /\ \A w \in Task : mine'[w] \in {NoRun, m} \/ mine'[w] = mine[w]
        /\ \A w \in Task : w # t => mine'[w] = mine[w] /\ mine[w] # m /\ m \notin todo[w]
        /\ \A w \in Task : todo'[w] \subseteq todo[w] /\ m \notin todo'[w]
        /\ mine'[t] \in {NoRun, m}
        /\ \A w \in Task : NoRun \notin todo[w]
    BY <1>0, ConstantsAssumption DEF OwnStep, TypeOK
  <2>2. (mine[u] = mine[v] /\ mine[u] # NoRun => u = v)'
    BY <1>0, <2>1 DEF ClaimInv
  <2>3. (mine[u] \notin todo[v])'
    BY <1>0, <2>1 DEF ClaimInv
  <2>4. (u # v => todo[u] \cap todo[v] = {})'
    BY <1>0, <2>1 DEF ClaimInv
  <2>5. QED
    BY <2>2, <2>3, <2>4
<1>3. RunInv'
  <2> SUFFICES ASSUME NEW q \in Run
               PROVE  RunRule(q)' /\ Attended(q)'
    BY DEF RunInv
  <2>1. RunRule(q) /\ Attended(q)
    BY <1>0 DEF RunInv
  <2>2. ASSUME q # m
        PROVE  RunRule(q)' /\ Attended(q)'
    <3>1. record'[q] = record[q] /\ supervisor'[q] = supervisor[q] /\ held'[q] = held[q]
      BY <2>2 DEF OwnStep
    <3>2. RunRule(q)'
      BY <1>0, <2>1, <3>1 DEF RunRule, Recorded, Authorized, Watched, Executing
    <3>3. ASSUME NEW u \in Task, mine[u] = q, pc[u] \in {"supervising", "killing"}
          PROVE  mine'[u] = q /\ pc'[u] \in {"supervising", "killing"}
      BY <2>2, <3>3, ConstantsAssumption DEF OwnStep
    <3>4. Attended(q)'
      BY <2>1, <3>1, <3>3 DEF Attended
    <3>5. QED
      BY <3>2, <3>4
  <2>3. QED
    BY <2>2
<1>4. QED
  BY <1>1, <1>2, <1>3 DEF IInv

\* A step that neither engages its run nor reopens it, and leaves the slot alone.
LEMMA OwnHolds ==
  ASSUME IInv, NEW t \in Task, NEW m \in Run, OwnStep(t, m), UNCHANGED slot,
         Unfinished(m), Engaged(m)' => Engaged(m),
         record[m].quarantined => record'[m].quarantined
  PROVE  HoldInv'
<1>0. TypeOK /\ HoldInv
  BY DEF IInv
<1>1. \A q \in Run : Engaged(q)' => Engaged(q)
  BY OwnFrame
<1>2. \A q \in Run : Unfinished(q)' => Unfinished(q)
  BY OwnFrame
<1>3. \A q \in Run : record[q].quarantined => record'[q].quarantined
  BY DEF OwnStep
<1>4. Uncertain \subseteq Uncertain'
  BY <1>0, OpenRuns DEF Uncertain, OwnStep, Open
<1>5. QED
  BY <1>0, <1>1, <1>2, <1>3, <1>4, HoldFrame

-----------------------------------------------------------------------------
\* The run of a call is its own.
LEMMA OwnRun ==
  ASSUME IInv, NEW t \in Task,
         pc[t] \in {"admitted", "supervising", "killing", "publishing", "adopting", "releasing"}
  PROVE  /\ mine[t] \in Run /\ mine[t] # NoRun /\ mine[t] \notin todo[t]
         /\ Driven(t, mine[t]) /\ RunRule(mine[t]) /\ Attended(mine[t])
         /\ \A u \in Task : u # t => mine[u] # mine[t] /\ mine[t] \notin todo[u]
         /\ record[mine[t]] \in Record
         /\ pc[t] # "releasing" => Unfinished(mine[t]) /\ record[mine[t]].state \in Open
         /\ pc[t] \in {"admitted", "supervising", "killing"} => Engaged(mine[t])
<1>1. mine[t] \in Run /\ mine[t] # NoRun /\ record[mine[t]] \in Record
  BY ConstantsAssumption DEF IInv, TypeOK
<1>2. /\ mine[t] \notin todo[t]
      /\ Driven(t, mine[t]) /\ RunRule(mine[t]) /\ Attended(mine[t])
      /\ \A u \in Task : u # t => mine[u] # mine[t] /\ mine[t] \notin todo[u]
  BY <1>1 DEF IInv, CallInv, ClaimInv, RunInv
<1>3. pc[t] # "releasing" => Unfinished(mine[t]) /\ record[mine[t]].state \in Open
  BY <1>1, <1>2, OpenRuns DEF Driven, Owned, IInv
<1>4. pc[t] \in {"admitted", "supervising", "killing"} => Engaged(mine[t])
  BY <1>3 DEF Engaged, Live, Supervised
<1>5. QED
  BY <1>1, <1>2, <1>3, <1>4

\* A call that has its run to itself steps on its own.
LEMMA OwnStepOfCall ==
  ASSUME IInv, NEW t \in Task,
         pc[t] \in {"admitted", "supervising", "killing", "publishing", "adopting", "releasing"},
         UNCHANGED <<alive, groups, todo>>,
         mine'[t] \in {NoRun, mine[t]},
         \A u \in Task : u # t => pc'[u] = pc[u] /\ mine'[u] = mine[u] /\ copy'[u] = copy[u],
         \A q \in Run : q # mine[t] =>
           record'[q] = record[q] /\ supervisor'[q] = supervisor[q] /\ held'[q] = held[q]
  PROVE  OwnStep(t, mine[t])
<1>1. /\ mine[t] \notin todo[t]
      /\ \A u \in Task : u # t => mine[u] # mine[t] /\ mine[t] \notin todo[u]
  BY OwnRun
<1>2. QED
  BY <1>1 DEF OwnStep

LEMMA SpawnKeeps ==
  ASSUME IInv, NEW t \in Task, SpawnSupervisor(t)
  PROVE  IInv'
<1> DEFINE m == mine[t]
<1>0. /\ TypeOK /\ m \in Run /\ Driven(t, m) /\ RunRule(m) /\ pc[t] = "admitted"
      /\ Unfinished(m) /\ record[m].state \in Open /\ Engaged(m)
      /\ UNCHANGED <<slot, record, alive, mine, todo, copy, held, groups>>
  BY OwnRun DEF IInv, SpawnSupervisor, Moves
<1>1. /\ pc' = [pc EXCEPT ![t] = "supervising"]
      /\ supervisor' = [supervisor EXCEPT ![m] = "starting"]
  BY DEF SpawnSupervisor, Moves
<1>2. TypeOK'
  BY <1>0, <1>1 DEF TypeOK, Pc, SupervisorPc, Launching, slot, groups
<1>3. pc'[t] = "supervising" /\ supervisor'[m] = "starting" /\ supervisor[m] = "none"
  BY <1>0, <1>1 DEF TypeOK, Driven
<1>4. OwnStep(t, m)
  BY <1>0, <1>1, OwnStepOfCall DEF TypeOK
<1>5. Unfinished(m)'
  BY <1>0 DEF Unfinished, Readable
<1>6. Driven(t, m)'
  BY <1>0, <1>3, <1>5 DEF Driven, Owned
<1>7. RunRule(m)' /\ Attended(m)'
  <2>1. Executing(m)' = Executing(m) /\ (Watchful => ~Executing(m))
    BY <1>0, <1>3 DEF RunRule, Watched, Executing, groups
  <2>2. QED
    BY <1>0, <1>3, <2>1 DEF RunRule, Attended, Recorded, Authorized, Writing, Launched, Open
<1>8. (todo[t] # {} => pc[t] \in {"reconciled", "adopting", "releasing"})'
  BY <1>0 DEF IInv, CallInv
<1>9. HoldInv'
  BY <1>0, <1>4, OwnHolds
<1>10. QED
  BY <1>0, <1>2, <1>4, <1>6, <1>7, <1>8, <1>9, OwnKeeps

LEMMA EndSupervisionKeeps ==
  ASSUME IInv, NEW t \in Task, EndSupervision(t)
  PROVE  IInv'
<1> DEFINE m == mine[t]
<1>0. /\ TypeOK /\ m \in Run /\ Driven(t, m) /\ RunRule(m)
      /\ Unfinished(m) /\ Engaged(m)
      /\ pc[t] \in {"admitted", "supervising", "killing"}
      /\ pc' = [pc EXCEPT ![t] = "publishing"]
      /\ copy' = [copy EXCEPT ![t] = record[m]]
      /\ UNCHANGED <<slot, record, alive, mine, todo, supervisors, groups>>
      /\ supervisor[m] \in Gone
  BY OwnRun DEF IInv, EndSupervision, Moves, Reread, Driven, Gone
<1>2. TypeOK'
  BY <1>0 DEF TypeOK, Pc, slot, groups, supervisors
<1>3. pc'[t] = "publishing" /\ copy'[t] = record[m]
  BY <1>0 DEF TypeOK
<1>4. OwnStep(t, m)
  BY <1>0, OwnStepOfCall DEF TypeOK, supervisors
<1>5. Unfinished(m)'
  BY <1>0 DEF Unfinished, Readable
<1>6. Driven(t, m)'
  BY <1>0, <1>3, <1>5 DEF Driven, Owned, supervisors
<1>7. RunRule(m)' /\ Attended(m)'
  BY <1>0 DEF RunRule, Attended, Recorded, Authorized, Watched, Executing, supervisors, groups
<1>8. (todo[t] # {} => pc[t] \in {"reconciled", "adopting", "releasing"})'
  BY <1>0 DEF IInv, CallInv
<1>9. HoldInv'
  BY <1>0, <1>4, OwnHolds
<1>10. QED
  BY <1>0, <1>2, <1>4, <1>6, <1>7, <1>8, <1>9, OwnKeeps

LEMMA HandshakeDeadlineKeeps ==
  ASSUME IInv, NEW t \in Task, HandshakeDeadline(t)
  PROVE  IInv'
<1> DEFINE m == mine[t]
<1>0. /\ TypeOK /\ m \in Run /\ Driven(t, m) /\ RunRule(m) /\ pc[t] = "supervising"
      /\ Unfinished(m) /\ record[m].state \in Open /\ Engaged(m)
      /\ pc' = [pc EXCEPT ![t] = "killing"]
      /\ supervisor' = [supervisor EXCEPT ![m] = "killed"]
      /\ held' = [held EXCEPT ![m] = NoRecord]
      /\ UNCHANGED <<slot, record, alive, mine, todo, copy, groups>>
  BY OwnRun DEF IInv, HandshakeDeadline, Moves
<1>1. supervisor[m] \in Launching \cup Launched /\ (Watchful => supervisor[m] \in Launching)
  BY DEF HandshakeDeadline, Watchful
<1>2. TypeOK'
  <2>1. NoRecord \in Record
    BY DEF Record, NoRecord, Rank, Evidence
  <2>2. QED
    BY <1>0, <2>1 DEF TypeOK, Pc, SupervisorPc, slot, groups
<1>3. pc'[t] = "killing" /\ supervisor'[m] = "killed"
  BY <1>0 DEF TypeOK
<1>4. OwnStep(t, m)
  BY <1>0, OwnStepOfCall DEF TypeOK
<1>5. Unfinished(m)'
  BY <1>0 DEF Unfinished, Readable
<1>6. Driven(t, m)'
  BY <1>0, <1>3, <1>5 DEF Driven, Owned
<1>7. RunRule(m)' /\ Attended(m)'
  <2>1. Executing(m)' = Executing(m) /\ (Watchful => ~Executing(m))
    BY <1>0, <1>1 DEF RunRule, Watched, Executing, Launching, groups
  <2>2. ~record[m].quarantined
    BY <1>0, <1>1 DEF RunRule, Launching, Launched
  <2>3. QED
    BY <1>0, <1>3, <2>1, <2>2 DEF RunRule, Attended, Recorded, Authorized, Writing, Launched, Open
<1>8. (todo[t] # {} => pc[t] \in {"reconciled", "adopting", "releasing"})'
  BY <1>0 DEF IInv, CallInv
<1>9. HoldInv'
  BY <1>0, <1>4, OwnHolds
<1>10. QED
  BY <1>0, <1>2, <1>4, <1>6, <1>7, <1>8, <1>9, OwnKeeps

LEMMA HoldUnhandshakenKeeps ==
  ASSUME IInv, NEW t \in Task, HoldUnhandshaken(t)
  PROVE  IInv'
<1> DEFINE m == mine[t]
           new == [record[m] EXCEPT !.quarantined = TRUE, !.supervisor = TRUE]
<1>0. /\ TypeOK /\ m \in Run /\ Driven(t, m) /\ RunRule(m) /\ pc[t] = "killing"
      /\ Unfinished(m) /\ record[m].state \in Open /\ Engaged(m)
      /\ record[m] \in Record
      /\ supervisor[m] = "killed" /\ m \in Unconfirmed
      /\ pc' = [pc EXCEPT ![t] = "publishing"]
      /\ record' = [record EXCEPT ![m] = new]
      /\ copy' = [copy EXCEPT ![t] = new]
      /\ UNCHANGED <<slot, alive, mine, todo, supervisors, groups>>
  BY OwnRun DEF IInv, HoldUnhandshaken, Moves, Write
<1>1. new \in Record /\ new.state = record[m].state /\ new.owner = record[m].owner
      /\ new.child = record[m].child /\ new.supervisor
  BY <1>0 DEF Record
<1>2. TypeOK'
  <2>1. record' \in [Run -> Record] /\ copy' \in [Task -> Record] /\ pc' \in [Task -> Pc]
    BY <1>0, <1>1 DEF TypeOK, Pc
  <2>2. QED
    BY <1>0, <2>1 DEF TypeOK, slot, groups, supervisors
<1>3. pc'[t] = "publishing" /\ copy'[t] = new /\ record'[m] = new
  BY <1>0 DEF TypeOK
<1>4. OwnStep(t, m)
  BY <1>0, OwnStepOfCall DEF TypeOK, supervisors
<1>5. Unfinished(m)'
  BY <1>0, <1>1, <1>3 DEF Unfinished, Readable
<1>6. Driven(t, m)'
  BY <1>0, <1>1, <1>3, <1>5 DEF Driven, Owned, supervisors
<1>7. RunRule(m)' /\ Attended(m)'
  <2>1. Executing(m)' = Executing(m) /\ (Watchful => ~Executing(m))
    BY <1>0 DEF RunRule, Watched, Executing, groups
  <2>2. mine' = mine /\ supervisor'[m] = "killed" /\ record[m].state \notin {"none", "unreadable"}
    BY <1>0 DEF Open, supervisors
  <2>3. RunRule(m)'
    BY <1>0, <1>1, <1>3, <2>1, <2>2 DEF RunRule, Recorded, Authorized, Writing, Launched
  <2>4. Attended(m)'
    BY <1>1, <1>3, <2>2 DEF Attended
  <2>5. QED
    BY <2>3, <2>4
<1>8. (todo[t] # {} => pc[t] \in {"reconciled", "adopting", "releasing"})'
  BY <1>0 DEF IInv, CallInv
<1>9. HoldInv'
  BY <1>0, <1>1, <1>3, <1>4, OwnHolds
<1>10. QED
  BY <1>0, <1>2, <1>4, <1>6, <1>7, <1>8, <1>9, OwnKeeps

LEMMA AdoptKeeps ==
  ASSUME IInv, NEW t \in Task, NEW m \in Run, Adopt(t, m)
  PROVE  IInv'
<1> DEFINE new == Adopted(m)
<1>0. /\ TypeOK /\ RunRule(m) /\ Attended(m) /\ pc[t] = "reconciled" /\ m \in todo[t] /\ mine[t] = NoRun
      /\ Adoptable(t, m)
      /\ record[m] \in Record
      /\ pc' = [pc EXCEPT ![t] = "adopting"]
      /\ record' = [record EXCEPT ![m] = new]
      /\ copy' = [copy EXCEPT ![t] = new]
      /\ mine' = [mine EXCEPT ![t] = m]
      /\ todo' = [todo EXCEPT ![t] = @ \ {m}]
      /\ UNCHANGED <<slot, alive, supervisors, groups>>
  BY DEF IInv, Adopt, Moves, Write, RunInv, CallInv, TypeOK
<1>o. /\ record[m].state \in Open /\ supervisor[m] \in Gone /\ ~LeaderLives(m)
      /\ record[m].owner = process[t]
  BY <1>0, OpenRuns DEF Adoptable
<1>1. /\ new \in Record /\ new.state \in Open
      /\ new.state = record[m].state \/ new.state = "executionCompleted"
      /\ new.owner = record[m].owner /\ new.child = record[m].child /\ new.supervisor = record[m].supervisor
      /\ new.quarantined = record[m].quarantined /\ new.descendantsGone = record[m].descendantsGone
  <2>1. CASE Rank[record[m].state] < Rank.launchAuthorized
    <3>1. new = [record[m] EXCEPT !.quarantined = @ \/ FALSE]
      BY <1>o, <2>1 DEF Adopted
    <3>2. (record[m].quarantined \/ FALSE) = record[m].quarantined
      BY <1>0 DEF Record
    <3>3. QED
      BY <1>0, <1>o, <3>1, <3>2 DEF Record
  <2>2. CASE ~(Rank[record[m].state] < Rank.launchAuthorized)
    <3>1. new = [record[m] EXCEPT !.state = "executionCompleted"]
      BY <1>o, <2>2 DEF Adopted, Finished, Open
    <3>2. QED
      BY <1>0, <3>1 DEF Record, Open, Rank
  <2>3. QED
    BY <2>1, <2>2
<1>2. TypeOK'
  <2>1. /\ record' \in [Run -> Record] /\ copy' \in [Task -> Record] /\ pc' \in [Task -> Pc]
        /\ mine' \in [Task -> Run \cup {NoRun}] /\ todo' \in [Task -> SUBSET Run]
    BY <1>0, <1>1 DEF TypeOK, Pc
  <2>2. \A u \in Task : mine'[u] = NoRun <=> pc'[u] \in {"idle", "reconciled", "dead"}
    BY <1>0, ConstantsAssumption DEF TypeOK
  <2>3. QED
    BY <1>0, <2>1, <2>2 DEF TypeOK, slot, groups, supervisors
<1>3. /\ pc'[t] = "adopting" /\ copy'[t] = new /\ record'[m] = new
      /\ mine'[t] = m /\ todo'[t] = todo[t] \ {m}
  BY <1>0 DEF TypeOK
<1>4. OwnStep(t, m)
  <2>1. \A u \in Task : u # t => mine[u] # m /\ m \notin todo[u]
    BY <1>0 DEF IInv, ClaimInv
  <2>2. QED
    BY <1>0, <1>3, <2>1 DEF OwnStep, TypeOK, supervisors
<1>5. Unfinished(m) /\ Unfinished(m)'
  BY <1>0, <1>1, <1>2, <1>3, OpenRunsNext DEF Adoptable
<1>6. Driven(t, m)'
  BY <1>o, <1>1, <1>3, <1>5, <1>0 DEF Driven, Owned, supervisors
<1>7. RunRule(m)' /\ Attended(m)'
  <2>1. Executing(m)' = Executing(m) /\ supervisor'[m] = supervisor[m]
    BY <1>0 DEF Executing, groups, supervisors
  <2>2. Executing(m) /\ Watched(m) => Watched(m)'
    BY <1>0, <1>o, <1>1, <1>3, <2>1 DEF RunRule, Watched, Gone, Open
  <2>3. Executing(m) => Authorized(m)'
    BY <1>0, <1>o, <1>1, <1>3 DEF RunRule, Authorized
  <2>4. QED
    BY <1>0, <1>o, <1>1, <1>3, <2>1, <2>2, <2>3 DEF RunRule, Attended, Recorded, Writing, Launched, Gone, Open
<1>8. HoldInv'
  <2>1. ~Supervised(m)'
    <3>1. ASSUME NEW u \in Task, mine'[u] = m
          PROVE  u = t
      BY <1>4, <3>1 DEF OwnStep
    <3>2. QED
      BY <1>3, <3>1 DEF Supervised
  <2>2. ~Live(m)'
    BY <1>0, <1>o, <2>1 DEF Live, Gone, Writing, supervisors
  <2>3. Engaged(m)' => Engaged(m)
    BY <1>1, <1>3, <1>5, <2>2 DEF Engaged, Standing
  <2>4. QED
    BY <1>0, <1>1, <1>3, <1>4, <1>5, <2>3, OwnHolds
<1>9. QED
  BY <1>2, <1>3, <1>4, <1>6, <1>7, <1>8, OwnKeeps

\* What executes under a supervisor that is not lost is engaged: watched, or
\* quarantined and not known to be over.
LEMMA ExecutingIsEngaged ==
  ASSUME IInv, Watchful, NEW q \in Run, Executing(q)
  PROVE  /\ Engaged(q)
         /\ Unfinished(q) \/ Finished(q)
         /\ supervisor[q] = "watching" \/ (supervisor[q] = "exited" /\ record[q].quarantined)
<1>0. TypeOK /\ RunRule(q) /\ Watched(q) /\ Authorized(q)
  BY DEF IInv, RunInv, RunRule
<1>1. CASE supervisor[q] = "watching"
  <2>1. record[q].state = "launchAuthorized"
    BY <1>0, <1>1 DEF RunRule, Recorded, Launched
  <2>2. Unfinished(q)
    BY <1>0, <2>1, OpenRuns DEF Open
  <2>3. QED
    BY <1>1, <2>2 DEF Engaged, Live, Writing
<1>2. CASE supervisor[q] # "watching"
  <2>1. /\ supervisor[q] = "exited" /\ record[q].child /\ record[q].quarantined
        /\ record[q].descendantsGone = "no"
    BY <1>0, <1>2 DEF Watched, Authorized
  <2>2. StillAttributable(q)
    BY <2>1 DEF StillAttributable, LeaderLives, Executing
  <2>3. QED
    BY <2>1, <2>2, QuarantinedIsOfRun DEF Engaged, Standing
<1>3. QED
  BY <1>1, <1>2

\* The one place of the root is enough: all quarantined runs are one.
LEMMA OneQuarantined ==
  ASSUME IInv, OneUnconfirmed, NEW r \in Run, NEW q \in Run,
         record[r].quarantined, record[q].quarantined
  PROVE  r = q
BY QuarantinedIsOfRun DEF OneUnconfirmed

\* With every directory in order, what executes has the slot or the root.
LEMMA Covers ==
  ASSUME IInv, Watchful, OneUnconfirmed, "prepareCrash" \notin Faults, NEW q \in Run, Executing(q)
  PROVE  q \in {active, quarantine}
<1>1. Uncertain = {}
  BY DEF Uncertain, IInv, RunInv, RunRule
<1>2. QED
  BY <1>1, ExecutingIsEngaged DEF IInv, HoldInv, HoldsRule

\* What publishing finishes stands quarantined as it did, or is over.
LEMMA PublishKeeps ==
  ASSUME IInv, NEW t \in Task, Publish(t)
  PROVE  IInv'
<1>m. PICK m \in Run : m = mine[t]
  BY OwnRun DEF Publish
<1> DEFINE new == [copy[t] EXCEPT !.state = "completed"]
<1>0. /\ TypeOK /\ m \in Run /\ m # NoRun /\ Driven(t, m) /\ RunRule(m) /\ Attended(m)
      /\ Unfinished(m) /\ record[m].state \in Open
      /\ m = mine[t] /\ pc[t] \in {"publishing", "adopting"}
      /\ record[m] \in Record
      /\ pc' = [pc EXCEPT ![t] = "releasing"]
      /\ record' = [record EXCEPT ![m] = new]
      /\ copy' = [copy EXCEPT ![t] = NoRecord]
      /\ UNCHANGED <<slot, alive, mine, todo, supervisors, groups>>
      /\ \A u \in Task : u # t => mine[u] # m
  BY <1>m, OwnRun DEF IInv, Publish, Write
<1>o. copy[t] = record[m] /\ supervisor[m] \in Gone \cup {"killed"}
  BY <1>0 DEF Driven
<1>1. /\ new \in Record /\ new.state = "completed" /\ new.owner = record[m].owner
      /\ new.child = record[m].child /\ new.supervisor = record[m].supervisor
      /\ new.quarantined = record[m].quarantined /\ new.descendantsGone = record[m].descendantsGone
  BY <1>0, <1>o DEF Record, Rank
<1>2. TypeOK'
  <2>1. NoRecord \in Record
    BY DEF Record, NoRecord, Rank, Evidence
  <2>2. record' \in [Run -> Record] /\ copy' \in [Task -> Record] /\ pc' \in [Task -> Pc]
    BY <1>0, <1>1, <2>1 DEF TypeOK, Pc
  <2>3. QED
    BY <1>0, <2>2 DEF TypeOK, slot, groups, supervisors
<1>3. pc'[t] = "releasing" /\ record'[m] = new /\ mine' = mine
  BY <1>0 DEF TypeOK
<1>4. OwnStep(t, m)
  BY <1>0, OwnStepOfCall DEF TypeOK, supervisors
<1>5. ~Unfinished(m)' /\ Finished(m)'
  BY <1>1, <1>3 DEF Unfinished, Finished
<1>6. Driven(t, m)'
  BY <1>1, <1>3 DEF Driven, Finished
<1>7. RunRule(m)' /\ Attended(m)'
  <2>1. Executing(m)' = Executing(m) /\ supervisor' = supervisor
    BY <1>0, <1>3 DEF Executing, groups, supervisors
  <2>2. /\ Executing(m) /\ Watched(m) => Watched(m)'
        /\ Authorized(m) => Authorized(m)'
    BY <1>0, <1>o, <1>1, <1>3, <2>1 DEF RunRule, Watched, Authorized, Gone
  <2>3. RunRule(m)'
    BY <1>0, <1>o, <1>1, <1>3, <2>1, <2>2 DEF RunRule, Recorded, Writing, Launched, Gone, Open
  <2>4. supervisor[m] \notin Gone => record[m].supervisor
    BY <1>0 DEF Attended
  <2>5. Attended(m)'
    BY <1>1, <1>3, <2>1, <2>4 DEF Attended
  <2>6. QED
    BY <2>3, <2>5
<1>8. (todo[t] # {} => pc[t] \in {"reconciled", "adopting", "releasing"})'
  BY <1>0, <1>3 DEF IInv, CallInv
<1>9. HoldInv'
  <2>1. ~Live(m)'
    BY <1>5 DEF Live
  <2>2. Engaged(m)' => Engaged(m)
    BY <1>0, <1>1, <1>3, <2>1 DEF Engaged, Standing
  <2>3. QED
    BY <1>0, <1>1, <1>3, <1>4, <2>2, OwnHolds
<1>10. QED
  BY <1>0, <1>2, <1>3, <1>4, <1>6, <1>7, <1>8, <1>9, OwnKeeps

\* A call that could not publish releases its run unfinished, or as a recovery
\* drops it, with what else it had adopted, still in its process's name.
LEMMA PublishFailsKeeps ==
  ASSUME IInv, NEW t \in Task, PublishFails(t)
  PROVE  IInv'
<1>m. PICK m \in Run : m = mine[t]
  BY OwnRun DEF PublishFails, Moves
<1>0. /\ TypeOK /\ m \in Run /\ m # NoRun /\ Driven(t, m) /\ RunRule(m) /\ Attended(m)
      /\ Unfinished(m) /\ record[m].state \in Open
      /\ m = mine[t] /\ m \notin todo[t] /\ pc[t] \in {"publishing", "adopting"}
      /\ UNCHANGED <<slot, record, alive, supervisors, groups>>
      /\ copy' = [copy EXCEPT ![t] = NoRecord]
      /\ \A u \in Task : u # t => mine[u] # m /\ m \notin todo[u]
  BY <1>m, OwnRun DEF IInv, PublishFails, Moves
<1>o. copy[t] = record[m] /\ supervisor[m] \in Gone \cup {"killed"} /\ Owned(t, m)
  BY <1>0 DEF Driven
<1>f. "publishFails" \in Faults
  BY <1>0, <1>o DEF PublishFails, Open
<1>1. \/ /\ pc' = [pc EXCEPT ![t] = "releasing"] /\ UNCHANGED <<mine, todo>>
      \/ /\ pc' = [pc EXCEPT ![t] = "idle"]
         /\ mine' = [mine EXCEPT ![t] = NoRun]
         /\ todo' = [todo EXCEPT ![t] = {}]
  BY DEF PublishFails, Moves
<1>2. TypeOK'
  <2>1. NoRecord \in Record
    BY DEF Record, NoRecord, Rank, Evidence
  <2>2. copy' \in [Task -> Record] /\ pc' \in [Task -> Pc]
    BY <1>0, <1>1, <2>1 DEF TypeOK, Pc
  <2>3. mine' \in [Task -> Run \cup {NoRun}] /\ todo' \in [Task -> SUBSET Run]
    BY <1>0, <1>1 DEF TypeOK
  <2>4. \A u \in Task : mine'[u] = NoRun <=> pc'[u] \in {"idle", "reconciled", "dead"}
    BY <1>0, <1>1 DEF TypeOK
  <2>5. QED
    BY <1>0, <2>2, <2>3, <2>4 DEF TypeOK, slot, groups, supervisors
<1>3. /\ pc'[t] \in {"releasing", "idle"}
      /\ pc'[t] = "idle" => mine'[t] = NoRun /\ todo'[t] = {}
      /\ mine'[t] \in {NoRun, m} /\ todo'[t] \subseteq todo[t] \ {m}
      /\ \A u \in Task : u # t =>
           pc'[u] = pc[u] /\ mine'[u] = mine[u] /\ todo'[u] = todo[u] /\ copy'[u] = copy[u]
  BY <1>0, <1>1 DEF TypeOK
<1>4. OwnStep(t, m)
  BY <1>0, <1>3 DEF OwnStep, supervisors
<1>5. Unfinished(m)'
  BY <1>0 DEF Unfinished, Readable
<1>6. mine'[t] = m => Driven(t, m)'
  BY <1>0, <1>o, <1>f, <1>3, <1>5 DEF Driven, Owned, supervisors
<1>7. RunRule(m)' /\ Attended(m)'
  <2>1. RunRule(m)'
    BY <1>0 DEF RunRule, Recorded, Authorized, Watched, Executing, supervisors, groups
  <2>2. supervisor[m] \in Gone \/ record[m].supervisor
    BY <1>0 DEF Attended
  <2>3. QED
    BY <1>0, <2>1, <2>2 DEF Attended, supervisors
<1>8. HoldInv'
  <2>1. ~Supervised(m)'
    BY <1>0, <1>3, ConstantsAssumption DEF Supervised
  <2>2. ~Live(m)'
    BY <1>0, <1>o, <2>1 DEF Live, Gone, Writing, supervisors
  <2>3. Engaged(m)' => Engaged(m)
    BY <1>0, <2>2 DEF Engaged, Standing
  <2>4. QED
    BY <1>0, <1>4, <2>3, OwnHolds
<1>9. (todo[t] # {} => pc[t] \in {"reconciled", "adopting", "releasing"})'
  BY <1>3
<1>10. QED
  BY <1>0, <1>2, <1>3, <1>4, <1>6, <1>7, <1>8, <1>9, OwnKeeps

\* A run is released by the call that was through with it: to the root, if it is
\* quarantined.
LEMMA ReleaseKeeps ==
  ASSUME IInv, NEW t \in Task, Release(t)
  PROVE  IInv'
<1>m. PICK m \in Run : m = mine[t]
  BY OwnRun DEF Release, Moves
<1>0. /\ TypeOK /\ m \in Run /\ m # NoRun /\ Driven(t, m) /\ RunRule(m) /\ Attended(m)
      /\ m = mine[t] /\ pc[t] = "releasing"
      /\ pc' = [pc EXCEPT ![t] = "reconciled"]
      /\ mine' = [mine EXCEPT ![t] = NoRun]
      /\ active' = IF active = m THEN NoRun ELSE active
      /\ quarantine' = IF record[m].quarantined /\ quarantine = NoRun THEN m ELSE quarantine
      /\ UNCHANGED <<record, alive, todo, copy, supervisors, groups>>
  BY <1>m, OwnRun DEF IInv, Release, Moves
<1>1. /\ Finished(m) \/ ("publishFails" \in Faults /\ Owned(t, m) /\ supervisor[m] \in Gone \cup {"killed"})
      /\ Stored => Finished(m) /\ ~Unfinished(m)
  BY <1>0 DEF Driven, Finished, Unfinished, Stored
<1>2. TypeOK'
  <2>1. \A u \in Task : mine'[u] = NoRun <=> pc'[u] \in {"idle", "reconciled", "dead"}
    BY <1>0, ConstantsAssumption DEF TypeOK
  <2>2. QED
    BY <1>0, <2>1 DEF TypeOK, Pc, groups, supervisors
<1>3. pc'[t] = "reconciled" /\ mine'[t] = NoRun
  BY <1>0 DEF TypeOK
<1>4. OwnStep(t, m)
  BY <1>0, OwnStepOfCall DEF TypeOK, supervisors
<1>5. \A q \in Run : /\ Unfinished(q)' = Unfinished(q) /\ Finished(q)' = Finished(q)
                     /\ StillAttributable(q)' = StillAttributable(q)
                     /\ Executing(q)' = Executing(q) /\ Standing(q)' = Standing(q)
  BY <1>0 DEF Unfinished, Readable, Finished, StillAttributable, LeaderLives, SupervisorLives,
              Executing, Standing, supervisors, groups
<1>6. \A q \in Run : q = m => RunRule(q)' /\ Attended(q)'
  <2> SUFFICES ASSUME NEW q \in Run, q = m
               PROVE  RunRule(q)' /\ Attended(q)'
    OBVIOUS
  <2>1. RunRule(q)'
    BY <1>0 DEF RunRule, Recorded, Authorized, Watched, Executing, supervisors, groups
  <2>2. \A u \in Task : mine[u] = m => u = t
    BY <1>0 DEF IInv, ClaimInv
  <2>3. supervisor[q] \in Gone \/ record[q].supervisor
    BY <1>0, <2>2 DEF Attended
  <2>4. QED
    BY <1>0, <2>1, <2>3 DEF Attended, supervisors
<1>7. ASSUME NEW q \in Run, Engaged(q)'
      PROVE  Engaged(q) /\ (q = m => record[m].quarantined)
  <2>1. CASE q # m
    BY <1>4, <1>7, <2>1, OwnFrame
  <2>2. CASE q = m
    <3>1. ~Supervised(m)'
      BY <1>0, <1>3, OwnRun, ConstantsAssumption DEF Supervised, OwnStep, IInv, ClaimInv, TypeOK
    <3>2. ~Live(m)'
      BY <1>0, <1>1, <1>5, <3>1 DEF Live, Unfinished, Finished, Gone, Writing, supervisors
    <3>3. QED
      BY <1>0, <1>5, <1>7, <2>2, <3>2 DEF Engaged, Standing
  <2>3. QED
    BY <2>1, <2>2
<1>8. HoldInv'
  <2> SUFFICES ASSUME OneUnconfirmed
               PROVE  HoldsRule(active, quarantine)' /\ AloneInv'
    BY DEF HoldInv
  <2>0. /\ HoldsRule(active, quarantine) /\ AloneInv /\ quarantine \in Run \cup {NoRun}
        /\ Uncertain' = Uncertain /\ NoRun \notin Uncertain
    BY <1>0, ConstantsAssumption DEF IInv, HoldInv, Uncertain, TypeOK
  <2>1. ASSUME NEW q \in Run, Engaged(q)'
        PROVE  q \in {active', quarantine'} \/ quarantine' \in Uncertain
    <3>1. (q \in {active, quarantine} \/ quarantine \in Uncertain) /\ q # NoRun
      BY <1>7, <2>0, <2>1, ConstantsAssumption DEF HoldsRule
    <3>2. CASE q = quarantine \/ quarantine \in Uncertain
      BY <1>0, <2>0, <3>1, <3>2
    <3>3. CASE q = active /\ active # m
      BY <1>0, <3>3
    <3>4. CASE q = active /\ active = m
      <4>1. record[q].quarantined
        BY <1>7, <2>1, <3>4
      <4>2. CASE quarantine = NoRun
        BY <1>0, <3>4, <4>1, <4>2
      <4>3. CASE quarantine # NoRun /\ quarantine \notin Uncertain
        <5>1. quarantine \in Run /\ record[quarantine].quarantined
          BY <2>0, <4>3 DEF HoldsRule
        <5>2. q = quarantine
          BY <4>1, <5>1, OneQuarantined
        <5>3. QED
          BY <3>2, <5>2
      <4>4. QED
        BY <3>2, <4>2, <4>3
    <3>5. QED
      BY <3>1, <3>2, <3>3, <3>4
  <2>2. ASSUME quarantine' # NoRun
        PROVE  active' # quarantine' /\ (record'[quarantine'].quarantined \/ quarantine' \in Uncertain)
    BY <1>0, <2>0, <2>2 DEF HoldsRule
  <2>3. ASSUME Stored, NEW q \in Run, Unfinished(q)'
        PROVE  active' = q
    BY <1>0, <1>1, <1>5, <2>0, <2>3 DEF HoldsRule
  <2>4. AloneInv'
    BY <1>7, <2>0 DEF AloneInv
  <2>5. QED
    BY <2>0, <2>1, <2>2, <2>3, <2>4 DEF HoldsRule
<1>10. QED
  BY <1>0, <1>2, <1>3, <1>4, <1>6, <1>8, OwnKeeps

\* With neither the slot nor the root held, no run is engaged.
LEMMA FreeRoot ==
  ASSUME IInv, OneUnconfirmed, slot = <<NoRun, NoRun>>, NEW q \in Run
  PROVE  ~Engaged(q) /\ (Stored => ~Unfinished(q))
<1>1. /\ active = NoRun /\ quarantine = NoRun /\ q # NoRun /\ NoRun \notin Uncertain
      /\ HoldsRule(active, quarantine)
  BY ConstantsAssumption DEF slot, IInv, HoldInv, Uncertain
<1>2. QED
  BY <1>1 DEF HoldsRule

LEMMA AdmitKeeps ==
  ASSUME IInv, NEW t \in Task, NEW m \in Run, Admit(t, m)
  PROVE  IInv'
<1> DEFINE new == [NoRecord EXCEPT !.state = "admitted", !.owner = process[t]]
<1>0. /\ TypeOK /\ RunRule(m) /\ pc[t] = "reconciled" /\ mine[t] = NoRun /\ todo[t] = {}
      /\ slot = <<NoRun, NoRun>> /\ record[m].state = "none"
      /\ pc' = [pc EXCEPT ![t] = "admitted"]
      /\ mine' = [mine EXCEPT ![t] = m]
      /\ record' = [record EXCEPT ![m] = new]
      /\ active' = m
      /\ UNCHANGED <<quarantine, alive, todo, copy, supervisors, groups>>
      /\ m # NoRun /\ active = NoRun /\ quarantine = NoRun
  BY ConstantsAssumption DEF IInv, Admit, Moves, Write, RunInv, TypeOK, slot
<1>1. /\ new \in Record /\ new.state = "admitted" /\ new.owner = process[t]
      /\ ~new.child /\ ~new.supervisor /\ ~new.quarantined
  BY ConstantsAssumption DEF Record, NoRecord, Rank, Evidence
<1>2. TypeOK'
  <2>1. /\ record' \in [Run -> Record] /\ pc' \in [Task -> Pc]
        /\ mine' \in [Task -> Run \cup {NoRun}]
    BY <1>0, <1>1 DEF TypeOK, Pc
  <2>2. \A u \in Task : mine'[u] = NoRun <=> pc'[u] \in {"idle", "reconciled", "dead"}
    BY <1>0 DEF TypeOK
  <2>3. QED
    BY <1>0, <2>1, <2>2 DEF TypeOK, groups, supervisors
<1>3. pc'[t] = "admitted" /\ record'[m] = new /\ mine'[t] = m
  BY <1>0 DEF TypeOK
<1>o. supervisor[m] = "none" /\ ~Unfinished(m) /\ ~Finished(m) /\ ~Executing(m)
  BY <1>0, OpenRuns DEF RunRule, Authorized, Finished, Open
<1>4. OwnStep(t, m)
  <2>1. \A u \in Task : m \notin todo[u]
    BY <1>o DEF IInv, CallInv, Adoptable
  <2>2. \A u \in Task : mine[u] # m
    BY <1>0, <1>o DEF IInv, CallInv, Driven, Owned
  <2>3. QED
    BY <1>0, <1>3, <2>1, <2>2 DEF OwnStep, TypeOK, supervisors
<1>5. Unfinished(m)' /\ ~Finished(m)'
  BY <1>1, <1>3, Stages DEF Unfinished, Readable, Finished, Rank
<1>6. Driven(t, m)'
  BY <1>0, <1>o, <1>1, <1>3, <1>5 DEF Driven, Owned, supervisors
<1>7. RunRule(m)' /\ Attended(m)'
  <2>1. ~Executing(m)' /\ supervisor'[m] = "none"
    BY <1>0, <1>o, <1>4, OwnFrame DEF supervisors
  <2>2. QED
    BY <1>1, <1>3, <2>1 DEF RunRule, Attended, Recorded, Writing, Launched, Gone
<1>8. HoldInv'
  <2> SUFFICES ASSUME OneUnconfirmed
               PROVE  HoldsRule(active, quarantine)' /\ AloneInv'
    BY DEF HoldInv
  <2>1. \A q \in Run : Engaged(q)' => q = m
    BY <1>0, <1>4, OwnFrame, FreeRoot
  <2>2. \A q \in Run : Stored /\ Unfinished(q)' => q = m
    BY <1>0, <1>4, OwnFrame, FreeRoot
  <2>3. HoldsRule(active, quarantine)'
    BY <1>0, <2>1, <2>2 DEF HoldsRule
  <2>4. QED
    BY <2>1, <2>3 DEF AloneInv
<1>10. QED
  BY <1>0, <1>2, <1>3, <1>4, <1>6, <1>7, <1>8, OwnKeeps

-----------------------------------------------------------------------------
\* What the slot bookkeeping of a pass does: it quarantines, or gives back.
LEMMA BooksSteps ==
  ASSUME TypeOK, KeepBooks
  PROVE  /\ active' \in Run \cup {NoRun} /\ quarantine' \in Run \cup {NoRun}
         /\ \/ Uncertain # {} /\ active' = NoRun /\ quarantine' \in Uncertain
            \/ /\ Uncertain = {} /\ Quarantining # {}
               /\ active' = NoRun /\ quarantine' \in Quarantining
            \/ /\ Uncertain = {} /\ Quarantining = {}
               /\ \/ active' = active
                  \/ /\ active' = NoRun /\ active \notin Finalizable \cup {NoRun}
                     /\ record[active].state \in {"none", "completed"}
               /\ \/ quarantine' = quarantine
                  \/ quarantine' = NoRun /\ quarantine # NoRun /\ CanClear(quarantine)
<1>1. Uncertain \subseteq Run /\ Quarantining \subseteq Run
  BY DEF Uncertain, Quarantining
<1>2. CASE Uncertain # {}
  BY <1>1, <1>2 DEF KeepBooks
<1>3. CASE Uncertain = {} /\ Quarantining # {}
  BY <1>1, <1>3 DEF KeepBooks
<1>4. CASE Uncertain = {} /\ Quarantining = {}
  BY <1>4 DEF KeepBooks, TypeOK
<1>5. QED
  BY <1>2, <1>3, <1>4

\* The bookkeeping keeps the rule of the holds: none but the quarantined run is
\* engaged when the root is quarantined, and nothing engaged is given back.
LEMMA BooksKeep ==
  ASSUME IInv, OneUnconfirmed, KeepBooks
  PROVE  HoldsRule(active', quarantine')
<1>0. TypeOK /\ HoldsRule(active, quarantine) /\ NoRun \notin Run
  BY ConstantsAssumption DEF IInv, HoldInv
<1>1. CASE Uncertain # {} /\ active' = NoRun /\ quarantine' \in Uncertain
  <2>1. ~Stored
    BY <1>1 DEF Uncertain, IInv, RunInv, RunRule, Stored
  <2>2. quarantine' # NoRun
    BY <1>0, <1>1 DEF Uncertain
  <2>3. QED
    BY <1>1, <2>1, <2>2 DEF HoldsRule
<1>2. CASE /\ Uncertain = {} /\ Quarantining # {}
           /\ active' = NoRun /\ quarantine' \in Quarantining
  <2>1. /\ quarantine' \in Run /\ Finished(quarantine') /\ record[quarantine'].quarantined
        /\ quarantine = NoRun /\ Engaged(quarantine')
    BY <1>2 DEF Quarantining, Engaged, Standing
  <2>2. active = quarantine'
    BY <1>0, <1>2, <2>1 DEF HoldsRule
  <2>3. \A r \in Run : Engaged(r) => r = quarantine'
    BY <1>0, <1>2, <2>1, <2>2 DEF HoldsRule
  <2>4. Stored => \A r \in Run : ~Unfinished(r)
    BY <1>0, <2>1, <2>2 DEF HoldsRule, Unfinished, Finished
  <2>5. QED
    BY <1>0, <1>2, <2>1, <2>3, <2>4 DEF HoldsRule
<1>3. CASE /\ Uncertain = {} /\ Quarantining = {}
           /\ \/ active' = active
              \/ /\ active' = NoRun /\ active \notin Finalizable \cup {NoRun}
                 /\ record[active].state \in {"none", "completed"}
           /\ \/ quarantine' = quarantine
              \/ quarantine' = NoRun /\ quarantine # NoRun /\ CanClear(quarantine)
  <2>1. ASSUME NEW r \in Run, Unfinished(r)
        PROVE  record[r].state \notin {"none", "completed"}
    BY <1>0, <2>1, OpenRuns DEF Open
  <2>2. ASSUME NEW r \in Run, Engaged(r), r = active
        PROVE  r \in {active', quarantine'}
    <3>1. CASE Unfinished(r)
      BY <1>3, <2>1, <2>2, <3>1
    <3>2. CASE ~Unfinished(r)
      <4>1. Finished(r) /\ record[r].quarantined /\ StillAttributable(r)
        BY <2>2, <3>2, QuarantinedIsOfRun DEF Engaged, Live, Standing
      <4>2. quarantine # NoRun
        BY <1>3, <4>1 DEF Quarantining
      <4>3. quarantine \in Run /\ record[quarantine].quarantined /\ active # quarantine
        BY <1>0, <1>3, <4>2 DEF HoldsRule, TypeOK
      <4>4. QED
        BY <2>2, <4>1, <4>3, OneQuarantined
    <3>3. QED
      BY <3>1, <3>2
  <2>3. ASSUME NEW r \in Run, Engaged(r), r = quarantine
        PROVE  r = quarantine'
    <3>1. quarantine \in Run /\ record[quarantine].quarantined
      BY <1>0, <1>3, <2>3 DEF HoldsRule
    <3>2. record[quarantine].state # "none"
      BY <3>1, QuarantinedIsOfRun DEF IInv, RunInv, RunRule
    <3>3. ~CanClear(quarantine)
      BY <2>3, <3>2 DEF CanClear, Engaged, Live, Standing, Unfinished, Finished
    <3>4. QED
      BY <1>3, <2>3, <3>3
  <2>4. \A r \in Run : Engaged(r) => r \in {active', quarantine'}
    BY <1>0, <1>3, <2>2, <2>3 DEF HoldsRule
  <2>5. quarantine' # NoRun => active' # quarantine' /\ record[quarantine'].quarantined
    BY <1>0, <1>3 DEF HoldsRule
  <2>6. Stored => \A r \in Run : Unfinished(r) => active' = r
    BY <1>0, <1>3, <2>1 DEF HoldsRule
  <2>7. QED
    BY <2>4, <2>5, <2>6 DEF HoldsRule
<1>4. QED
  BY <1>0, <1>1, <1>2, <1>3, BooksSteps

\* What is read of a run is the same if its record and its processes are.
LEMMA SameRun ==
  ASSUME NEW r \in Run, record'[r] = record[r], supervisor'[r] = supervisor[r], held'[r] = held[r],
         leader'[r] = leader[r], offspring'[r] = offspring[r]
  PROVE  /\ Unfinished(r)' = Unfinished(r) /\ Finished(r)' = Finished(r)
         /\ StillAttributable(r)' = StillAttributable(r)
         /\ LeaderLives(r)' = LeaderLives(r)
         /\ Executing(r)' = Executing(r) /\ Standing(r)' = Standing(r)
         /\ RunRule(r)' = RunRule(r)
BY DEF Unfinished, Readable, Finished, StillAttributable, LeaderLives, SupervisorLives, Standing,
       Executing, RunRule, Recorded, Authorized, Watched

LEMMA GlanceKeeps ==
  ASSUME IInv, Glance
  PROVE  IInv'
<1>0. /\ TypeOK /\ CallInv /\ ClaimInv /\ RunInv /\ HoldInv
      /\ KeepBooks /\ UNCHANGED <<record, alive, pc, mine, todo, copy, supervisor, held, leader, offspring>>
  BY DEF IInv, Glance, calls, supervisors, groups
<1>1. TypeOK'
  BY <1>0, BooksSteps DEF TypeOK
<1>2. \A r \in Run : /\ Unfinished(r)' = Unfinished(r) /\ Finished(r)' = Finished(r)
                     /\ LeaderLives(r)' = LeaderLives(r)
                     /\ Standing(r)' = Standing(r) /\ RunRule(r)' = RunRule(r)
  BY <1>0, SameRun
<1>3. \A r \in Run : Engaged(r)' = Engaged(r) /\ Attended(r)' = Attended(r)
  BY <1>0, <1>2 DEF Engaged, Live, Supervised, Attended
<1>4. CallInv' /\ ClaimInv'
  BY <1>0 DEF CallInv, ClaimInv, Adoptable, Driven, Owned, Unfinished, Readable, Finished, LeaderLives
<1>5. RunInv'
  BY <1>0, <1>2, <1>3 DEF RunInv
<1>6. HoldInv'
  BY <1>0, <1>2, <1>3, BooksKeep DEF HoldInv, HoldsRule, AloneInv, Uncertain
<1>7. QED
  BY <1>1, <1>4, <1>5, <1>6 DEF IInv

\* A call that only waits or turns to something else.
LEMMA IdleKeeps ==
  ASSUME IInv, NEW t \in Task, Defer(t) \/ Finish(t)
  PROVE  IInv'
<1>0. /\ TypeOK /\ CallInv /\ ClaimInv /\ RunInv /\ HoldInv
      /\ UNCHANGED <<active, quarantine, record, alive, mine, todo, copy, supervisor, held, leader, offspring>>
      /\ pc[t] \in {"idle", "reconciled"}
      /\ pc' = [pc EXCEPT ![t] = pc'[t]] /\ pc'[t] \in {"idle", "reconciled"}
      /\ todo[t] = {} /\ mine[t] = NoRun
  BY DEF IInv, Defer, Finish, Moves, slot, supervisors, groups, TypeOK, CallInv
<1>2. TypeOK'
  BY <1>0 DEF TypeOK, Pc
<1>3. \A r \in Run : /\ Unfinished(r)' = Unfinished(r) /\ Finished(r)' = Finished(r)
                     /\ LeaderLives(r)' = LeaderLives(r)
                     /\ Standing(r)' = Standing(r) /\ RunRule(r)' = RunRule(r)
  BY <1>0, SameRun
<1>4. ClaimInv'
  BY <1>0 DEF ClaimInv
<1>5. CallInv'
  BY <1>0, <1>3 DEF CallInv, Adoptable, Driven, Owned, TypeOK, Unfinished, Readable, Finished, LeaderLives
<1>6. RunInv'
  <2>1. ASSUME NEW r \in Run
        PROVE  Attended(r)'
    <3>1. Attended(r)
      BY <1>0 DEF RunInv
    <3>2. ASSUME NEW u \in Task, mine[u] = r, pc[u] \in {"supervising", "killing"}
          PROVE  pc'[u] \in {"supervising", "killing"}
      BY <1>0, <3>2 DEF TypeOK
    <3>3. QED
      BY <1>0, <3>1, <3>2 DEF Attended
  <2>2. QED
    BY <1>0, <1>3, <2>1 DEF RunInv
<1>7. HoldInv'
  <2>1. ASSUME NEW r \in Run, Engaged(r)'
        PROVE  Engaged(r)
    <3>1. Supervised(r)' => Supervised(r)
      BY <1>0 DEF Supervised, TypeOK
    <3>2. QED
      BY <1>0, <1>3, <2>1, <3>1 DEF Engaged, Live
  <2>2. QED
    BY <1>0, <1>3, <2>1, HoldFrame DEF slot, Uncertain
<1>8. QED
  BY <1>2, <1>4, <1>5, <1>6, <1>7 DEF IInv

\* What a call has claimed is owned by a process that lives.
LEMMA ClaimedIsOwned ==
  ASSUME IInv, NEW r \in Run, Unfinished(r), NEW u \in Task, mine[u] = r \/ r \in todo[u]
  PROVE  record[r].owner \in alive
<1>0. TypeOK /\ CallInv /\ r # NoRun
  BY ConstantsAssumption DEF IInv
<1>1. pc[u] # "dead"
  BY <1>0 DEF TypeOK, CallInv
<1>2. record[r].owner = process[u]
  BY <1>0 DEF CallInv, Driven, Owned, Adoptable, Unfinished, Finished
<1>3. QED
  BY <1>0, <1>1, <1>2 DEF CallInv

\* A run that nobody keeps busy is unclaimed, and nothing of it is in the way.
LEMMA FinalizableRuns ==
  ASSUME IInv, NEW r \in Run, r \in Finalizable
  PROVE  /\ Unfinished(r) /\ supervisor[r] \in Gone /\ ~LeaderLives(r)
         /\ \A u \in Task : mine[u] # r /\ r \notin todo[u]
<1>0. TypeOK /\ RunRule(r) /\ Attended(r) /\ Unfinished(r) /\ ~Busy(r)
  BY DEF IInv, RunInv, Finalizable
<1>1. record[r].owner \notin alive
  BY <1>0 DEF Busy
<1>2. \A u \in Task : mine[u] # r /\ r \notin todo[u]
  BY <1>0, <1>1, ClaimedIsOwned
<1>3. ~LeaderLives(r)
  BY <1>0 DEF Busy, LeaderLives, RunRule
<1>4. supervisor[r] \in Gone
  <2>1. supervisor[r] \notin Gone => record[r].supervisor
    BY <1>0, <1>2 DEF Attended
  <2>2. QED
    BY <1>0, <2>1 DEF Busy, SupervisorLives
<1>5. QED
  BY <1>0, <1>2, <1>3, <1>4

LEMMA ReconcileKeeps ==
  ASSUME IInv, NEW t \in Task, Reconcile(t)
  PROVE  IInv'
<1>0. /\ TypeOK /\ CallInv /\ ClaimInv /\ RunInv /\ HoldInv
      /\ KeepBooks
      /\ UNCHANGED <<alive, mine, copy, supervisor, held, leader, offspring>>
      /\ pc[t] = "idle" /\ pc' = [pc EXCEPT ![t] = "reconciled"]
      /\ todo' = [todo EXCEPT ![t] = Finalizable]
      /\ mine[t] = NoRun /\ todo[t] = {} /\ process[t] \in alive /\ process[t] \in Host
  BY ConstantsAssumption DEF IInv, Reconcile, Moves, supervisors, groups, TypeOK, CallInv
<1>1. active' \in Run \cup {NoRun} /\ quarantine' \in Run \cup {NoRun}
  BY <1>0, BooksSteps
<1>2. \A r \in Run :
        /\ record'[r] \in Record
        /\ r \notin Finalizable => record'[r] = record[r]
        /\ r \in Finalizable => record'[r].owner = process[t]
        /\ record'[r].state = record[r].state /\ record'[r].supervisor = record[r].supervisor
        /\ record'[r].child = record[r].child /\ record'[r].quarantined = record[r].quarantined
        /\ record'[r].descendantsGone = record[r].descendantsGone
  <2> SUFFICES ASSUME NEW r \in Run
               PROVE  /\ record'[r] \in Record
                      /\ r \notin Finalizable => record'[r] = record[r]
                      /\ r \in Finalizable => record'[r].owner = process[t]
                      /\ record'[r].state = record[r].state
                      /\ record'[r].supervisor = record[r].supervisor
                      /\ record'[r].child = record[r].child
                      /\ record'[r].quarantined = record[r].quarantined
                      /\ record'[r].descendantsGone = record[r].descendantsGone
    OBVIOUS
  <2>1. record[r] \in Record
    BY <1>0 DEF TypeOK
  <2>2. record'[r] = IF r \in Finalizable THEN [record[r] EXCEPT !.owner = process[t]] ELSE record[r]
    BY DEF Reconcile
  <2>3. QED
    BY <1>0, <2>1, <2>2 DEF Record
<1>3. /\ record' \in [Run -> Record]
      /\ Finalizable \subseteq Run
  <2>1. record' = [r \in Run |-> record'[r]]
    BY DEF Reconcile
  <2>2. QED
    BY <1>2, <2>1 DEF Finalizable
<1>4. TypeOK'
  BY <1>0, <1>1, <1>3 DEF TypeOK, Pc
<1>5. \A r \in Run : /\ Unfinished(r)' = Unfinished(r) /\ Finished(r)' = Finished(r)
                     /\ StillAttributable(r)' = StillAttributable(r)
                     /\ LeaderLives(r)' = LeaderLives(r)
                     /\ Executing(r)' = Executing(r) /\ Standing(r)' = Standing(r)
  BY <1>0, <1>2 DEF Unfinished, Readable, Finished, StillAttributable, LeaderLives, SupervisorLives,
                    Executing, Standing
<1>6. todo'[t] = Finalizable /\ \A u \in Task : u # t => todo'[u] = todo[u] /\ pc'[u] = pc[u]
  BY <1>0 DEF TypeOK
<1>7. ClaimInv'
  <2>1. \A u \in Task : \A r \in Finalizable : mine[u] # r /\ r \notin todo[u]
    BY <1>3, FinalizableRuns
  <2>2. QED
    BY <1>0, <1>6, <2>1 DEF ClaimInv
<1>8. CallInv'
  <2> SUFFICES ASSUME NEW u \in Task
               PROVE  /\ (pc[u] # "dead" => process[u] \in alive)'
                      /\ (todo[u] # {} => pc[u] \in {"reconciled", "adopting", "releasing"})'
                      /\ (\A q \in todo[u] : Adoptable(u, q))'
                      /\ (mine[u] # NoRun => Driven(u, mine[u]))'
    BY DEF CallInv
  <2>1. CASE u = t
    <3>1. pc'[t] = "reconciled"
      BY <1>0 DEF TypeOK
    <3>2. ASSUME NEW q \in Finalizable
          PROVE  Adoptable(t, q)'
      BY <1>0, <1>2, <1>3, <1>5, <3>2, FinalizableRuns DEF Adoptable
    <3>3. QED
      BY <1>0, <1>6, <2>1, <3>1, <3>2
  <2>2. CASE u # t
    <3>0. /\ pc[u] # "dead" => process[u] \in alive
          /\ todo[u] # {} => pc[u] \in {"reconciled", "adopting", "releasing"}
          /\ \A q \in todo[u] : Adoptable(u, q) /\ q \in Run
          /\ mine[u] # NoRun => Driven(u, mine[u]) /\ mine[u] \in Run
      BY <1>0 DEF CallInv, TypeOK
    <3>1. \A q \in Run : q \in todo[u] \/ q = mine[u] => record'[q] = record[q]
      BY <1>2, FinalizableRuns
    <3>2. ASSUME NEW q \in todo[u]
          PROVE  Adoptable(u, q)'
      BY <1>0, <1>5, <3>0, <3>1, <3>2 DEF Adoptable
    <3>3. ASSUME mine[u] # NoRun
          PROVE  Driven(u, mine[u])'
      <4>1. /\ Unfinished(mine[u])' = Unfinished(mine[u]) /\ Finished(mine[u])' = Finished(mine[u])
            /\ record'[mine[u]] = record[mine[u]]
        BY <1>0, <1>5, <3>0, <3>1, <3>3 DEF Unfinished, Readable, Finished
      <4>2. QED
        BY <1>0, <1>6, <2>2, <3>0, <3>3, <4>1 DEF Driven, Owned
    <3>4. QED
      BY <1>0, <1>6, <2>2, <3>0, <3>2, <3>3
  <2>3. QED
    BY <2>1, <2>2
<1>9. RunInv'
  <2> SUFFICES ASSUME NEW r \in Run
               PROVE  RunRule(r)' /\ Attended(r)'
    BY DEF RunInv
  <2>1. RunRule(r) /\ Attended(r)
    BY <1>0 DEF RunInv
  <2>2. supervisor[r] \in Writing => record'[r] = record[r]
    BY <1>2, FinalizableRuns DEF Writing, Gone
  <2>3. RunRule(r)'
    BY <1>0, <1>2, <1>5, <2>1, <2>2 DEF RunRule, Recorded, Authorized, Watched
  <2>4. ASSUME NEW u \in Task, mine[u] = r, pc[u] \in {"supervising", "killing"}
        PROVE  pc'[u] \in {"supervising", "killing"}
    BY <1>0, <1>6, <2>4
  <2>5. Attended(r)'
    BY <1>0, <1>2, <2>1, <2>4 DEF Attended
  <2>6. QED
    BY <2>3, <2>5
<1>10. HoldInv'
  <2>1. ASSUME NEW r \in Run, Engaged(r)'
        PROVE  Engaged(r)
    <3>1. Supervised(r)' => Supervised(r)
      BY <1>0, <1>6 DEF Supervised, TypeOK
    <3>2. QED
      BY <1>0, <1>5, <2>1, <3>1 DEF Engaged, Live
  <2>2. \A r \in Run : record'[r].quarantined = record[r].quarantined
    BY <1>2
  <2>3. Uncertain' = Uncertain
    BY <1>2 DEF Uncertain
  <2>4. OneUnconfirmed => HoldsRule(active', quarantine')
    BY <1>0, BooksKeep
  <2>5. OneUnconfirmed => HoldsRule(active, quarantine)'
    BY <1>1, <1>5, <2>1, <2>2, <2>3, <2>4 DEF HoldsRule
  <2>6. QED
    BY <1>0, <2>1, <2>5 DEF HoldInv, AloneInv
<1>12. QED
  BY <1>4, <1>7, <1>8, <1>9, <1>10 DEF IInv

\* A crash takes a process and its calls.  What they claimed stays as they left
\* it, and a supervisor they waited for is in its record by then.  At most it
\* leaves a directory without a record.
LEMMA DiesKeeps ==
  ASSUME IInv, Confined, NEW h \in Host, Dies(h), UNCHANGED <<slot, supervisors, groups>>,
         \/ UNCHANGED record
         \/ \E r \in Run : /\ record[r].state = "none" /\ "prepareCrash" \in Faults
                          /\ Write(r, [NoRecord EXCEPT !.state = "unreadable"])
  PROVE  IInv'
<1>0. /\ TypeOK /\ CallInv /\ ClaimInv /\ RunInv /\ HoldInv
      /\ UNCHANGED <<active, quarantine, supervisor, held, leader, offspring>>
      /\ alive' = alive \ {h}
      /\ ~InSpawnWindow(h)
  BY DEF IInv, Dies, Confined, slot, supervisors, groups
<1>1. \A u \in Task :
        /\ process[u] = h => /\ pc'[u] = "dead" /\ mine'[u] = NoRun /\ todo'[u] = {}
                             /\ copy'[u] = NoRecord
        /\ process[u] # h => /\ pc'[u] = pc[u] /\ mine'[u] = mine[u] /\ todo'[u] = todo[u]
                             /\ copy'[u] = copy[u]
  BY DEF Dies
<1>w. /\ [NoRecord EXCEPT !.state = "unreadable"] \in Record /\ NoRecord \in Record
      /\ [NoRecord EXCEPT !.state = "unreadable"].state = "unreadable"
      /\ ~[NoRecord EXCEPT !.state = "unreadable"].supervisor
      /\ ~[NoRecord EXCEPT !.state = "unreadable"].child
      /\ ~[NoRecord EXCEPT !.state = "unreadable"].quarantined
  BY DEF Record, NoRecord, Rank, Evidence
<1>2. /\ record' \in [Run -> Record]
      /\ \A r \in Run : \/ record'[r] = record[r]
                       \/ /\ record[r].state = "none" /\ "prepareCrash" \in Faults
                          /\ record'[r] = [NoRecord EXCEPT !.state = "unreadable"]
  BY <1>0, <1>w DEF TypeOK, Write
<1>3. TypeOK'
  <2>1. /\ pc' = [u \in Task |-> pc'[u]] /\ mine' = [u \in Task |-> mine'[u]]
        /\ todo' = [u \in Task |-> todo'[u]] /\ copy' = [u \in Task |-> copy'[u]]
    BY DEF Dies
  <2>2. \A u \in Task : /\ pc'[u] \in Pc /\ mine'[u] \in Run \cup {NoRun}
                        /\ todo'[u] \in SUBSET Run /\ copy'[u] \in Record
    BY <1>0, <1>1, <1>w DEF TypeOK, Pc
  <2>3. /\ pc' \in [Task -> Pc] /\ mine' \in [Task -> Run \cup {NoRun}]
        /\ todo' \in [Task -> SUBSET Run] /\ copy' \in [Task -> Record]
    BY <2>1, <2>2
  <2>4. \A u \in Task : mine'[u] = NoRun <=> pc'[u] \in {"idle", "reconciled", "dead"}
    BY <1>0, <1>1 DEF TypeOK
  <2>5. QED
    BY <1>0, <1>2, <2>3, <2>4 DEF TypeOK
<1>s. ASSUME NEW r \in Run, record[r].state # "none"
      PROVE  /\ record'[r] = record[r]
             /\ Unfinished(r)' = Unfinished(r) /\ Finished(r)' = Finished(r)
             /\ LeaderLives(r)' = LeaderLives(r)
             /\ Standing(r)' = Standing(r) /\ RunRule(r)' = RunRule(r)
  BY <1>0, <1>2, <1>s, SameRun
<1>n. ASSUME NEW r \in Run, record[r].state = "none"
      PROVE  ~Unfinished(r) /\ ~Finished(r) /\ ~Unfinished(r)' /\ ~Standing(r)' /\ ~record[r].quarantined
  <2>1. record'[r].state \in {"none", "unreadable"} /\ supervisor[r] = "none"
    BY <1>0, <1>2, <1>n, <1>w DEF RunInv, RunRule
  <2>2. ~record[r].quarantined /\ ~record'[r].quarantined
    BY <1>0, <1>2, <1>w, <2>1 DEF RunInv, RunRule
  <2>3. QED
    BY <1>0, <1>3, <1>n, <2>1, <2>2, OpenRuns, OpenRunsNext DEF Open, Finished, Standing
<1>4. ClaimInv'
  <2>1. \A u \in Task : NoRun \notin todo[u]
    BY <1>0, ConstantsAssumption DEF TypeOK
  <2>2. QED
    BY <1>0, <1>1, <2>1 DEF ClaimInv
<1>5. CallInv'
  <2> SUFFICES ASSUME NEW u \in Task, process[u] # h
               PROVE  /\ (pc[u] # "dead" => process[u] \in alive)'
                      /\ (todo[u] # {} => pc[u] \in {"reconciled", "adopting", "releasing"})'
                      /\ (\A q \in todo[u] : Adoptable(u, q))'
                      /\ (mine[u] # NoRun => Driven(u, mine[u]))'
    BY <1>1 DEF CallInv
  <2>0. /\ pc[u] # "dead" => process[u] \in alive
        /\ todo[u] # {} => pc[u] \in {"reconciled", "adopting", "releasing"}
        /\ \A q \in todo[u] : Adoptable(u, q) /\ q \in Run
        /\ mine[u] # NoRun => Driven(u, mine[u]) /\ mine[u] \in Run
    BY <1>0 DEF CallInv, TypeOK
  <2>1. ASSUME NEW q \in todo[u]
        PROVE  Adoptable(u, q)'
    <3>1. record[q].state # "none"
      BY <2>0, <1>n DEF Adoptable
    <3>2. QED
      BY <1>0, <1>s, <2>0, <3>1 DEF Adoptable
  <2>2. ASSUME mine[u] # NoRun
        PROVE  Driven(u, mine[u])'
    <3>1. record[mine[u]].state # "none"
      BY <1>n, <2>0, <2>2 DEF Driven, Owned
    <3>2. QED
      BY <1>0, <1>1, <1>s, <2>0, <2>2, <3>1 DEF Driven, Owned
  <2>3. QED
    BY <1>0, <1>1, <2>0, <2>1, <2>2
<1>6. RunInv'
  <2> SUFFICES ASSUME NEW r \in Run
               PROVE  RunRule(r)' /\ Attended(r)'
    BY DEF RunInv
  <2>0. RunRule(r) /\ Attended(r)
    BY <1>0 DEF RunInv
  <2>1. CASE record[r].state # "none"
    <3>1. ASSUME NEW u \in Task, mine[u] = r, pc[u] \in {"supervising", "killing"},
                 supervisor[r] \notin Gone, ~record[r].supervisor
          PROVE  mine'[u] = r /\ pc'[u] \in {"supervising", "killing"}
      BY <1>0, <1>1, <3>1 DEF InSpawnWindow
    <3>2. QED
      BY <1>0, <1>s, <2>0, <2>1, <3>1 DEF Attended
  <2>2. CASE record[r].state = "none"
    <3>1. supervisor[r] = "none" /\ ~Executing(r)
      BY <2>0, <2>2 DEF RunRule, Authorized
    <3>2. CASE record'[r] = record[r]
      BY <1>0, <2>0, <3>1, <3>2, SameRun DEF Attended, Gone
    <3>3. CASE record'[r] = [NoRecord EXCEPT !.state = "unreadable"] /\ "prepareCrash" \in Faults
      BY <1>0, <1>w, <3>1, <3>3 DEF RunRule, Recorded, Writing, Launched, Executing, Attended, Gone
    <3>4. QED
      BY <1>2, <3>2, <3>3
  <2>3. QED
    BY <2>1, <2>2
<1>7. HoldInv'
  <2>1. ASSUME NEW r \in Run, Engaged(r)'
        PROVE  Engaged(r)
    <3>1. record[r].state # "none"
      BY <1>n, <2>1 DEF Engaged, Live
    <3>2. Supervised(r)' => Supervised(r)
      BY <1>1, ConstantsAssumption DEF Supervised
    <3>3. QED
      BY <1>0, <1>s, <2>1, <3>1, <3>2 DEF Engaged, Live
  <2>2. \A r \in Run : Unfinished(r)' => Unfinished(r)
    BY <1>n, <1>s
  <2>3. \A r \in Run : record[r].quarantined => record'[r].quarantined
    BY <1>n, <1>s
  <2>4. Uncertain \subseteq Uncertain'
    BY <1>s DEF Uncertain
  <2>5. QED
    BY <1>0, <2>1, <2>2, <2>3, <2>4, HoldFrame
<1>8. QED
  BY <1>3, <1>4, <1>5, <1>6, <1>7 DEF IInv

LEMMA StutterKeeps ==
  ASSUME IInv, UNCHANGED vars
  PROVE  IInv'
<1>1. \A r \in Run : /\ Unfinished(r)' = Unfinished(r) /\ Standing(r)' = Standing(r)
                     /\ RunRule(r)' = RunRule(r)
  BY SameRun DEF vars
<1>2. \A r \in Run : Attended(r)' = Attended(r) /\ Engaged(r)' = Engaged(r)
  BY <1>1 DEF vars, Attended, Engaged, Live, Supervised
<1>3. TypeOK' /\ ClaimInv' /\ RunInv'
  BY <1>1, <1>2 DEF IInv, vars, TypeOK, ClaimInv, RunInv
<1>4. CallInv'
  BY DEF IInv, vars, CallInv, Adoptable, Driven, Owned, Unfinished, Readable, Finished, LeaderLives
<1>5. HoldInv'
  BY <1>1, <1>2, HoldFrame DEF IInv, vars, slot, Uncertain
<1>6. QED
  BY <1>3, <1>4, <1>5 DEF IInv

-----------------------------------------------------------------------------
LEMMA InitHolds == Init => IInv
<1> SUFFICES ASSUME Init
             PROVE  IInv
  OBVIOUS
<1> USE DEF Init
<1>1. TypeOK
  <2>1. NoRecord \in Record
    BY DEF Record, NoRecord, Rank, Evidence
  <2>2. QED
    BY <2>1 DEF TypeOK, Pc, SupervisorPc, Gone
<1>2. \A r \in Run : /\ record[r].state = "none" /\ ~record[r].quarantined /\ ~record[r].child /\ ~record[r].supervisor
                     /\ ~Unfinished(r) /\ ~Finished(r) /\ ~Executing(r) /\ supervisor[r] = "none"
  BY Stages DEF NoRecord, Unfinished, Readable, Finished, Executing, Rank
<1>3. CallInv /\ ClaimInv
  BY ConstantsAssumption DEF CallInv, ClaimInv
<1>4. RunInv
  BY <1>2 DEF RunInv, RunRule, Recorded, Attended, Writing, Launched, Gone
<1>5. HoldInv
  BY <1>2 DEF HoldInv, HoldsRule, AloneInv, Engaged, Live, Standing
<1>6. QED
  BY <1>1, <1>3, <1>4, <1>5 DEF IInv

LEMMA NextHolds ==
  ASSUME IInv, Confined, [Next]_vars
  PROVE  IInv'
<1>1. ASSUME NEW t \in Task, CallStep(t)
      PROVE  IInv'
  <2>1. CASE Reconcile(t)
    BY <2>1, ReconcileKeeps
  <2>2. CASE Defer(t) \/ Finish(t)
    BY <2>2, IdleKeeps
  <2>3. CASE \E r \in Run : Adopt(t, r)
    BY <2>3, AdoptKeeps
  <2>4. CASE \E r \in Run : Admit(t, r)
    BY <2>4, AdmitKeeps
  <2>5. CASE SpawnSupervisor(t)
    BY <2>5, SpawnKeeps
  <2>6. CASE EndSupervision(t)
    BY <2>6, EndSupervisionKeeps
  <2>7. CASE HandshakeDeadline(t)
    BY <2>7, HandshakeDeadlineKeeps
  <2>8. CASE HoldUnhandshaken(t)
    BY <2>8, HoldUnhandshakenKeeps
  <2>9. CASE Publish(t)
    BY <2>9, PublishKeeps
  <2>10. CASE PublishFails(t)
    BY <2>10, PublishFailsKeeps
  <2>11. CASE Release(t)
    BY <2>11, ReleaseKeeps
  <2>12. QED
    BY <1>1, <2>1, <2>2, <2>3, <2>4, <2>5, <2>6, <2>7, <2>8, <2>9, <2>10, <2>11 DEF CallStep
<1>2. ASSUME NEW t \in Task, NEW r \in Run, PrepareCrash(t, r)
      PROVE  IInv'
  BY <1>2, DiesKeeps, ConstantsAssumption DEF PrepareCrash
<1>3. ASSUME NEW r \in Run, SupervisorStep(r)
      PROVE  IInv'
  BY <1>3, SupervisorTypes, SupervisorDisciplined, LocalKeeps DEF IInv
<1>4. ASSUME NEW r \in Run, GroupStep(r)
      PROVE  IInv'
  BY <1>4, GroupDisciplined, LocalKeeps
<1>5. CASE Glance
  BY <1>5, GlanceKeeps
<1>6. ASSUME NEW h \in Host, Crash(h)
      PROVE  IInv'
  BY <1>6, DiesKeeps DEF Crash
<1>7. CASE UNCHANGED vars
  BY <1>7, StutterKeeps
<1>8. QED
  BY <1>1, <1>2, <1>3, <1>4, <1>5, <1>6, <1>7 DEF Next

\* The inductive invariant holds of every behaviour.
THEOREM LifecycleInvariant ==
  ASSUME Confined
  PROVE  Spec => []IInv
<1>1. Init => IInv
  BY InitHolds
<1>2. IInv /\ [Next]_vars => IInv'
  BY NextHolds
<1>3. QED
  BY <1>1, <1>2, PTL DEF Spec

\* The variables of the lifecycle keep their types, and a call has a run
\* exactly while it drives or finishes one.
THEOREM LifecycleTypes ==
  ASSUME Confined
  PROVE  Spec => []TypeOK
<1>1. IInv => TypeOK
  BY DEF IInv
<1>2. QED
  BY <1>1, LifecycleInvariant, PTL

\* What executes holds the slot or the root: neither is given back too early,
\* by the run's own call, by a recovery or by a pass that only looks.  (A
\* directory without a record would take the slot from who has it.)
THEOREM ExecutionIsCovered ==
  ASSUME Confined, Watchful, OneUnconfirmed, "prepareCrash" \notin Faults
  PROVE  Spec => []SlotCoversExecution
<1>1. IInv => SlotCoversExecution
  BY Covers DEF SlotCoversExecution
<1>2. QED
  BY <1>1, LifecycleInvariant, PTL

\* Test Runs are serialized across processes: what executes is engaged, and
\* beside an engaged run none is.
THEOREM RunsAreSerialized ==
  ASSUME Confined, Watchful, OneUnconfirmed
  PROVE  Spec => []OneAtATime
<1>1. IInv => OneAtATime
  BY ExecutingIsEngaged DEF OneAtATime, IInv, HoldInv, AloneInv
<1>2. QED
  BY <1>1, LifecycleInvariant, PTL

\* What runs behind an open gate can be accounted for from its record, after
\* any crash: its authorization, its supervisor and its child are there.
THEOREM LaunchesAreRecorded ==
  ASSUME Confined
  PROVE  Spec => []LaunchIsRecorded
<1>1. IInv => LaunchIsRecorded
  BY DEF LaunchIsRecorded, IInv, RunInv, RunRule, Executing, Authorized, Rank
<1>2. QED
  BY <1>1, LifecycleInvariant, PTL

\* A run is never completed with something of it executing, unless its record
\* says that it is quarantined.
THEOREM CompletionsAreAccounted ==
  ASSUME Confined, Watchful
  PROVE  Spec => []CompletedIsAccounted
<1>1. ASSUME IInv
      PROVE  CompletedIsAccounted
  <2> SUFFICES ASSUME NEW r \in Run, Finished(r), Executing(r)
               PROVE  record[r].quarantined
    BY DEF CompletedIsAccounted
  <2>1. supervisor[r] # "watching"
    BY <1>1 DEF IInv, RunInv, RunRule, Recorded, Launched, Finished
  <2>2. QED
    BY <1>1, <2>1, ExecutingIsEngaged
<1>2. QED
  BY <1>1, LifecycleInvariant, PTL

\* A run keeps the slot until its terminal evidence is published.
THEOREM SlotIsKept ==
  ASSUME Confined, OneUnconfirmed, Stored
  PROVE  Spec => []UnfinishedHoldsSlot
<1>1. IInv => UnfinishedHoldsSlot
  BY DEF IInv, HoldInv, HoldsRule, UnfinishedHoldsSlot
<1>2. QED
  BY <1>1, LifecycleInvariant, PTL

\* No two calls drive or finalize one run, however often its owner dies and
\* whatever of its publication fails.
THEOREM FinalizersAreSingle ==
  ASSUME Confined
  PROVE  Spec => []OneFinalizer
<1>1. IInv => OneFinalizer
  BY DEF IInv, ClaimInv, OneFinalizer
<1>2. QED
  BY <1>1, LifecycleInvariant, PTL

-----------------------------------------------------------------------------
\* Record `new` of run r says no less than `old`, and a completed one is final.
Extends(old, new) ==
  /\ Rank[new.state] >= Rank[old.state]
  /\ old.supervisor => new.supervisor
  /\ old.child => new.child
  /\ old.quarantined => new.quarantined
  /\ old.state = "completed" => new = old

LEMMA SameExtends ==
  ASSUME NEW old \in Record
  PROVE  Extends(old, old)
BY DEF Extends, Record, Rank

\* A supervisor writes from the record as it is, and not once it is quarantined.
LEMMA SupervisorExtends ==
  ASSUME IInv, NEW r \in Run, SupervisorStep(r)
  PROVE  Extends(record[r], record'[r])
<1>0. /\ TypeOK /\ RunRule(r) /\ record[r] \in Record /\ record \in [Run -> Record]
      /\ held[r] \in Record
  BY DEF IInv, RunInv, TypeOK
<1>1. CASE UNCHANGED record
  BY <1>0, <1>1, SameExtends
<1>2. ASSUME NEW from, NEW to, NEW new, Advances(r, from, to, new), from \in Writing
      PROVE  record'[r] = new /\ held[r] = record[r] /\ supervisor[r] = from /\ ~record[r].quarantined
  BY <1>0, <1>2 DEF Advances, Write, RunRule, Recorded, Writing
<1>3. CASE BecomeReady(r)
  <2>1. /\ record'[r] = [record[r] EXCEPT !.state = "supervisorReady", !.supervisor = TRUE]
        /\ record[r].state = "admitted"
    BY <1>2, <1>3 DEF BecomeReady, Writing
  <2>2. QED
    BY <1>0, <2>1 DEF Extends, Record, Rank
<1>4. CASE RecordChild(r)
  <2>1. /\ record'[r] = [record[r] EXCEPT !.state = "childRecorded", !.child = TRUE]
        /\ record[r].state = "supervisorReady"
    BY <1>0, <1>2, <1>4 DEF RecordChild, Writing, RunRule, Recorded
  <2>2. QED
    BY <1>0, <2>1 DEF Extends, Record, Rank
<1>5. CASE AuthorizeLaunch(r)
  <2>1. /\ record'[r] = [record[r] EXCEPT !.state = "launchAuthorized"]
        /\ record[r].state = "childRecorded"
    BY <1>0, <1>2, <1>5 DEF AuthorizeLaunch, Writing, RunRule, Recorded
  <2>2. QED
    BY <1>0, <2>1 DEF Extends, Record, Rank
<1>6. CASE ConcludeAbandoned(r)
  <2>1. CASE Steps(r, "abandoning", "exited")
    BY <1>1, <2>1 DEF Steps
  <2>2. CASE Advances(r, "abandoning", "exited",
                      [held[r] EXCEPT !.state = "executionCompleted",
                                      !.descendantsGone = "no", !.quarantined = TRUE])
    <3>1. /\ record'[r] = [record[r] EXCEPT !.state = "executionCompleted",
                                            !.descendantsGone = "no", !.quarantined = TRUE]
          /\ record[r].state \in {"supervisorReady", "childRecorded"}
      BY <1>0, <1>2, <2>2 DEF Writing, RunRule, Recorded
    <3>2. QED
      BY <1>0, <3>1 DEF Extends, Record, Rank
  <2>3. QED
    BY <1>6, <2>1, <2>2 DEF ConcludeAbandoned
<1>7. CASE Conclude(r)
  <2>1. PICK doubt \in BOOLEAN :
          Advances(r, "watching", "exited",
                   [held[r] EXCEPT !.state = "executionCompleted",
                                   !.descendantsGone = IF ~Executing(r) THEN "yes" ELSE "no",
                                   !.quarantined = doubt \/ Executing(r)])
    BY <1>7 DEF Conclude
  <2>2. /\ record'[r] = [record[r] EXCEPT !.state = "executionCompleted",
                                   !.descendantsGone = IF ~Executing(r) THEN "yes" ELSE "no",
                                   !.quarantined = doubt \/ Executing(r)]
        /\ record[r].state = "launchAuthorized" /\ ~record[r].quarantined
    BY <1>0, <1>2, <2>1 DEF Writing, RunRule, Recorded, Launched
  <2>3. QED
    BY <1>0, <2>2 DEF Extends, Record, Rank
<1>8. CASE ReadHello(r) \/ CancelBeforeSpawn(r) \/ SpawnGatedChild(r) \/ Abandon(r)
           \/ ReleaseGate(r) \/ SupervisorDies(r)
  BY <1>1, <1>8 DEF ReadHello, CancelBeforeSpawn, SpawnGatedChild, Abandon, ReleaseGate,
                    SupervisorDies, Steps
<1>9. QED
  BY <1>3, <1>4, <1>5, <1>6, <1>7, <1>8 DEF SupervisorStep

\* A call writes only to the run it has to itself.
LEMMA CallExtends ==
  ASSUME IInv, NEW t \in Task, CallStep(t), NEW r \in Run
  PROVE  Extends(record[r], record'[r])
<1>0. /\ TypeOK /\ RunRule(r) /\ record[r] \in Record /\ record \in [Run -> Record]
  BY DEF IInv, RunInv, TypeOK
<1>s. CASE record'[r] = record[r]
  BY <1>0, <1>s, SameExtends
<1>u. Unfinished(r) <=> record[r].state \in Open
  BY <1>0, OpenRuns
<1>1. CASE Reconcile(t)
  <2>1. CASE r \in Finalizable
    <3>1. record'[r] = [record[r] EXCEPT !.owner = process[t]] /\ record[r].state # "completed"
      BY <1>1, <2>1 DEF Reconcile, Finalizable, Unfinished
    <3>2. QED
      BY <1>0, <3>1 DEF Extends, Record, Rank
  <2>2. CASE r \notin Finalizable
    BY <1>s, <1>1, <2>2 DEF Reconcile
  <2>3. QED
    BY <2>1, <2>2
<1>2. ASSUME NEW m \in Run, Adopt(t, m)
      PROVE  Extends(record[r], record'[r])
  <2>1. CASE m # r
    BY <1>0, <1>s, <1>2, <2>1 DEF Adopt, Write
  <2>2. CASE m = r
    <3>1. Unfinished(r) /\ ~Finished(r) /\ record'[r] = Adopted(r)
      BY <1>0, <1>2, <2>2 DEF Adopt, Write, IInv, CallInv, Adoptable, Unfinished, Finished
    <3>2. CASE Rank[record[r].state] < Rank.launchAuthorized
      <4>1. record'[r] = [record[r] EXCEPT !.quarantined = record[r].quarantined \/ LeaderLives(r)]
        BY <3>1, <3>2 DEF Adopted
      <4>2. QED
        BY <1>0, <3>1, <4>1 DEF Extends, Record, Rank, Finished
    <3>3. CASE ~(Rank[record[r].state] < Rank.launchAuthorized)
      <4>1. record'[r] = [record[r] EXCEPT !.state = "executionCompleted"]
        BY <3>1, <3>3 DEF Adopted
      <4>2. QED
        BY <1>0, <1>u, <3>1, <4>1 DEF Extends, Record, Rank, Open
    <3>4. QED
      BY <3>2, <3>3
  <2>3. QED
    BY <2>1, <2>2
<1>3. ASSUME NEW m \in Run, Admit(t, m)
      PROVE  Extends(record[r], record'[r])
  <2>1. CASE m # r
    BY <1>0, <1>s, <1>3, <2>1 DEF Admit, Write
  <2>2. CASE m = r
    <3>1. /\ record'[r] = [NoRecord EXCEPT !.state = "admitted", !.owner = process[t]]
          /\ record[r].state = "none" /\ supervisor[r] = "none"
      BY <1>0, <1>3, <2>2 DEF Admit, Write, RunRule
    <3>2. ~record[r].quarantined /\ ~record[r].child /\ ~record[r].supervisor
      BY <1>0, <3>1 DEF RunRule
    <3>3. QED
      BY <1>0, <3>1, <3>2 DEF Extends, Record, NoRecord, Rank
  <2>3. QED
    BY <2>1, <2>2
<1>4. CASE HoldUnhandshaken(t)
  <2>1. mine[t] \in Run /\ Unfinished(mine[t])
    BY <1>4, OwnRun DEF HoldUnhandshaken, Moves, Driven
  <2>2. CASE mine[t] # r
    BY <1>0, <1>s, <1>4, <2>2 DEF HoldUnhandshaken, Write
  <2>3. CASE mine[t] = r
    <3>1. record'[r] = [record[r] EXCEPT !.quarantined = TRUE, !.supervisor = TRUE]
      BY <1>0, <1>4, <2>3 DEF HoldUnhandshaken, Write
    <3>2. QED
      BY <1>0, <2>1, <2>3, <3>1 DEF Extends, Record, Rank, Unfinished
  <2>4. QED
    BY <2>2, <2>3
<1>5. CASE Publish(t)
  <2>1. mine[t] \in Run /\ Unfinished(mine[t]) /\ copy[t] = record[mine[t]]
    BY <1>5, OwnRun DEF Publish, Driven
  <2>2. CASE mine[t] # r
    BY <1>0, <1>s, <1>5, <2>2 DEF Publish, Write
  <2>3. CASE mine[t] = r
    <3>1. record'[r] = [record[r] EXCEPT !.state = "completed"]
      BY <1>0, <1>5, <2>1, <2>3 DEF Publish, Write
    <3>2. QED
      BY <1>0, <2>1, <2>3, <3>1 DEF Extends, Record, Rank, Unfinished
  <2>4. QED
    BY <2>2, <2>3
<1>6. CASE UNCHANGED record
  BY <1>s, <1>6
<1>7. QED
  BY <1>1, <1>2, <1>3, <1>4, <1>5, <1>6
     DEF CallStep, Defer, Finish, SpawnSupervisor, EndSupervision, HandshakeDeadline, PublishFails,
         Release

\* A record only moves forward: no writer's older copy undoes what another
\* recorded.  The writers of a run take turns, so each writes from the record
\* as it is.
THEOREM RecordsGrow ==
  ASSUME Confined
  PROVE  Spec => RecordsOnlyGrow
<1>1. ASSUME IInv, [Next]_vars, NEW r \in Run
      PROVE  Extends(record[r], record'[r])
  <2>0. record[r] \in Record /\ record \in [Run -> Record]
    BY <1>1 DEF IInv, TypeOK
  <2>s. CASE record'[r] = record[r]
    BY <2>0, <2>s, SameExtends
  <2>1. CASE \E t \in Task : CallStep(t)
    BY <1>1, <2>1, CallExtends
  <2>2. ASSUME NEW q \in Run, SupervisorStep(q)
        PROVE  Extends(record[r], record'[r])
    <3>1. CASE q = r
      BY <1>1, <2>2, <3>1, SupervisorExtends
    <3>2. CASE q # r
      <4>1. LocalTo(q)
        BY <1>1, <2>2, SupervisorTypes DEF IInv
      <4>2. QED
        BY <2>s, <3>2, <4>1 DEF LocalTo
    <3>3. QED
      BY <3>1, <3>2
  <2>3. CASE \E q \in Run : GroupStep(q)
    BY <2>s, <2>3 DEF GroupStep, GateCloses, LeaderSpawns, LeaderExits, OffspringExit
  <2>4. ASSUME NEW t \in Task, NEW q \in Run, PrepareCrash(t, q)
        PROVE  Extends(record[r], record'[r])
    <3>1. CASE q = r
      <4>1. record'[r] = [NoRecord EXCEPT !.state = "unreadable"] /\ record[r].state = "none"
        BY <2>0, <2>4, <3>1 DEF PrepareCrash, Write
      <4>2. ~record[r].quarantined /\ ~record[r].child /\ ~record[r].supervisor
        BY <1>1, <4>1 DEF IInv, RunInv, RunRule
      <4>3. QED
        BY <2>0, <4>1, <4>2 DEF Extends, Record, NoRecord, Rank
    <3>2. CASE q # r
      BY <2>0, <2>s, <2>4, <3>2 DEF PrepareCrash, Write
    <3>3. QED
      BY <3>1, <3>2
  <2>5. CASE Glance \/ (\E h \in Host : Crash(h)) \/ UNCHANGED vars
    BY <2>s, <2>5 DEF Glance, Crash, vars
  <2>6. QED
    BY <1>1, <2>1, <2>2, <2>3, <2>4, <2>5 DEF Next
<1>2. ASSUME IInv, [Next]_vars
      PROVE  \A r \in Run :
               /\ Rank[record'[r].state] >= Rank[record[r].state]
               /\ record[r].supervisor => record'[r].supervisor
               /\ record[r].child => record'[r].child
               /\ record[r].quarantined => record'[r].quarantined
               /\ Finished(r) => record'[r] = record[r]
  BY <1>1, <1>2 DEF Extends, Finished
<1>3. IInv /\ [Next]_vars =>
        [\A r \in Run :
               /\ Rank[record'[r].state] >= Rank[record[r].state]
               /\ record[r].supervisor => record'[r].supervisor
               /\ record[r].child => record'[r].child
               /\ record[r].quarantined => record'[r].quarantined
               /\ Finished(r) => record'[r] = record[r]]_record
  BY <1>2
<1>4. QED
  BY <1>3, LifecycleInvariant, PTL DEF Spec, RecordsOnlyGrow

-----------------------------------------------------------------------------
\* Where the slot is implemented: no directory is left without a record.
Implementing == Watchful /\ OneUnconfirmed /\ "prepareCrash" \notin Faults

\* There every directory can be judged, and one run at most is engaged, which has
\* the slot or the root.
LEMMA HoldsThere ==
  ASSUME IInv, Implementing
  PROVE  /\ TypeOK /\ Uncertain = {} /\ HoldsRule(active, quarantine) /\ AloneInv
         /\ quarantine # NoRun =>
              quarantine \in Run /\ record[quarantine].quarantined /\ active # quarantine
<1>1. TypeOK /\ HoldsRule(active, quarantine) /\ AloneInv
  BY DEF IInv, HoldInv, Implementing
<1>2. Uncertain = {}
  BY DEF Uncertain, IInv, RunInv, RunRule, Implementing
<1>3. QED
  BY <1>1, <1>2 DEF HoldsRule, TypeOK

\* A step that changes neither hold nor what executes is none of ExecutionSlot.
LEMMA Stutters ==
  ASSUME UNCHANGED slot, \A r \in Run : Executing(r)' = Executing(r)
  PROVE  UNCHANGED Slot!vars
BY DEF Slot!vars, slot

\* A supervisor or a group starts the holder of the slot, or stops.
LEMMA LocalMaps ==
  ASSUME IInv, Implementing, NEW r \in Run, LocalTo(r), Disciplined(r)
  PROVE  [Slot!Next]_Slot!vars
<1> DEFINE E == {q \in Run : Executing(q)}
<1>0. /\ UNCHANGED <<active, quarantine>> /\ HoldsRule(active, quarantine) /\ AloneInv
      /\ TypeOK /\ Uncertain = {} /\ RunRule(r)
  BY HoldsThere DEF LocalTo, slot, IInv, RunInv
<1>1. \A q \in Run : q # r => Executing(q)' = Executing(q)
  BY DEF LocalTo, Executing
<1>2. CASE Executing(r)' /\ ~Executing(r)
  <2>1. supervisor[r] = "authorizing" /\ record[r].state = "launchAuthorized"
    BY <1>0, <1>2 DEF Disciplined, RunRule, Recorded, Launched
  <2>2. Engaged(r)
    BY <1>0, <2>1, OpenRuns DEF Engaged, Live, Writing, Open
  <2>3. ~record[r].quarantined
    BY <1>0, <2>1 DEF RunRule
  <2>4. active = r
    BY <1>0, <2>2, <2>3, ConstantsAssumption DEF HoldsRule
  <2>5. E \subseteq {r}
    BY <1>0, <2>2, ExecutingIsEngaged DEF AloneInv, Implementing
  <2>6. E' = {r}
    BY <1>1, <1>2, <2>5
  <2>7. Slot!Start(r)
    BY <1>0, <2>4, <2>5, <2>6 DEF Slot!Start
  <2>8. QED
    BY <2>7 DEF Slot!Next
<1>3. CASE ~Executing(r)'
  <2>1. E' = E \ {r}
    BY <1>1, <1>3
  <2>2. Slot!Stop(r)
    BY <1>0, <2>1 DEF Slot!Stop
  <2>3. QED
    BY <2>2 DEF Slot!Next
<1>4. CASE Executing(r)' /\ Executing(r)
  <2>1. E' = E
    BY <1>1, <1>4
  <2>2. QED
    BY <1>0, <2>1 DEF Slot!vars
<1>5. QED
  BY <1>2, <1>3, <1>4

\* A run takes a free root, with nothing executing.
LEMMA AdmitMaps ==
  ASSUME IInv, Implementing, NEW t \in Task, NEW m \in Run, Admit(t, m)
  PROVE  Slot!Acquire(m)
<1>1. /\ slot = <<NoRun, NoRun>> /\ active = NoRun /\ quarantine = NoRun
      /\ active' = m /\ UNCHANGED <<quarantine, groups>>
  BY DEF Admit, slot
<1>2. {q \in Run : Executing(q)} = {}
  BY <1>1, FreeRoot, ExecutingIsEngaged DEF Implementing
<1>3. {q \in Run : Executing(q)}' = {q \in Run : Executing(q)}
  BY <1>1 DEF Executing, groups
<1>4. QED
  BY <1>1, <1>2, <1>3 DEF Slot!Acquire

\* What executes unwatched is quarantined: of an active run that is over, the
\* root is then free to take it.
LEMMA ActiveHasPlace ==
  ASSUME IInv, Implementing, active \in Run, Executing(active), supervisor[active] # "watching"
  PROVE  record[active].quarantined /\ quarantine = NoRun
<1>1. record[active].quarantined
  BY ExecutingIsEngaged DEF Implementing
<1>2. QED
  BY <1>1, HoldsThere, OneQuarantined DEF Implementing

\* What is given up was not executing, or the root is quarantined for it.
LEMMA ReleaseMaps ==
  ASSUME IInv, Implementing, NEW t \in Task, Release(t)
  PROVE  Slot!Next
<1>m. PICK m \in Run : m = mine[t]
  BY OwnRun DEF Release, Moves
<1> DEFINE E == {q \in Run : Executing(q)}
<1>0. /\ Driven(t, m) /\ RunRule(m) /\ pc[t] = "releasing"
      /\ active' = IF active = m THEN NoRun ELSE active
      /\ quarantine' = IF record[m].quarantined /\ quarantine = NoRun THEN m ELSE quarantine
      /\ UNCHANGED groups
  BY <1>m, OwnRun DEF Release, Moves
<1>1. E' = E
  BY <1>0 DEF Executing, groups
<1>2. supervisor[m] # "watching"
  BY <1>0 DEF Driven, RunRule, Recorded, Launched, Finished, Gone
<1>3. CASE record[m].quarantined /\ quarantine = NoRun
  <2>1. Slot!Quarantine(m)
    BY <1>0, <1>1, <1>3 DEF Slot!Quarantine
  <2>2. QED
    BY <2>1 DEF Slot!Next
<1>4. CASE ~(record[m].quarantined /\ quarantine = NoRun)
  <2>1. active = m => ~Executing(m)
    BY <1>2, <1>4, ActiveHasPlace
  <2>2. Slot!GiveBack
    BY <1>0, <1>1, <1>4, <2>1 DEF Slot!GiveBack
  <2>3. QED
    BY <2>2 DEF Slot!Next
<1>5. QED
  BY <1>3, <1>4

\* So with the bookkeeping of a pass.
LEMMA BooksMap ==
  ASSUME IInv, Implementing, KeepBooks, UNCHANGED groups
  PROVE  Slot!Next
<1> DEFINE E == {q \in Run : Executing(q)}
<1>0. /\ TypeOK /\ HoldsRule(active, quarantine) /\ Uncertain = {} /\ NoRun \notin Run
      /\ \A q \in E : q \in Run /\ (Unfinished(q) \/ Finished(q)) /\ Engaged(q) /\ RunRule(q)
  BY HoldsThere, ExecutingIsEngaged, ConstantsAssumption DEF Implementing, IInv, RunInv
<1>1. E' = E
  BY DEF Executing, groups
<1>2. CASE Quarantining # {} /\ active' = NoRun /\ quarantine' \in Quarantining
  <2>1. /\ quarantine' \in Run /\ record[quarantine'].quarantined /\ StillAttributable(quarantine')
        /\ Finished(quarantine') /\ quarantine = NoRun
    BY <1>2 DEF Quarantining
  <2>2. active = quarantine'
    BY <1>0, <2>1 DEF HoldsRule, Engaged, Standing
  <2>3. \E r \in Run : Slot!Quarantine(r)
    BY <1>1, <1>2, <2>1, <2>2 DEF Slot!Quarantine
  <2>4. QED
    BY <2>3 DEF Slot!Next
<1>3. CASE /\ Quarantining = {}
           /\ \/ active' = active
              \/ /\ active' = NoRun /\ active \notin Finalizable \cup {NoRun}
                 /\ record[active].state \in {"none", "completed"}
           /\ \/ quarantine' = quarantine
              \/ quarantine' = NoRun /\ quarantine # NoRun /\ CanClear(quarantine)
  <2>1. ASSUME active' # active
        PROVE  active \notin E
    <3>1. SUFFICES ASSUME active \in E
                   PROVE  FALSE
      OBVIOUS
    <3>2. supervisor[active] # "watching" /\ Finished(active)
      BY <1>0, <1>3, <2>1, <3>1, OpenRuns DEF RunRule, Recorded, Launched, Open
    <3>3. record[active].quarantined /\ quarantine = NoRun
      BY <1>0, <3>1, <3>2, ActiveHasPlace
    <3>4. StillAttributable(active)
      BY <1>0, <3>1, <3>2 DEF Engaged, Live, Standing, Unfinished, Finished
    <3>5. QED
      BY <1>0, <1>3, <3>1, <3>2, <3>3, <3>4 DEF Quarantining
  <2>2. ASSUME quarantine' # quarantine
        PROVE  quarantine \notin E
    <3>1. SUFFICES ASSUME quarantine \in E
                   PROVE  FALSE
      OBVIOUS
    <3>2. CanClear(quarantine) /\ Finished(quarantine) /\ ~Unfinished(quarantine)
      BY <1>0, <1>3, <2>2, <3>1, OpenRuns DEF CanClear, Open, Unfinished, Finished
    <3>3. StillAttributable(quarantine)
      BY <1>0, <3>1, <3>2 DEF Engaged, Live, Standing
    <3>4. QED
      BY <3>2, <3>3 DEF CanClear, Finished
  <2>3. active' \in {active, NoRun} /\ quarantine' \in {quarantine, NoRun}
    BY <1>3
  <2>4. Slot!GiveBack
    BY <1>1, <2>1, <2>2, <2>3 DEF Slot!GiveBack
  <2>5. QED
    BY <2>4 DEF Slot!Next
<1>4. QED
  BY <1>0, <1>2, <1>3, BooksSteps

\* The promise of ExecutionSlot is one worth keeping: at most one run executes,
\* and it holds the slot or the root.  A run begins while it holds the slot with
\* nothing else executing, keeps one of the two holds, and gives neither back
\* before it ends.
THEOREM SlotSerializes ==
  Slot!Spec => [](Slot!OneAtATime /\ Slot!Covered)
<1> DEFINE Apart == Slot!OneAtATime /\ Slot!Covered
<1>0. NoRun \notin Run
  BY ConstantsAssumption
<1>1. Slot!Init => Apart
  BY DEF Slot!Init, Slot!OneAtATime, Slot!Covered
<1>2. ASSUME Apart, [Slot!Next]_Slot!vars
      PROVE  Apart'
  <2> USE DEF Slot!OneAtATime, Slot!Covered
  <2>1. ASSUME NEW r \in Run, Slot!Acquire(r)
        PROVE  Apart'
    BY <1>2, <2>1 DEF Slot!Acquire
  <2>2. ASSUME NEW r \in Run, Slot!Start(r)
        PROVE  Apart'
    BY <1>2, <2>2 DEF Slot!Start
  <2>3. ASSUME NEW r \in Run, Slot!Stop(r)
        PROVE  Apart'
    BY <1>2, <2>3 DEF Slot!Stop
  <2>4. ASSUME NEW r \in Run, Slot!Quarantine(r)
        PROVE  Apart'
    BY <1>0, <1>2, <2>4 DEF Slot!Quarantine
  <2>5. CASE Slot!GiveBack
    BY <1>0, <1>2, <2>5 DEF Slot!GiveBack
  <2>6. CASE UNCHANGED Slot!vars
    BY <1>2, <2>6 DEF Slot!vars
  <2>7. QED
    BY <1>2, <2>1, <2>2, <2>3, <2>4, <2>5, <2>6 DEF Slot!Next
<1>3. QED
  BY <1>1, <1>2, PTL DEF Slot!Spec

\* The queue file keeps the promise of ExecutionSlot: whatever the calls, the
\* recoveries, the supervisors and the crashes do, every step takes a free root,
\* starts its holder, stops, quarantines, gives back what no longer executes, or
\* changes none of it.
THEOREM LifecycleImplementsSlot ==
  ASSUME Confined, Watchful, OneUnconfirmed, "prepareCrash" \notin Faults
  PROVE  Spec => ImplementsExecutionSlot
<1>0. Implementing
  BY DEF Implementing
<1>1. Init => Slot!Init
  BY DEF Init, Slot!Init, Executing
<1>2. ASSUME IInv, [Next]_vars
      PROVE  [Slot!Next]_Slot!vars
  <2>s. CASE UNCHANGED <<slot, groups>>
    BY <2>s, Stutters DEF Executing, groups
  <2>1. ASSUME NEW t \in Task, CallStep(t)
        PROVE  [Slot!Next]_Slot!vars
    <3>1. CASE Reconcile(t)
      BY <1>0, <1>2, <3>1, BooksMap DEF Reconcile
    <3>2. CASE \E r \in Run : Admit(t, r)
      BY <1>0, <1>2, <3>2, AdmitMaps DEF Slot!Next
    <3>3. CASE Release(t)
      BY <1>0, <1>2, <3>3, ReleaseMaps
    <3>4. CASE Defer(t) \/ Finish(t) \/ (\E r \in Run : Adopt(t, r)) \/ SpawnSupervisor(t)
               \/ EndSupervision(t) \/ HandshakeDeadline(t) \/ HoldUnhandshaken(t) \/ Publish(t)
               \/ PublishFails(t)
      BY <2>s, <3>4 DEF Defer, Finish, Adopt, SpawnSupervisor, EndSupervision, HandshakeDeadline,
                        HoldUnhandshaken, Publish, PublishFails
    <3>5. QED
      BY <2>1, <3>1, <3>2, <3>3, <3>4 DEF CallStep
  <2>2. ASSUME NEW r \in Run, SupervisorStep(r) \/ GroupStep(r)
        PROVE  [Slot!Next]_Slot!vars
    BY <1>0, <1>2, <2>2, SupervisorTypes, SupervisorDisciplined, GroupDisciplined, LocalMaps DEF IInv
  <2>3. CASE \E t \in Task, q \in Run : PrepareCrash(t, q)
    BY <2>3 DEF PrepareCrash
  <2>4. CASE Glance
    BY <1>0, <1>2, <2>4, BooksMap DEF Glance
  <2>5. CASE (\E h \in Host : Crash(h)) \/ UNCHANGED vars
    BY <2>s, <2>5 DEF Crash, vars, slot, groups
  <2>6. QED
    BY <1>2, <2>1, <2>2, <2>3, <2>4, <2>5 DEF Next
<1>3. QED
  BY <1>1, <1>2, LifecycleInvariant, PTL DEF Spec, ImplementsExecutionSlot, Slot!Spec

=============================================================================
