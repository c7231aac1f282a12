# Verification of the Xcode test plugin

TLA+ models of the `xcode-test` plugin for OpenCode (`src/src/`): how Test Runs
that several OpenCode processes start in one repository are queued, launched,
supervised, interpreted, published, recovered, retained and reported, checked
with TLC on small instances and, where TLAPS reaches, proved for instances of
any size.

## 1. The system

Each OpenCode process loads the plugin. There is no daemon: the processes that
share one *storage scope* (a directory under `~/Library`, one per containment
root and configuration) coordinate through files alone.

| Component | Code | State | Operations |
|---|---|---|---|
| Admission queue | `runner/queue.ts`, `runner/locks.ts` | `queue.json`: `tickets`, `nextSequence`, `activeRunId`, `quarantine`; the root lock | `admit` (enroll, poll, take the slot), `reap`, `releaseSlot` |
| Run records | `runner/state.ts`, `runner/paths.ts` | `metadata.json` of each run: `state` (admitted ... completed), `owner`, `supervisor`, `child`, evidence, `quarantined` | `createRunDirectory`, `writeRunRecord` (whole, atomic, **unlocked**), `advance` |
| Service | `adapter/service.ts` | the call's own copy of the record | `startRun`, `runSupervisor`, `superviseAndInterpret`, `publishTerminal`, `releaseOwnership`, `reconcile`, `finalizeRecovered`, `inspect` |
| Supervisor | `runner/supervisor-entry.ts`, `supervisor.ts`, `termination.ts`, `control.ts` | a detached process per run: its copy of the record, the termination trigger, the evidence found so far | hello/ready/cancel frames, `superviseRun`, escalation, evidence budgets |
| Launch gate | `runner/gate.ts` | a shell in a process group of its own that waits for permission to become `xcodebuild` | publish identity, `authorize`, `abandon`, `execObserved` |
| Process identity | `runner/identity.ts` | the process table | leader alive, group empty, identities gone |
| Recovery | `runner/recovery.ts`, `adapter/reconciliation.ts` | none of its own | `reconcileLocked`: classify, claim, free the slot, quarantine, clear |
| Leases, retention, reclamation | `runner/leases.ts`, `retention.ts`, `reclamation.ts` | lease files, trash, tombstones, shared caches, `derivedDataCleaned` | publish/sweep a lease, evict, resume an eviction, delete DerivedData |
| Housekeeping | `runner/housekeeping*.ts`, `adapter/startup-ports.ts` | the registry of all storage roots of a user: when each was seen, when maintenance last ran, the roots it left | claim a pass, collect stale roots, visit each root, remember what was not visited |
| Startup, availability | `adapter/startup.ts`, `setup.ts`, `availability.ts`, `runtime.ts` | what the probes found, whether the tool is available | bounded items, one shared revalidation |
| Tool boundary | `adapter/tools.ts` | the call's abort signal | run the tool, race the abort, wait for a terminal summary, contain a failure |
| Interpreter | `interpreter/*.ts` | what has been gathered; the published index | read in stages, normalize, attest the scope, classify, publish; page, window, look closer |
| Output | `adapter/budget.ts`, `render.ts`, `document.ts`, ... | none | fit a result into the host's limits |
| Resolution | `runner/resolution.ts`, `discovery.ts`, `toolchain.ts`, `adapter/root-roles.ts` | none | from request and project to an `xcodebuild` command |

How they interact. A call first reconciles its root, and finishes what it could
adopt; then it enrolls and polls until its ticket is the first and the slot is
free. Under the lock it creates the run's directory and record, and takes the
slot. It spawns the supervisor, which records itself, spawns the gated child,
records that, records the authorization, and only then opens the gate. The
supervisor watches, terminates, and records what it could confirm. The call
interprets the Result Bundle, publishes, marks the record completed and gives
the slot back, or quarantines the root when the end could not be confirmed.
Any of the processes may die anywhere; the next pass of any other process
takes up what is left. Completed runs are read through an index and, lazily,
through their bundle, under a lease; background threads delete their
DerivedData, evict them by age and size, and collect whole roots that nobody
has opened for long. What a caller gets is text cut to what his host lets
through.

What is hard, and the property that makes each component correct:

- *Queue*: many processes, one file. First come first served; no live caller
  loses its place; no stray ticket; the slot never names a run that has no
  record; every call ends.
- *Records*: several unlocked writers, each with its own older copy. Records
  only grow; nothing executes unrecorded.
- *Slot and quarantine*: crashes of hosts and supervisors. One run executes at a
  time; what executes holds the slot or the root; both come back.
- *Gate and supervisor*: exit, cancellation, deadline, lost channel, failed
  writes in any order. Nothing passes the gate before its authorization is
  durable; the trigger is durable before the signal; a clean verdict means
  nothing is left; a supervisor ends.
- *Recovery*: passes in several processes. One finalizer per run; no adoption of
  what may still execute.
- *Retention and leases*: passes, readers and reclamations that meet without a
  common lock, and crashes between move, tombstone and deletion. Evidence is
  announced before it is gone; a lease in time keeps its run; no cache goes
  under a build; no evidence goes for bytes that are free already.
- *Housekeeping*: stale copies of the registry. A root in use is never taken
  away; entries without a directory go.
- *Startup, tool boundary*: late probes, aborts at any instant. An available
  tool stays available; no answer denies a run that was admitted; an aborted
  caller is answered.
- *Interpreter*: reads that fail, are late or are cancelled. A pass is earned; a
  facet advertised whole is whole; a closer look is at the run's own bundle.
- *Paging, output*: pages of pages. Reading on gives every record once and ends;
  no host cuts the text; no cursor is lost on the way.

`PROJECT.json` lists these components with their status and, under `hazards`,
what is hard to test in each, at its line.

## 2. The modules

| Module | Models | Lines it follows |
|---|---|---|
| `ExecutionSlot` | the promise of one storage scope, without processes and files | - |
| `AdmissionQueue` | `admit`, `reap`, `releaseSlot`, as every process runs them | `queue.ts`, `prepare` in `service.ts` |
| `RunLifecycle` | the calls, the reconciliation passes, the supervisors and the process groups of several runs | `service.ts`, `recovery.ts`, `supervisor.ts` |
| `Supervision` | one supervisor, its child and its record in detail | `supervisor.ts`, `gate.ts`, `termination.ts`, `supervisor-entry.ts` |
| `Retention` | leases, retention passes, evictions and reclamations of one root (EXTENDS `Eviction`) | `retention.ts`, `leases.ts`, `reclamation.ts`, `inspect` in `service.ts` |
| `Eviction` | what a pass over all roots gives back, by age, count and bytes | `planEviction` and `reclaimCaches` in `retention.ts`, the total in `housekeeping.ts` |
| `Housekeeping` | the registry of roots, the passes over it, the plugin starts that write it | `housekeeping.ts`, `housekeeping-entry.ts`, `startup-ports.ts`, `runtime.ts` |
| `ToolBoundary` | one plugin: its startup, its recoveries, its calls | `startup.ts`, `setup.ts`, `availability.ts`, `tools.ts` |
| `Interpretation` | from a Result Bundle to a verdict and an index | `interpret.ts`, `decode.ts`, `occurrences.ts`, `attestation.ts`, `classify.ts`, `diagnostics.ts`, `index-model.ts` |
| `Output` | limits, budget, documents, serialization | `budget.ts`, `document.ts`, `output.ts`, `limits.ts` |
| `Focus` | the closer look at one record (EXTENDS the two above) | `focus.ts`, `frames.ts`, `paging.ts`, `service.ts` |
| `Inspection` | a caller who reads summary, pages, log and closer looks (EXTENDS `Focus`) | `paging.ts`, `cap.ts`, `cursor.ts`, `log.ts`, `render.ts`, `tools.ts` |
| `*Proofs` (seven) | theorems about `AdmissionQueue`, `Supervision`, `Retention` with `Eviction`, `ToolBoundary`, `Housekeeping`, `RunLifecycle` with `ExecutionSlot`, and `Inspection` with all it rests on (`ReportingProofs`) | |
| `Sums` | lemmas about sums over finite sets, and about least elements, which `RetentionProofs` and `ReportingProofs` cite | |
| `MC*` (seven) | instances for TLC; `MCReporting` is that of `Inspection` | |

Definitions whose comment begins with *Mutant*, or that stand beside a
definition with one clause of it missing, are plausible slips: under each of
them TLC refutes the property it is listed with in `PROJECT.json`.

`RunLifecycle` sits in the middle: its slot, quarantine and executing
groups implement `ExecutionSlot` (`ImplementsExecutionSlot`, with
`Slot == INSTANCE ExecutionSlot WITH executing <- ...`); it leaves the order of
admission to `AdmissionQueue`, the reaching of a verdict to `Supervision` and
what a result says to `Interpretation`. `Retention` sees a run only from
outside (admitted, completed, building), and `Housekeeping` a root only as a
whole. `Inspection` composes interpretation, publication, retained bundle and
caller: what a caller reads is compared with what happened.

**AdmissionQueue.** One step per critical section of the root lock and per look
at the cancellation flag. `tickets`, `nextSequence`, `activeRun` and
`quarantine` are the file; `directories` and `recorded` the run directories and
those that hold a record; `phase` is where each call of `admit` stands (between
two iterations `polling`, before the lock `attempting`, on its way out
`releasing`). `reap` is part of what every look reads (`Reap`), and is written
back only by the looks that write, as in the code: a call that merely waits
leaves dead tickets in the file. Each exit of `admit` is an action. A lock that
is not free before the deadline ends as the deadline does. `ReconcileSlot` is
what a pass may write, as freely as possible. `Origin` is what the monotonic
clock of each process reads at time 0; origins are unrelated, as the code says
itself (`clock.ts:15-16`, `service.ts:1191-1192`). A ticket nevertheless carries
the deadline of the process that wrote it, and `Reap` compares it with the clock
of the process that looks (`queue.ts:321-323`), so a process whose clock is ahead
drops tickets whose callers have time left. What a place in the queue is worth
is therefore stated with `InTime`, while no clock has reached the deadline;
`LiveCallerKeepsPlace` and `OlderLiveNotOvertaken` state what the comments of
`queue.ts` promise, and are refuted (further instances).

**RunLifecycle.** `active` and `quarantine` are the file, `record[r]` is
`metadata.json`. A task is a call in its process: `pc`, `mine` (the run it
drives or adopted), `todo` (the runs its pass claimed), `copy` (the record it
will publish from). `supervisor[r]` and `held[r]` are the supervisor and the
record *it* holds; `leader[r]` and `offspring[r]` the process group. Every write
replaces the whole record by the writer's copy, so a lost update is a behaviour
of the model. `Glance` is the pass of startup and housekeeping, which claims
nothing; `Defer` the pass that finds the lock taken. `Mortal`, `Unconfirmed`
and `Faults` say what an instance includes beyond the normal course.

**Supervision.** `sup` is where `superviseRun` stands. Between two awaits its
actions follow each other and no event is delivered (`Awaiting`, `Running`);
the group, the disk and a crash of the supervisor interleave everywhere. The
gate's shell is a process (`starting`, `published`, `released`, `announcing`,
then xcodebuild `running`). A timer is an action that may happen whenever it is
awaited. Any write in `FallibleWrites` may fail. xcodebuild may itself exit with
126 or 127, from which `ExecEvidence` concludes, as `gate.ts:212` does, that it
never ran; `NoIsWarranted` therefore excepts that status.

**Retention.** A pass (`pass[i]`) reads its clock, reconciles, tries the root
lock, reads the leases, empties the trash, collects runs and caches, and evicts
what it chose: move, announce, delete, one action each, with a death of the
process between any two. Readers and reclamations take no lock. The shared
cache goes only with a verdict about the very owner of the slot. Which
evictable runs a pass evicts is left open, so whatever `planEviction` decides
(`Eviction`) is among what is checked. `reader[e].shield` is a history flag: the
lease was published while its run was there and no pass had read the leases.
`swept` remembers announcements that served their time.

**Eviction.** What is decided without waiting for anybody, as functions: the
runs and caches of a root, with their ages and bytes, to what goes of them
(`planEviction`, `reclaimCaches`), and a pass over several roots as the sequence
of its visits, beside what is then really on the disks. A loop that takes the
oldest until its target is met is the set of what it takes.

**Housekeeping.** A section under the registry lock is one action; that it may
be held is `RegistryBusy`. Entries and directories have an age of two values,
which is all that the two limits tell apart. A pass works on the copies it
took (`order`, `seen`), and a stale root is judged once more under its own
lock (`LockStaleRoot`), then moved aside and deleted. `ReadForRuntime` and
`RememberRuntime` are the two halves of the one writer that takes no lock.

**ToolBoundary.** Everything one macrotask of the event loop does is one
action. Each bounded item is `running` until it finishes or its budget is over;
`live[p]` counts the executions of a probe that have not ended, including
abandoned ones. A call has two halves that race: the service (`resolving` ...
`over`) and the tool (`racing`, `waiting` after an abort, `contained` after an
exception). `Fault` adds what the passing run leaves out.

**Interpretation.** `pc` is the command being read. The caller may cancel and
the deadline may pass anywhere; every command may answer, fail, be read again
or time out. A request is what ran, with what was asked and how the process
ended, and the bundle it left; `found` is what `gather` has. Normalization of
test nodes (two identifiers, names of suites, attempts), scope attestation,
the contradictions of the summary and the rules of `classify`, in their order,
are operators. A device or configuration of a test is not told apart.

**Output, Focus, Inspection.** A block is a number of lines and of bytes with a
priority; `Serialize` drops whole blocks and cuts the last. A page takes the
records that fit, shortens or counts a first one that does not, and hands out a
cursor; the log is a sequence of bytes of which some continue a character. The
closer look takes the digest again, reads within its deadline, caps each list
and sheds the least important; a list that is shed from its end is the greatest
prefix that fits. A closer look at a test shows the messages of its failures as
the index holds them, already cut (`SummarySize`, `capMessage` of
`diagnostics.ts`); only a diagnostic's own message is read in full. Texts are
lengths; the sizes of the records are constants of the
instance. No definition is recursive, so that all of it can be reasoned about.

## 3. What is checked

Nine runs pass:

- **queue** (two calls, of one process or two; two run ids; a budget of
  three ticks of four; clocks one tick apart): a live caller is neither reaped
  nor overtaken while no clock has reached its deadline, a returned call has no
  ticket, slot and admissions name durable runs, and (fair) every call that
  enrolls ends.
- **lifecycle** (three processes of which two may crash, two runs, one of which
  may end unconfirmed): one execution at a time, the slot or a quarantine covers
  it, what executes is recorded, an unfinished run keeps the slot, records only
  grow, and the refinement of `ExecutionSlot`.
- **lifecycle_storage** (two calls in one process, a third elsewhere; a crash in
  the middle of `prepare`, publications that throw): a completed run that
  executes is quarantined, and a run has a single finalizer, through partial
  failures.
- **lifecycle_live** (two processes, one may crash, fair): every run gives up the
  slot and every quarantine is lifted.
- **supervision** (one run, every write may fail): gate, trigger, evidence and
  quarantine rules, the supervisor ends, a cancelled run stops executing.
- **retention** (one old run with DerivedData of its own, one that is admitted
  on the way; a pass, a reader, a reclamation, one death of the pass): evidence
  is announced before it is gone, a lease in time keeps its run, no cache goes
  under a build. Beside it `EvictionIsWarranted`, evaluated in the first state for every
  inventory of two roots: without its last eviction the user's target would
  have been missed, no run goes for bytes while a cache of its root could go,
  and a target that is missed is missed for what may not be evicted.
- **housekeeping** (one root, one host that may die once and is started again, a
  stale registry written back by `rememberRuntime`): a root in use stays, and
  (fair) dead entries go.
- **tool_call** (one call, two recoveries, two revalidations): no answer denies
  an admitted run, an available tool stays available, and (fair) an aborted
  call is answered.
- **reporting** (bundles with up to two tests of eighteen kinds, five builds, six
  summaries, every scope, exit and trigger, three hosts): a pass is earned; what
  is published and looked at closely is true of the run (`EvidenceIsTrue`);
  reading on skips nothing and loses no cursor (`NothingSkipped`).

Three runs refute what a comment or the repository's README states:

- **lost_supervisor**: a supervisor that dies after opening the gate is taken by
  its host for the end of the run (`service.ts:1161`, 386-407); the slot goes
  back and a second run executes beside the first (repository README:384-386).
- **starved_root**: the roots a pass could not reach go first in the next, but in
  the order of their keys, and displaced by what *that* pass leaves: of three
  roots with time for one the last is never maintained (`housekeeping.ts:296`;
  58-62).
- **unread_summary**: a deadline or a cancellation before the summary is read
  leaves the failures facet advertised as whole, and an empty page of it says
  that nothing failed (`interpret.ts:373-376`; 396-399, `paging.ts:334-340`).

The passing lifecycle runs leave the first out by their constants (`Faults`,
`Unconfirmed`): their properties hold of a program in which the supervisor
survives its launch, hosts do not die in the spawn window and one run ends
unconfirmed. That is a real restriction: the instances below say what lies
beyond it, and the theorems of section 4 which property needs which part of it.

### Further instances

More behaviours TLC shows with a small change to a configuration. They are not
among the runs, but each was produced this way.

| Base | Change | Refutes | Behaviour |
|---|---|---|---|
| `MCAdmissionQueue.cfg` | none | `LiveCallerKeepsPlace`, `OlderLiveNotOvertaken` | a process whose monotonic clock is ahead reaps the ticket of a caller that has time left, and may admit a later call past it (`queue.ts:192`, 322; 225 and 316-318 say who keeps a place; `service.ts:1191-1192` that the clocks are unrelated) |
| `MCRunLifecycleLostSupervisor.cfg` | `Faults = {"spawnWindow"}` | `RecordsOnlyGrow` | a host dies between spawning its supervisor and the supervisor's first write; a recovery completes the run, and the supervisor then writes `supervisorReady` over it (`recovery.ts:290`, `supervisor.ts:92`; `state.ts:40`) |
| the same | `Faults = {}`, `Unconfirmed = {r1, r2}` | `SlotCoversExecution` | the quarantine of the first of two runs, published late, masks that of the second, whose slot is given back while it executes (`queue.ts:300`; `recovery.ts:10`) |
| the same | `Faults = {"readyUnread"}` | `SlotCoversExecution` | the handshake timer kills a supervisor whose `ready` waits unread while its run has launched (`service.ts:1029`) |
| the same | `Faults = {}` | `QuarantinedNotBusy` | a quarantine published beside another run's slot (`queue.ts:306`; `recovery.ts:235`) |
| the same | none | `AdoptedIsAccounted` | a recovery finishes a run whose recorded processes are gone and whose descendants are not (`recovery.ts:306`; 358-361) |
| `MCRunLifecycleLive.cfg` | `Faults = {"prepareCrash"}` | `QuarantineLifts` | a crash between a run's directory and its record leaves a directory no pass can judge, and the root stays quarantined (`service.ts:255`, `recovery.ts:330`; `recovery.ts:5-6`) |
| the same | `Faults = {"publishFails"}` | `SlotComesBack` | a publication that throws strands what was adopted with it (`service.ts:592`, `recovery.ts:215`) |
| `MCSupervision.cfg` | none | `NoMeansNotExecuted` | an xcodebuild that ran and itself exits with 126 or 127 is recorded as never executed (`gate.ts:212`; 31-34, 46-47) |
| the same | `FallibleWrites <- NoWrite` | `YesMeansExecuted` | a gate that dies between announcement and exec counts as executed (`gate.ts:212`) |
| the same | `FallibleWrites <- LateWrites` | `UncertaintyIsDurable` | a lost trigger and a lost conclusion leave no durable sign (`supervisor.ts:250`) |
| `MCRetention.cfg` | none | `EvictedIsNotUnknown` | between the move to the trash and its tombstone a reader is told `notFound` (`retention.ts:14-15`) |
| the same | `Leftover = {0, 2}` | `EvictionIsWarranted` | trash that a crash left is in the user-wide total; a visit empties it and is not credited with it, so that the roots still pay for it in evidence (`housekeeping.ts:217`, `retention.ts:423`; `housekeeping.ts:214-216` says that this must not be) |
| the same | none | `RetainedWithinTarget` | a root keeps evidence it could evict while it holds more than its target, because the target is compared with the evictable runs alone (`retention.ts:270-274`; 128-134) |
| `MCHousekeeping.cfg` | none | `MovedAsideIsDeleted` | a crash between the move of a stale root and its deletion leaves a tree nobody looks for (`housekeeping.ts:479-487`) |
| the same | none | `IntervalsAreKept` | `rememberRuntime` undoes the claim of a pass that it read before (`runtime.ts:191`) |
| `MCToolBoundary.cfg` | `Fault = {"slowLock"}` | `AnswerNamesItsRun` | the root lock is held for longer than the abort wait; the caller is told that nothing was admitted, and then it is (`tools.ts:332`) |
| the same | `Fault = {"unwritable"}` | `AnswerNamesItsRun` | the record cannot be written after admission, and the failure is reported as one without a run (`service.ts:314`, `tools.ts:227`) |
| the same | `Fault = {"vanished"}` | `AnswerNamesItsRun` | the record cannot be read after admission, and the result names no run (`service.ts:302`) |
| the same | `Fault = {"unrenderable"}` | `NeverThrows` | the containment of a failure awaits an admission that was rejected, and throws (`tools.ts:216`; 197) |
| the same | none | `NothingLeftRunning` | the probe of the runtime takes no signal and outlives setup (`startup.ts:26-31`) |
| `MCReporting.cfg` | `Host <- SmallHost`, without `Roomy` | `FactsReachCaller` | with `max_lines` 60 a page that fits its budget does not fit once it is text, and its cursor is lost (`tools.ts:440`) |
| the same | `Host <- TinyHost` | `HostNeverCuts` | with a `max_bytes` below the length of the note that output was cut, the note alone is longer than what the host lets through (`budget.ts:259-263`; 113-115 says that absurdly small limits are included) |
| the same | none | `FocusReachesCaller` | a closer look is fitted to the cap of a response and not to the budget of the host, and shed (`tools.ts:584`, `focus.ts:298`) |
| the same | none | `MessagesAreMarked` | a closer look at a test shows messages the index has cut to 1000 characters, without a mark (`focus.ts:193-219`, `limits.ts:21-22`; `focus.ts:10-12` says that what is shortened is marked) |
| the same | none | `BuildFailureStands` | test results that do not decode hide the errors of a build that was read whole (`interpret.ts:306`; `classify.ts:10-13`) |
| the same | `Disturbed = {"before", "after"}` | `EvidenceIsTrue` | a bundle changed after its digest was taken again is read as the run's (`service.ts:1331-1347`) |

Two more disagreements showed while modelling and are kept as the code has
them: a message with an unreadable line shaped like a frame and a source line
counts as read whole, because only the totals are compared (`frames.ts:131-137`,
`ExtractFrames`); and the marks for a shortened field and a shortened
collection are never printed (`tools.ts:678-697`, `TruncationLines`).

### Bounds

- *queue*: two calls and two processes let every pair of critical sections meet;
  a third call adds longer queues, which the theorems cover. Time 0..4 with a
  budget of 3 lets one call time out, or be reaped, while another still waits,
  and clocks one tick apart let a deadline pass on one before it does on the
  other, with two ticks before that in which a place has to be kept.
  Two run ids let an id collide. A call enters only while its whole wait lies in
  modelled time, and time stops for a call about to enroll; both bounds are
  named at the actions `Enter` and `Tick`.
- *lifecycle*: two runs are what mutual exclusion and masking need; three
  processes let two crash and the third recover. Runs are not reused: a run id
  names one run. `Unconfirmed` limits the runs that may end with a surviving
  group (see above).
- *supervision* has no bound: one run is finite, and every write may fail.
- *retention*: one pass, one reader, one reclamation, one death of a pass; one
  run that is old at the start and one admitted later. `Lifetime` and
  `TombstoneLife` are one tick, `Horizon` two, so that a lease and an
  announcement can each be in time, just over and long over. The inventories of
  `Eviction` are all subsets of five runs and two caches in the first root and
  of three runs in the second, whose lock may be held: ages on both sides of
  the limits, more runs than may be kept, one that may not be evicted, a cache
  that cannot be deleted; the trash is empty (see above). Two passes at once,
  several readers and more deaths are covered by the theorems, which bound none
  of them.
- *housekeeping*: one root and one host that may die once. Two roots let one be
  displaced by another; `TypeOK` and `RootInUseStays` were also checked with
  `Roots = 2` (2.5 million states), and the latter is proved for any number. The
  liveness property needs a single root to fail, as its mutant shows.
  `starved_root` has three roots, the least with which one is always left.
- *tool_call*: one call, since calls meet only in the availability of the tool
  and the lock; two recoveries, so that one may be late while another finishes;
  two rounds of probes, so that an abandoned one meets its successor.
- *reporting*: the requests `MCRequest` vary everything a verdict depends on;
  `MCOpened` and `MCFocused` say which of them are also read page by page and
  looked at closely. The limits are the program's, about a thousand times
  smaller, so that a page of two records is already too long. The three hosts
  are one that declares nothing, one with little room and one that cannot be
  read. The log has eleven bytes, some of them the middle of a character. A
  bundle may be disturbed before its digest is taken again.

Deadlock is checked in the lifecycle runs, where some process always lives.
Elsewhere everything that was begun may have ended, and the configurations say
so.

### Fairness

- *queue*: a process that lives keeps polling (`POLL_INTERVAL_MS`,
  `LOCK_POLL_INTERVAL_MS` are timers of its event loop), and time passes. Nothing
  makes a call begin.
- *lifecycle_live*: a living process and a living supervisor take their steps,
  since every wait in them has a deadline; a refused gate exits; xcodebuild and
  what it left end at last. `Reconcile` is strongly fair: the lock is tried by
  every call and is not held for ever, so not every pass is deferred.
- *supervision*: the supervisor's event loop runs; a group that got SIGKILL dies;
  a gate whose pipe is closed exits. xcodebuild by itself need never end: that
  the supervisor ends nevertheless is the point of its deadlines.
- *housekeeping*: users go on starting OpenCode, so that the interval between
  two passes is over again and again; the thread of a pass that lives runs; a
  registry lock that is tried again and again is found free again and again
  (strong fairness of the steps that take it). `starved_root` is refuted under
  the same fairness: it is the order of the roots that starves one, not the
  scheduler.
- *tool_call*: timers fire, the event loop runs, and the root lock is given at
  last. Nothing is promised of probes, requests and runs, which may hang.

## 4. What is proved

| Theorem | States | Argument |
|---|---|---|
| `AdmissionQueueProofs!TypeCorrect` | `TypeOK` | by itself inductive |
| `TicketsInOrder`, `NoStrayTicket`, `RunsDurable` | `TicketsMatchCalls`, `ReturnedHoldsNoPlace`, `AdmittedRunsAreDurable` | the inductive invariant `IInv`, their conjunction with `TypeOK` and `CallsConsistent` |
| `PlaceKept` | `LiveTicketKept`, whatever the origins of the clocks | a ticket leaves only when its owner is dead or some clock has reached its deadline, and clocks never go back |
| `FirstComeFirstServed` | `NoOvertaking`, whatever the origins | the head has the smallest number of what reap keeps, and `PlaceKept` says that includes everyone who waits in time |
| `RunLifecycleProofs!LifecycleTypes`, `LaunchesAreRecorded`, `FinalizersAreSingle` | `TypeOK`, `LaunchIsRecorded`, `OneFinalizer`, if `Confined` | one inductive invariant `IInv` (below), which `LifecycleInvariant` states |
| `CompletionsAreAccounted` | `CompletedIsAccounted`, if `Confined` and `Watchful` | the same |
| `RunsAreSerialized` | `OneAtATime`, if `Confined`, `Watchful` and `OneUnconfirmed` | the same |
| `ExecutionIsCovered` | `SlotCoversExecution`, if besides `prepareCrash` is no fault | the same |
| `SlotIsKept` | `UnfinishedHoldsSlot`, if `Confined`, `OneUnconfirmed` and `Stored` | the same |
| `RecordsGrow` | `RecordsOnlyGrow`, if `Confined` | whoever may write a record holds its present value |
| `SlotSerializes` | `ExecutionSlot` lets one run execute at a time, and covered | `Acquire` needs an empty `executing`; every give-back is by a run that does not execute |
| `LifecycleImplementsSlot` | the refinement of `ExecutionSlot`, under the hypotheses of `ExecutionIsCovered` | each of the actions maps to an action of the slot or changes none of it |
| `SupervisionProofs!TypeCorrect`, `GateHolds`, `TriggerComesFirst`, `CleanEnd`, `NoIsHonest` | `TypeOK`, `ExecOnlyWhenDurable`, `TriggerBeforeSignal`, `UnquarantinedIsGone`, `NoIsWarranted` | one inductive invariant (`Supervised`) |
| `TriggerStays` | `FirstTriggerStays` | the trigger on disk is the one in memory, which `fix` never replaces |
| `RetentionProofs!RetentionTypes`, `EvidenceIsAnnounced`, `ReadersAreProtected` | `TypeOK`, `GoneWasAnnounced`, `LeaseProtects` | one inductive invariant `IInv` |
| `CacheIsKept` | `BuildKeepsItsCache` | a pass that may still delete holds the lock, and its verdict is about the present owner |
| `EvictionWarranted` | `EvictionIsWarranted`, if `NoLeftover`: for any roots, runs, caches, ages, sizes and limits | what is shed is a prefix of the order of age, the least whose rest fits; a visit lowers the total by exactly what it frees (below) |
| `ToolBoundaryProofs!BoundaryTypes`, `AvailabilityIsKept` | `TypeOK`, `AvailableStays` | it is replaced only by a revalidation, and one is in flight only while the tool is unavailable |
| `AnswersNameTheirRun` | `AnswerNamesItsRun`, if no `Fault` beyond `unrenderable` | what each half of a call knows of the run, per `pc` of the other |
| `HousekeepingProofs!RootsInUseStay` | `RootInUseStays` | what a pass saw under a root's own lock stays true while it holds the lock |
| `ReportingProofs!InterpretationTypes`, `PassesAreEarned`, `ReportsAreTrue` | `InterpretationTypeOK`, `PassIsEarned`, `ReportIsTrue` (what `EvidenceIsTrue` says of the report), of `InterpretationSpec` | one inductive invariant `InterpretationInv` (below), which `InterpretationInvariant` states; then the outcome is that of the first rule that applies |
| `LeastImportantGoFirst`, `EnvelopeIsKept` | which blocks of a document `Serialize` keeps | what survives at every step is a prefix of the order of importance |
| `TextFitsTheHost` | no text exceeds the host's ceiling, if `NoteFits` | a text that fits is within the budget, one that is cut is within it or is the note alone, and both are within the ceiling for every value the host may declare |
| `ReadingTypes`, `NothingIsSkipped`, `EvidenceIsTheRuns` | `TypeOK` and, each under the hypotheses below, `NothingSkipped` and `EvidenceIsTrue`, of `Inspection!Spec` | one inductive invariant `ReadingInv` (below), which `ReadingInvariant` states |
| `InspectionInterprets` | `Spec => InterpretationSpec` | no step of a reader or of a closer look changes what was gathered or published, so what is proved of every interpretation (`PassIsEarned` among it) is so of those that are read |

Why the strengthenings are needed.

- *Queue*: that a ticket matches its call is kept only if a call that holds a
  number has really enrolled and a call before enrolling holds none
  (`CallsConsistent`).
- *Lifecycle*: nothing in `OneAtATime` says why a second run cannot start.
  `CallInv` says what each call holds at each `pc`: the run it drives is owned
  by its process until it is completed, and after that too if the completion
  could not be written (`Driven`); its copy is the record unless the supervisor
  is the one who writes. `ClaimInv` says that a run is claimed once: the owner
  on record is the process that has it in hand, and a process with a run in
  hand is busy, so no pass takes it. `RunInv` ties record, supervisor and group
  of each run: a supervisor that may write holds the exact record
  (`Recorded`), what runs behind the gate is authorized on disk (`Authorized`),
  and, where supervisors do not get lost, a group that executes is watched or
  its run is quarantined (`Watched`). `HoldInv` is about two runs. A run is
  `Live` while somebody is still to launch or end it, `Standing` while it is
  quarantined and may still be attributable; `AloneInv` says that one run at
  most is either, and `HoldsRule` that the slot or the quarantine of the file
  names it. It needs that at most one end goes unconfirmed, and is an
  implication for that reason: the rest of `IInv` holds without. None of the
  four is inductive without the others.
- *Supervisor*: that a run is on disk as authorized follows from where the
  supervisor and the gate stand together (`GateInv`); that a clean verdict means
  an empty group needs what each observation established and that nothing is
  spawned once the leader is gone (`EvidenceInv`); that the trigger precedes the
  signal needs that memory and disk differ only when the supervisor knows it
  (`TriggerInv`). `FallibleWrites` is arbitrary.
- *Retention*: a pass works under the lock and with a time that is past
  (`PassInv`); a reclamation has a run in hand (`JobInv`); between the
  announcement and the deletion the tombstone stands (`AnnouncedInv`); a pass
  that has read the leases spares every run whose lease was there
  (`ShieldInv`); one run builds at a time, the owner of the slot or the orphan
  of a quarantine (`BuildInv`); a verdict that an owner is idle stays true of
  that owner, whoever owns the slot since (`VerdictInv`).
- *Eviction*: the two loops of the code, over runs by age and over caches by age,
  are in the model the set of what they take. `ShedTakes` says that this set is
  closed towards the older and least: without any one of its members the rest
  would not fit (`OlderOrders`, `OldestExists`). Bytes are sums over finite
  sets, whose lemmas are in `Sums` and go by induction over the size of a set,
  through a least counterexample, since the library's induction takes an
  operator. `VisitWarranted` is one visit, `TotalChanges` what it does to the
  total of the user, and `PassWarranted` the sequence of visits, again by the
  first visit that would fail.
- *Tool boundary*: a revalidation is in flight only while the tool is
  transiently unavailable (`RecoveryInv`); each start of a probe leaves at most
  one behind, and none of the toolchain's (`ProbeInv`); `CallRule` says for
  each pair of places of the two halves of a call whether the slot is taken and
  whether that was announced.
- *Housekeeping*: under the lock of a stale root the queue stays idle and no
  lease that was seen appears (`LockInv`); `ShapeInv` says which variables are functions.

- *Interpreter*: the three properties are about what is published, in one step,
  so the invariant is about what is gathered before. `Sound` says that what is
  marked complete is the bundle's own: the errors of a build that had none it
  could not read, the occurrences of a hierarchy in which every test has a name
  and says how it ended. `Marked` says that a read that was late, failed for
  good or was given up leaves a defect or a cancellation behind, so that a
  report without one was read in time, of a bundle that was there. Every read
  keeps both (`...IsSound`, one lemma for each). That a pass is then earned
  goes through the rules of `classify` as a list: one applies (`OneDecides`),
  only the twelfth says passed (`RuleOutcomes`), and those before it say what
  did not happen (`OutcomesRest`). The occurrences are the tests of the
  hierarchy one by one (`NormalizedTests`), for sequences of any length
  (`KeepingKeeps`, by the least position that would be wrong), and a test
  failed exactly if its attempts, aggregated by precedence, say so
  (`FailureIsFailure`).
- *Reader*: `ReadingInv` is `InterpretationInv` with three more parts. `ReaderInv`
  says of the pages seen that each begins where the one before ended, is of the
  same facet and status, and holds as much as its cursor says (`Paged`); that
  the caller's cursor is the last page's; and nothing of the report changes
  under him. That pages tile (`PagedTile`) then goes by the least page that
  would be wrong. What one page holds is a greatest number of records that
  fits, so a page always takes a record or counts one left out; a window of the
  log ends before a character, since one begins within any four bytes
  (`StartIsNear`), and the part of it that fits a response does too. A page that
  fits its budget is not shed as text because the sums of its lines and bytes,
  block by block, stay within what `pageBudgetFor` leaves. `LookInv` says, for
  each step of a closer look, what is known: while it is under way the bundle
  is there and its subject is one of the report's; once the digest was compared
  (`read`) the bundle is the one digested; an answer is either marked as cut or
  the whole of what there is (`About`), within the cap. `NotLooking` ties the
  two: there is a look only where the caller waits for one or was shown one.
  The lemmas about `Fit` say that it sheds nothing where all fits and marks
  what it sheds, for lists of any length.
  `ReportIsTrue` and the type invariants follow from the parts.

Two errors of the models came to light in the attempt. A retained bundle that
had become unreadable, or of another toolchain, also counted as gone, so that
the first check of `lazyDetailFor` hid the two after it. And a host that declares
fewer bytes than the note of a cut was excluded by assumption, although
`budget.ts` accepts any positive number: that is a hypothesis of the theorem now,
and one of the further instances.

The composition: `LifecycleImplementsSlot` establishes that the lifecycle
implements `ExecutionSlot`, and `SlotSerializes` that the slot serializes;
`RunsAreSerialized` is also proved directly, with one hypothesis less.

Assumptions. Those of the modules (`...Assumption`, each evaluated by TLC on
its instance), and:

- `Confined` for all of `RunLifecycleProofs`: no process dies in the spawn
  window, between spawning a supervisor and its identity on record. Such a
  death refutes every property of the run (second of the further instances).
- `Watchful` (no supervisor is lost after the launch: neither `supervisorLost`
  nor `readyUnread`) where the theorem is about what executes. `lost_supervisor`
  refutes `OneAtATime` without it, and with the same faults TLC refutes
  `SlotCoversExecution` and `CompletedIsAccounted`.
- `OneUnconfirmed` (the end of at most one run goes unconfirmed) where it is
  about two runs: the root has one place for a quarantined run, and the third of
  the further instances shows the second masked.
- No `prepareCrash` for `SlotCoversExecution` and the refinement, and `Stored`
  (nor `publishFails`) for `UnfinishedHoldsSlot`: a directory without a record
  has the root quarantined in its own name and takes the slot from the run that
  has it, and a publication that throws leaves a run unfinished that no longer
  has it. TLC refutes exactly these with those faults; one run still executes at
  a time.
- `NoLeftover` for `EvictionWarranted`: the trash of every root is empty when
  the pass comes. A further instance shows evidence evicted for bytes that
  the emptied trash had already given back.
- No `Fault` but `unrenderable` for `AnswersNameTheirRun`; the further
  instances have a counterexample for each of the others.

- Nothing of the requests of `Interpretation` but their types
  (`RequestAssumption`): its nodes, attempts and errors are sequences of any
  length. Nothing of what a closer look may read but its shape
  (`FocusAssumption`), and of the limits but the relations between them that the
  constants of `limits.ts` have (`OutputAssumption`, `InspectionAssumption`).
- `Sized` for what is read: every record, message and part of a text has a
  number of bytes. It quantifies over all records there may be, which is why it
  is a hypothesis and not an assumption TLC evaluates.
- `WholeCharacters(Log)` likewise: the log is UTF-8, but may end inside a
  character. `chunkLog` promises nothing of other bytes; nor does the theorem.
- `NoteFits` for `TextFitsTheHost` and `NothingIsSkipped`: a host that declares
  a limit in bytes has room for the one line that says something was cut.
- `Undisturbed` for `EvidenceIsTheRuns`, which says of a test's failure
  messages that they are those of its record in the index, cut there without a
  mark (`MessagesAreMarked`, a further instance): nobody changes the bundle after its
  digest was taken again (a further instance has a counterexample), and no
  message has both an unreadable line shaped like a frame and a source line
  (the first of the two disagreements above).

Only model-checked: liveness, which needs fairness and `ENABLED`, beyond TLAPS
(`EveryCallReturns`, `SlotComesBack`, `QuarantineLifts`, `SupervisorEnds`,
`CancellationStopsTheRun`, `DeadEntriesGo`, `AbortIsAnswered`). Every other property
of a passing run is stated by a theorem, under the hypotheses named here.

## 5. What is not modelled

- Wording, sanitizing, paths and permissions; the sizes of texts are constants.
- A probe that fails (`ps` refused) and answers as if the process were gone, and
  process ids that are reused: the models' probe tells the truth. Both are
  listed as hazards without a property.
- Tests that share a name and differ in device or configuration.
- The cap on the number of tombstones, and the digests a pass verifies.
- Resolution, discovery and toolchain: a sequential reading of a project and of
  `xcodebuild`'s answers that keeps no state and has table tests.
- `scripts/`: not part of the program.

## 6. Plan

Done: the components of section 2 with their runs; the safety of the queue, the
slot, the lifecycle, the supervisor, retention, the tool boundary, housekeeping,
interpretation, inspection and output as theorems: every invariant and action
property of a passing run. Left:

1. `Supervision` as an implementation of the coarse supervisor of
   `RunLifecycle`, so that the lifecycle rests on the detailed one.
2. The answers of process probes as values of their own, which may be wrong in
   the ways `identity.ts` allows.
3. The identity of tests with device and configuration.
