--------------------------- MODULE Interpretation ---------------------------
(***************************************************************************)
(* From a Result Bundle to the summary and the index of a Test Run: the    *)
(* reads through xcresulttool (interpreter/xcresulttool), what is gathered *)
(* from them (interpret, decode, occurrences), the scope the observed      *)
(* tests attest (attestation), the one outcome (classify) and the index    *)
(* published with it (diagnostics, index-model).                           *)
(*                                                                         *)
(* The caller may cancel and the deadline may pass at any time; everything *)
(* between two reads is one action.  A name that is missing or empty is    *)
(* NoName, and a test is the list of its attempts and failure messages.    *)
(***************************************************************************)
EXTENDS Integers, FiniteSets, SequencesExt

CONSTANTS Request  \* the requests: what ran, and the Result Bundle it left

IsSequence(s) == s \in Seq(ToSet(s))

ASSUME RequestAssumption ==
  \A r \in Request :
    /\ r.exit \in {"yes", "no", "unknown"} /\ r.scope.kind \in {"all", "selected"}
    /\ {r.present, r.toolchain, r.bundle.available, r.bundle.hasTests} \subseteq BOOLEAN
    /\ \A s \in {r.bundle.build.errors, r.bundle.tests.nodes, r.bundle.summary.failures} : IsSequence(s)
    /\ \A t \in ToSet(r.bundle.tests.nodes) : IsSequence(t.attempts) /\ IsSequence(t.failures)
    /\ IsFiniteSet(r.scope.tests)

VARIABLES
  request,  \* the request interpreted, with its Result Bundle
  signal,   \* whether the caller has cancelled
  late,     \* whether the deadline of the interpretation has passed
  pc,       \* the command being read, or start, or published
  again,    \* how often the command has been read again
  found,    \* Gathered
  report    \* the summary and the index, once published

interpreting == <<request, signal, late, pc, again, found, report>>

NoName == ""
NoBundleNode == "outside every bundle"
Unstated == -1
READ_ATTEMPTS == 2
Command == {"metadata", "availability", "build", "tests", "summary"}

\* The first of a list of names that is one.
FirstName(names) ==
  LET i == SelectInSeq(names, LAMBDA n : n # NoName) IN IF i = 0 THEN NoName ELSE names[i]

Number(s, Test(_)) == Cardinality({i \in DOMAIN s : Test(s[i])})

\* The elements of a sequence that are in a set, in their order.
Keeping(s, kept) ==
  LET first[n \in 0 .. Len(s)] ==
        IF n = 0 THEN <<>>
        ELSE IF s[n] \in kept THEN Append(first[n - 1], s[n]) ELSE first[n - 1]
  IN first[Len(s)]

-----------------------------------------------------------------------------
(* Test nodes to occurrences. *)

MapStatus(result) ==
  CASE result = "Passed" -> "passed" [] result = "Failed" -> "failed" [] result = "Skipped" -> "skipped"
    [] result = "Expected Failure" -> "expectedFailure" [] OTHER -> "unknown"

Unrecognized(result) ==
  result \notin {"Passed", "Failed", "Skipped", "Expected Failure", "unknown", NoName}

\* Mutant: a test that passed in the end has passed.
AggregationPrecedencePassedFirst == <<"passed", "failed", "unknown", "expectedFailure", "skipped">>

AggregationPrecedence == <<"failed", "unknown", "passed", "expectedFailure", "skipped">>

AggregateAttempts(statuses) ==
  AggregationPrecedence[SelectInSeq(AggregationPrecedence, LAMBDA s : s \in statuses)]

\* The suite nodes above a test, outermost first; one whose two identifiers
\* name different suites leaves none, and marks all that is below it.
Ancestry(suites) ==
  FoldLeft(LAMBDA above, node :
             IF node.id # NoName /\ node.url # NoName /\ node.id # node.url
             THEN [suite |-> NoName, conflict |-> TRUE]
             ELSE [above EXCEPT !.suite = FirstName(<<node.id, node.url, node.name, @>>)],
           [suite |-> NoName, conflict |-> FALSE], suites)

DeriveIdentity(test) ==
  LET above == Ancestry(test.suites)
      parsed == FirstName(<<test.id.suite, test.url.suite>>)
  IN [identity |-> [bundle |-> test.bundle, suite |-> FirstName(<<parsed, above.suite>>),
                    test |-> FirstName(<<test.id.test, test.url.test, test.name>>)],
      complete |-> /\ test.id.test # NoName \/ test.url.test # NoName
                   /\ NoName \in {test.id.suite, test.url.suite} \/ test.id.suite = test.url.suite
                   /\ ~above.conflict
                   /\ NoName \in {above.suite, parsed} \/ above.suite = parsed]

Canonical(identity) == SelectSeq(<<identity.bundle, identity.suite, identity.test>>, LAMBDA n : n # NoName)

CollectOccurrence(test) ==
  LET derived == DeriveIdentity(test)
  IN [identity |-> derived.identity, complete |-> derived.complete,
      status |-> IF test.attempts = <<>> THEN MapStatus(test.result)
                 ELSE AggregateAttempts({MapStatus(a) : a \in ToSet(test.attempts)}),
      attempts |-> Len(test.attempts), failures |-> test.failures]

\* A test outside every bundle is no test; one in a bundle without a name is
\* a test nobody can name.
NormalizeTestNodes(nodes) ==
  LET named == Keeping(nodes, {t \in ToSet(nodes) : t.bundle \notin {NoName, NoBundleNode}})
  IN [occurrences |-> [i \in DOMAIN named |-> CollectOccurrence(named[i])],
      unnameable |-> Number(nodes, LAMBDA t : t.bundle = NoName),
      missing |-> Number(named, LAMBDA t : t.result = NoName),
      unrecognized |-> Number(named, LAMBDA t : \E r \in {t.result} \cup ToSet(t.attempts) : Unrecognized(r))]

CountOccurrences(occurrences, status) == Number(occurrences, LAMBDA o : o.status = status)

-----------------------------------------------------------------------------
(* The scope. *)

SelectionMatches(selection, occurrence) ==
  /\ occurrence.identity.bundle = selection.bundle
  /\ selection.suite \in {NoName, occurrence.identity.suite}
  /\ selection.test \in {NoName, occurrence.identity.test}

\* A selected scope is a set: duplicates fall together; its order is fixed.
AttestScope(scope, occurrences, reached, unidentifiable) ==
  LET usable == unidentifiable = 0 /\ \A o \in ToSet(occurrences) : o.complete
      matched(s) == \E o \in ToSet(occurrences) : SelectionMatches(s, o)
      outside == Number(occurrences, LAMBDA o : ~\E s \in scope.tests : SelectionMatches(s, o))
      each(Verdict(_)) == LET order == SetToSeq(scope.tests)
                          IN [i \in DOMAIN order |-> [selection |-> order[i], verdict |-> Verdict(order[i])]]
  IN IF reached = "no"
     THEN [attestations |-> each(LAMBDA s : "notReached"), verdict |-> "notReached"]
     ELSE [attestations |-> each(LAMBDA s : CASE ~usable -> "unverifiable" [] usable /\ matched(s) -> "matched"
                                              [] OTHER -> "mismatched"),
           verdict |->
             CASE ~usable -> "unverifiable"
               [] usable /\ scope.kind = "selected" /\ (outside > 0 \/ \E s \in scope.tests : ~matched(s))
                 -> "mismatched"
               [] usable /\ (scope.kind = "all" \/ (outside = 0 /\ \A s \in scope.tests : matched(s)))
                 -> IF occurrences = <<>> \/ (scope.kind = "selected" /\ scope.tests = {})
                    THEN "unverifiable" ELSE "matched"]

-----------------------------------------------------------------------------
(* Diagnostics. *)

\* The place of a record in a list of lists.
Earlier(p, q) == p[1] < q[1] \/ (p[1] = q[1] /\ p[2] < q[2])
InOrder(places) ==
  [n \in 1 .. Cardinality(places) |->
     CHOOSE p \in places : Cardinality({q \in places : Earlier(q, p)}) = n - 1]

\* The failure messages of the hierarchy, one per test, message and place, and
\* those of the summary, put to the first occurrence with the name of their
\* test, unless the same is already said of it.
BuildTestFailures(occurrences, supplemental) ==
  LET match(s) == IF s.test = NoName THEN 0 ELSE SelectInSeq(occurrences, LAMBDA o : o.identity.test = s.test)
      said == (UNION {{i} \X DOMAIN occurrences[i].failures : i \in DOMAIN occurrences})
              \cup ({Len(occurrences) + 1} \X {k \in DOMAIN supplemental : supplemental[k].text # NoName})
      entry(p) ==
        IF p[1] \in DOMAIN occurrences
        THEN LET f == occurrences[p[1]].failures[p[2]]
             IN [test |-> p[1], message |-> f.message, place |-> f.place, inspectable |-> TRUE]
        ELSE LET s == supplemental[p[2]]
             IN [test |-> match(s), message |-> s.text, place |-> NoName, inspectable |-> FALSE]
      Repeats(e, d) == IF e.inspectable THEN e = d ELSE e.test = d.test /\ e.message = d.message
      order == InOrder({p \in said : ~\E q \in said : Earlier(q, p) /\ Repeats(entry(p), entry(q))})
  IN [n \in DOMAIN order |-> entry(order[n])]

\* A message of a skip, or of a failure that was expected, is no failure.
ReportedFailures(index) ==
  Keeping(index.testFailures,
          {e \in ToSet(index.testFailures) :
             \/ ~e.inspectable \/ e.test = 0
             \/ index.occurrences[e.test].status \notin {"skipped", "expectedFailure"}})

\* The tests that failed, each with the number of failures reported for it.
FailedTestsOf(index) ==
  LET failed == {i \in DOMAIN index.occurrences : index.occurrences[i].status = "failed"}
      named(n) == {i \in failed : Canonical(index.occurrences[i].identity) = n}
  IN [n \in {Canonical(index.occurrences[i].identity) : i \in failed} |->
        Number(ReportedFailures(index), LAMBDA e : e.test \in named(n))]

-----------------------------------------------------------------------------
(* What is gathered. *)

DEFECT_RANK ==
  [interpretationTimedOut |-> 0, resultBundleMissing |-> 1, resultBundleUnreadable |-> 2,
   unsupportedResultSchema |-> 3, contradictoryEvidence |-> 4, resultBundleIncomplete |-> 5, none |-> 7]

NoDefect == [reason |-> "none", subject |-> "none"]

NothingFound ==
  [build |-> "unavailable", errors |-> <<>>, tests |-> "unavailable", occurrences |-> <<>>,
   supplemental |-> <<>>, degraded |-> FALSE, reached |-> "unknown", unnameable |-> 0,
   defect |-> NoDefect, cancelled |-> FALSE]

SetDefect(f, reason, subject) ==
  IF DEFECT_RANK[reason] < DEFECT_RANK[f.defect.reason]
  THEN [f EXCEPT !.defect = [reason |-> reason, subject |-> subject]] ELSE f

MapFailure(failure) ==
  CASE failure = "bundleMissing" -> "resultBundleMissing" [] failure = "timedOut" -> "interpretationTimedOut"
    [] OTHER -> "resultBundleUnreadable"

MapDecode(decodes) ==
  IF decodes = "unsupportedSchema" THEN "unsupportedResultSchema" ELSE "resultBundleIncomplete"

TimedOut(f) == SetDefect(f, "interpretationTimedOut", "bundle")

\* Mutant: the errors that could not be read are not missed.
BuildReadUncounted(f) ==
  LET b == request.bundle.build
  IN IF b.decodes # "ok" THEN SetDefect(f, MapDecode(b.decodes), "build")
     ELSE [f EXCEPT !.errors = b.errors,
                    !.build = IF b.declared \in {Unstated, Len(b.errors)} THEN "complete" ELSE "partial"]

\* A build whose errors were all read, as many as it says it has.
BuildRead(f) ==
  LET b == request.bundle.build
  IN IF b.decodes # "ok" THEN SetDefect(f, MapDecode(b.decodes), "build")
     ELSE [f EXCEPT !.errors = b.errors,
                    !.build = IF b.malformed = 0 /\ b.declared \in {Unstated, Len(b.errors)}
                              THEN "complete" ELSE "partial"]

\* Without test results, a build that failed never reached its tests; one
\* that had no error, of a process that succeeded, did.
TestingReached(f) ==
  CASE request.bundle.hasTests -> "yes"
    [] ~request.bundle.hasTests /\ f.build = "complete" /\ f.errors # <<>> -> "no"
    [] ~request.bundle.hasTests /\ f.build = "complete" /\ f.errors = <<>> /\ request.exit = "yes" -> "yes"
    [] OTHER -> "unknown"

TestsRead(f) ==
  LET t == request.bundle.tests
      n == NormalizeTestNodes(t.nodes)
      g == [f EXCEPT !.occurrences = n.occurrences, !.unnameable = n.unnameable, !.tests = "partial"]
  IN CASE t.decodes # "ok" -> SetDefect(f, MapDecode(t.decodes), "bundle")
       [] t.decodes = "ok" /\ n.unrecognized > 0 -> SetDefect(g, "unsupportedResultSchema", "tests")
       [] t.decodes = "ok" /\ n.unrecognized = 0 /\ n.unnameable + n.missing > 0
         -> SetDefect(g, "resultBundleIncomplete", "tests")
       [] OTHER -> [g EXCEPT !.tests = "complete"]

\* Whether the counts of the summary disagree with themselves, or with what
\* was read; tests with repetitions are counted otherwise, and not compared.
Contradicts(s, f) ==
  LET stated == Unstated \notin {s.passed, s.failed, s.skipped, s.expected}
      parts == FoldSeq(LAMBDA n, sum : IF n = Unstated THEN sum ELSE n + sum, 0,
                       <<s.passed, s.failed, s.skipped, s.expected>>)
  IN \/ s.total # Unstated /\ stated /\ parts > s.total
     \/ ~request.bundle.hasTests /\ s.total > 0
     \/ /\ f.tests = "complete" /\ \A o \in ToSet(f.occurrences) : o.attempts <= 1
        /\ \/ s.total \notin {Unstated, Len(f.occurrences)}
           \/ s.failed \notin {Unstated, CountOccurrences(f.occurrences, "failed")}
           \/ /\ s.total # Unstated /\ stated
              /\ s.total - parts # CountOccurrences(f.occurrences, "unknown")

\* A summary that cannot be used costs diagnostics, never the verdict; one
\* that contradicts the rest costs the verdict.
SummaryRead(f) ==
  LET s == request.bundle.summary
      g == [f EXCEPT !.supplemental = s.failures, !.degraded = @ \/ s.degraded]
  IN CASE s.decodes # "ok" -> [f EXCEPT !.degraded = TRUE]
       [] s.decodes = "ok" /\ Contradicts(s, f) -> SetDefect(g, "contradictoryEvidence", "bundle")
       [] OTHER -> g

-----------------------------------------------------------------------------
(* The outcome. *)

TrustworthyBuildErrors(f) == IF f.build = "complete" THEN Len(f.errors) ELSE 0
TrustworthyFailures(f) == IF f.tests = "complete" THEN CountOccurrences(f.occurrences, "failed") ELSE 0

Infrastructure(reason) == [outcome |-> "infrastructureFailed", reason |-> reason]
Outcome(outcome) == [outcome |-> outcome, reason |-> "none"]

\* The rules of classify in their order, each with when it applies.
Rules(f, verdict) ==
  LET errors == TrustworthyBuildErrors(f)
      failed == TrustworthyFailures(f)
      whole == f.build = "complete" /\ f.tests = "complete"
  IN << <<request.trigger = "callerCancellation",                   Outcome("cancelled")>>,
        <<request.trigger = "processDeadline",                      Outcome("timedOut")>>,
        <<f.cancelled,                                              Outcome("cancelled")>>,
        <<request.exit = "yes" /\ errors + failed > 0,              Infrastructure("contradictoryEvidence")>>,
        <<f.defect # NoDefect /\ (errors = 0 \/ f.defect.subject # "tests"),
                                                                    Infrastructure(f.defect.reason)>>,
        <<errors > 0,                                               Outcome("buildFailed")>>,
        <<f.reached = "yes" /\ verdict = "mismatched",              Infrastructure("scopeMismatch")>>,
        <<f.reached = "yes" /\ verdict = "unverifiable",            Infrastructure("scopeUnverifiable")>>,
        <<CountOccurrences(f.occurrences, "unknown") > 0,           Infrastructure("unknownTestStatus")>>,
        <<failed > 0 /\ whole /\ verdict = "matched",               Outcome("testFailed")>>,
        <<failed > 0,                                               Infrastructure("resultBundleIncomplete")>>,
        <<request.exit = "yes" /\ whole /\ f.errors = <<>> /\ f.occurrences # <<>> /\ verdict = "matched",
                                                                    Outcome("passed")>>,
        <<request.exit = "no" /\ whole,                             Infrastructure("processFailedWithoutDiagnostics")>>,
        <<TRUE,                                                     Infrastructure("resultBundleIncomplete")>> >>

FirstThatApplies(rules) == rules[SelectInSeq(rules, LAMBDA r : r[1])][2]

Classify(f, verdict) == FirstThatApplies(Rules(f, verdict))

Index(f, attestations) ==
  [occurrences |-> f.occurrences, attestations |-> attestations, buildErrors |-> f.errors,
   testFailures |-> BuildTestFailures(f.occurrences, f.supplemental),
   build |-> f.build, tests |-> f.tests,
   diagnostics |-> CASE f.tests = "unavailable" -> "unavailable"
                     [] f.tests # "unavailable" /\ (f.degraded \/ f.tests = "partial") -> "partial"
                     [] OTHER -> "complete"]

Report(f) ==
  LET attestation == AttestScope(request.scope, f.occurrences, f.reached, f.unnameable)
  IN [index |-> Index(f, attestation.attestations), verdict |-> Classify(f, attestation.verdict)]

NoReport == [index |-> Index(NothingFound, <<>>), verdict |-> Outcome("none")]

-----------------------------------------------------------------------------
(* The interpretation. *)

InitInterpretation ==
  /\ request \in Request /\ signal = FALSE /\ late = FALSE
  /\ pc = "start" /\ again = 0 /\ found = NothingFound /\ report = NoReport

\* gather returns, and its caller publishes before anything else happens.
Publish(f) ==
  /\ pc' = "published" /\ found' = NothingFound /\ report' = Report(f) /\ again' = 0
  /\ UNCHANGED <<request, signal>>

\* The next command, unless the caller has cancelled or the time is over.
Proceed(f, command) ==
  CASE signal -> Publish([f EXCEPT !.cancelled = TRUE])
    [] ~signal /\ late' -> Publish(TimedOut(f))
    [] OTHER -> pc' = command /\ found' = f /\ again' = 0 /\ UNCHANGED <<request, signal, report>>

\* The toolchain must be the one that wrote the bundle, and the bundle there.
Begin ==
  /\ pc = "start" /\ UNCHANGED late
  /\ CASE ~signal /\ ~request.toolchain -> Publish(SetDefect(found, "unsupportedResultSchema", "bundle"))
       [] ~signal /\ request.toolchain /\ ~request.present
         -> Publish(SetDefect(found, "resultBundleMissing", "bundle"))
       [] OTHER -> Proceed(found, "metadata")

\* A read that failed and may succeed is made again, a bounded number of times.
ReadAgain ==
  /\ pc \in Command /\ again < READ_ATTEMPTS /\ ~late
  /\ again' = again + 1 /\ UNCHANGED <<request, signal, late, pc, found, report>>

\* After the build results: the tests, if the bundle has any.
AfterBuild(f) ==
  Proceed([f EXCEPT !.reached = TestingReached(f)], IF request.bundle.hasTests THEN "tests" ELSE "summary")

\* The last look at the clock is after the last read.
AfterSummary(f) == Publish(IF late' THEN TimedOut(f) ELSE f)

\* The command succeeded.
Answered ==
  /\ UNCHANGED late
  /\ \/ pc = "metadata" /\ Proceed(found, "availability")
     \/ /\ pc = "availability"
        /\ IF request.bundle.available THEN Proceed(found, "build")
           ELSE Publish(SetDefect(found, "unsupportedResultSchema", "bundle"))
     \/ pc = "build" /\ AfterBuild(BuildRead(found))
     \/ pc = "tests" /\ Proceed(TestsRead(found), "summary")
     \/ pc = "summary" /\ AfterSummary(SummaryRead(found))

\* The command failed: for good, once too often, or because its time, which is
\* all that is left of the interpretation's, is over.
Failed(failure) ==
  /\ late' = (late \/ failure = "timedOut")
  /\ \/ pc \in {"metadata", "availability"} /\ Publish(SetDefect(found, MapFailure(failure), "bundle"))
     \/ pc = "build" /\ AfterBuild(SetDefect(found, MapFailure(failure), "build"))
     \/ pc = "tests" /\ Proceed(SetDefect(found, "resultBundleIncomplete", "tests"), "summary")
     \/ pc = "summary" /\ AfterSummary([found EXCEPT !.degraded = TRUE])

Cancel ==
  /\ pc # "published" /\ ~signal /\ signal' = TRUE
  /\ UNCHANGED <<request, late, pc, again, found, report>>

DeadlinePasses ==
  /\ pc # "published" /\ ~late /\ late' = TRUE
  /\ UNCHANGED <<request, signal, pc, again, found, report>>

Interpret ==
  \/ Begin \/ ReadAgain \/ Answered
  \/ \E failure \in {"bundleMissing", "commandFailed", "timedOut"} : Failed(failure)
  \/ Cancel \/ DeadlinePasses

InterpretationSpec == InitInterpretation /\ [][Interpret]_interpreting

-----------------------------------------------------------------------------
(* Properties. *)

InterpretationTypeOK ==
  /\ {signal, late, request.present, request.toolchain} \subseteq BOOLEAN
  /\ pc \in Command \cup {"start", "published"} /\ again \in 0 .. READ_ATTEMPTS
  /\ \A c \in {found.build, found.tests, report.index.diagnostics} : c \in {"unavailable", "partial", "complete"}
  /\ found.reached \in {"yes", "no", "unknown"} /\ found.defect.reason \in DOMAIN DEFECT_RANK
  /\ report.verdict.outcome \in
       {"none", "passed", "testFailed", "buildFailed", "infrastructureFailed", "cancelled", "timedOut"}

published == pc = "published"
outcome == report.verdict.outcome
ran ==
  LET nodes == request.bundle.tests.nodes
  IN Keeping(nodes, {t \in ToSet(nodes) : t.bundle # NoBundleNode})
FailedTest(t) == "Failed" \in (IF t.attempts = <<>> THEN {t.result} ELSE ToSet(t.attempts))

\* A run is reported passed only when its process succeeded, its build left no
\* error, read or unreadable, at least one test ran, none failed, every test
\* that ran can be named without doubt and says how it ended, the selections
\* asked for are the tests that ran, and all of that was read in time and
\* wanted to the end (classify.ts: the order of the rules; interpret.ts: what
\* each failed, late or partial read leaves behind).
PassIsEarned ==
  published /\ outcome = "passed" =>
    /\ request.exit = "yes" /\ request.present /\ request.toolchain /\ ~late
    /\ request.trigger \notin {"callerCancellation", "processDeadline"}
    /\ request.bundle.build.errors = <<>> /\ request.bundle.build.malformed = 0
    /\ ran # <<>>
    /\ \A t \in ToSet(ran) :
         /\ t.bundle # NoName /\ ~FailedTest(t) /\ t.result # NoName
         /\ {t.id, t.url} # {[suite |-> NoName, test |-> NoName]}
    /\ request.scope.kind = "selected" =>
         LET selects(s, t) == SelectionMatches(s, [identity |-> DeriveIdentity(t).identity])
         IN /\ \A s \in request.scope.tests : \E t \in ToSet(ran) : selects(s, t)
            /\ \A t \in ToSet(ran) : \E s \in request.scope.tests : selects(s, t)

\* A run is reported failed for its tests or its build only when the bundle
\* says so of a process that did not succeed; the tests named are those that
\* failed, all of them, and the build errors returned are those of the build
\* (classify.ts: a contradiction is an infrastructure failure; index-model.ts
\* failedTestsOf; diagnostics.ts buildBuildErrors).
FailureIsNamed ==
  published =>
    /\ outcome \in {"testFailed", "buildFailed"} => request.exit # "yes"
    /\ outcome = "testFailed" =>
         LET failing == {t \in ToSet(ran) : FailedTest(t)}
         IN /\ failing # {} /\ request.bundle.build.errors = <<>>
            /\ DOMAIN FailedTestsOf(report.index) = {Canonical(DeriveIdentity(t).identity) : t \in failing}
    /\ outcome = "buildFailed" =>
         request.bundle.build.errors # <<>> /\ report.index.buildErrors = request.bundle.build.errors

\* A facet advertised whole is whole: every test that ran is in the index, and
\* every error of the build, whatever read failed, was late or was cancelled
\* in between (interpret.ts gather and publish; paging.ts facetCompleteness).
WholeMeansWhole ==
  published =>
    /\ report.index.tests = "complete" => Len(report.index.occurrences) = Len(ran)
    /\ report.index.build = "complete" =>
         report.index.buildErrors = request.bundle.build.errors /\ request.bundle.build.malformed = 0

ReportIsTrue == FailureIsNamed /\ WholeMeansWhole

\* The errors of a build that was read whole are reported even when the tests
\* cannot be read (classify.ts:10-13).  The README gives the instance in which
\* test results that do not decode hide them.
BuildFailureStands ==
  published /\ ~late /\ ~signal /\ request.exit = "no" /\ request.trigger = "none"
    /\ report.index.build = "complete" /\ report.index.buildErrors # <<>> /\ report.index.tests = "unavailable"
  => outcome = "buildFailed"
=============================================================================
