----------------------------- MODULE MCReporting -----------------------------
EXTENDS Inspection

NoIds == [suite |-> NoName, test |-> NoName]
Ids(s, t) == [suite |-> s, test |-> t]
Suite(name, id, url) == [name |-> name, id |-> id, url |-> url]
Message(m) == [message |-> m, place |-> "line 7"]

Case(bundle, suites, id, url, result, attempts, failures) ==
  [bundle |-> bundle, suites |-> suites, name |-> "x", id |-> id, url |-> url, result |-> result,
   attempts |-> attempts, failures |-> failures]

\* A test of suite S of bundle B, as Xcode writes it.
Plain(test, result, attempts, failures) ==
  Case("B", <<Suite("S", "S", NoName)>>, Ids("S", test), Ids("S", test), result, attempts, failures)

Passing == Plain("a", "Passed", <<>>, <<>>)
Failing == Plain("b", "Failed", <<>>, <<Message("m"), Message("m")>>)
FailingOnce == Plain("b", "Failed", <<>>, <<Message("m")>>)
Huge == Plain("c", "Failed", <<>>, <<Message("huge")>>)
Retried == Plain("b", "Passed", <<"Failed", "Passed">>, <<Message("m")>>)
Odd ==
  { Passing, Failing, FailingOnce, Huge, Retried,
    Plain("a", "Failed", <<>>, <<>>),
    Plain("b", "Skipped", <<>>, <<Message("why")>>),
    Plain("b", "Expected Failure", <<>>, <<Message("long")>>),
    Plain("b", "Passed", <<"Passed", "Passed">>, <<>>),
    Plain("b", "unknown", <<>>, <<>>),
    Plain("b", "Crashed", <<>>, <<>>),
    Plain("b", NoName, <<>>, <<>>),
    Plain("b", "Failed", <<>>, <<Message("long"), Message("huge")>>),
    Case(NoName, <<>>, Ids("S", "b"), NoIds, "Failed", <<>>, <<>>),
    Case(NoBundleNode, <<>>, NoIds, NoIds, "Failed", <<>>, <<>>),
    Case("B", <<Suite("S", "S", "T")>>, Ids("S", "b"), NoIds, "Passed", <<>>, <<>>),
    Case("B", <<Suite("S", NoName, NoName)>>, Ids("S", "b"), Ids("T", "b"), "Passed", <<>>, <<>>),
    Case("B", <<Suite("T", NoName, NoName), Suite("S", NoName, NoName)>>, NoIds, NoIds, "Passed", <<>>, <<>>) }

Build(decodes, errors, malformed, declared) ==
  [decodes |-> decodes, errors |-> errors, malformed |-> malformed, declared |-> declared]
Error(m) == [message |-> m]
CleanBuild == Build("ok", <<>>, 0, 0)
FailedBuild == Build("ok", <<Error("e1"), Error("huge")>>, 0, Unstated)
Builds == { CleanBuild, FailedBuild, Build("ok", <<Error("e1")>>, 1, 1), Build("ok", <<Error("e1")>>, 0, 2),
            Build("incomplete", <<Error("e1")>>, 0, 1) }

Tests(decodes, nodes) == [decodes |-> decodes, nodes |-> nodes]

Summary(decodes, total, passed, failed, failures, degraded) ==
  [decodes |-> decodes, total |-> total, passed |-> passed, failed |-> failed, skipped |-> 0, expected |-> 0,
   failures |-> failures, degraded |-> degraded]
Silent == Summary("ok", Unstated, Unstated, Unstated, <<>>, FALSE)
Told(test, text) == [test |-> test, text |-> text]
Summaries == { Silent, Summary("ok", 2, 1, 1, <<Told("b", "m"), Told("b", "told")>>, FALSE),
               Summary("ok", 1, 1, 0, <<Told("c", "told"), Told("a", NoName)>>, FALSE),
               Summary("ok", 1, 1, 1, <<>>, FALSE), Summary("ok", Unstated, 1, 1, <<>>, TRUE),
               Summary("unsupportedSchema", 2, 1, 1, <<Told("b", "told")>>, FALSE) }

Bundle(hasTests, build, tests, summary) ==
  [available |-> TRUE, hasTests |-> hasTests, build |-> build, tests |-> tests, summary |-> summary]

All == [kind |-> "all", tests |-> {}]
Selected(S) == [kind |-> "selected", tests |-> S]
Selection(suite, test) == [bundle |-> "B", suite |-> suite, test |-> test]

Asks(bundle, scope, exit, trigger) ==
  [bundle |-> bundle, scope |-> scope, exit |-> exit, trigger |-> trigger, present |-> TRUE, toolchain |-> TRUE]

Pairs == {<<>>, <<Passing>>} \cup {<<Passing, t>> : t \in Odd}
FailedTests == Tests("ok", <<Passing, Failing>>)
Base == Asks(Bundle(TRUE, CleanBuild, FailedTests, Silent), All, "no", "none")

\* Every hierarchy with the scopes and the exits; every build with and
\* without tests; every summary; and what keeps a bundle from being read.
MCRequest ==
  {Asks(Bundle(TRUE, CleanBuild, Tests("ok", nodes), Silent), All, exit, "none") :
     nodes \in Pairs, exit \in {"yes", "no"}}
  \cup {Asks(Bundle(TRUE, CleanBuild, Tests("ok", nodes), Silent), Selected({Selection("S", "a")}), "yes", "none") :
     nodes \in Pairs}
  \cup {Asks(Bundle(TRUE, CleanBuild, FailedTests, Silent), Selected(S), "no", "none") :
     S \in {{}, {Selection("S", NoName)}, {Selection("S", "a"), Selection("S", "b")}, {Selection("S", "a"), Selection("S", "c")}}}
  \cup {Asks(Bundle(TRUE, build, tests, Silent), All, exit, "none") :
     build \in Builds, tests \in {FailedTests, Tests("incomplete", <<Passing>>)}, exit \in {"yes", "no"}}
  \cup {Asks(Bundle(FALSE, build, Tests("ok", <<>>), Silent), All, exit, "none") :
     build \in Builds, exit \in {"yes", "no", "unknown"}}
  \cup {Asks(Bundle(TRUE, CleanBuild, Tests("ok", nodes), summary), All, "no", "none") :
     nodes \in {<<Passing>>, <<Passing, Failing>>, <<Passing, Retried>>}, summary \in Summaries}
  \cup {Asks(Bundle(FALSE, CleanBuild, Tests("ok", <<>>), summary), All, "no", "none") : summary \in Summaries}
  \cup {[Base EXCEPT !.trigger = t] : t \in {"callerCancellation", "processDeadline", "unknown"}}
  \cup {[Base EXCEPT !.present = FALSE], [Base EXCEPT !.toolchain = FALSE], [Base EXCEPT !.bundle.available = FALSE]}

\* What is read does not tell how the process ended, and tells the tests of a
\* hierarchy apart only by their status, their failures and their size.
MCOpened ==
  {r \in MCRequest :
     /\ r.exit = "no" /\ r.scope \notin {Selected({}), Selected({Selection("S", "a")})}
     /\ \A t \in ToSet(r.bundle.tests.nodes) :
          t \in {Passing, Failing, Retried, Plain("b", "Failed", <<>>, <<Message("long"), Message("huge")>>),
                 Plain("b", "Skipped", <<>>, <<Message("why")>>)}}

\* The results looked at closely: a test by its name, with failures that are
\* all shown and with more, two tests of one name, a
\* failure of no test, a build error, a record too large to return.
MCFocused ==
  {Asks(Bundle(TRUE, CleanBuild, Tests("ok", nodes), Silent), All, "no", "none") :
     nodes \in {<<Passing, Failing>>, <<Passing, FailingOnce>>, <<Passing, Retried>>, <<Passing, Passing>>, <<Passing, Huge>>}}
  \cup {Asks(Bundle(FALSE, FailedBuild, Tests("ok", <<>>), Silent), All, "no", "none")}
  \cup {Asks(Bundle(TRUE, CleanBuild, Tests("ok", <<Passing>>), summary), All, "no", "none") :
     summary \in {s \in Summaries : Len(s.failures) = 2}}

\* The limits, a byte of a page standing for about a thousand.
MCLimit ==
  [responseCap |-> 48, envelope |-> 10, pageMax |-> 3, logMin |-> 4, logMax |-> 12, noteBytes |-> 2,
   selfLines |-> 1900, selfBytes |-> 32, marginLines |-> 50, marginBytes |-> 2,
   hostLines |-> 2000, hostBytes |-> 50, unreadableLines |-> 200, unreadableBytes |-> 25,
   overheadBytes |-> 5, overheadLines |-> 16,
   message |-> 16, summaryMessage |-> 8, framePath |-> 3, frameText |-> 4, frames |-> 2, activityDepth |-> 2, activities |-> 3,
   activityText |-> 6, attachmentText |-> 4, attachments |-> 2, attempts |-> 1,
   testFailures |-> 1, buildErrors |-> 1, failedTests |-> 1, attestations |-> 1, observedTests |-> 1]

Declared(lines, bytes) == [status |-> "configured", lines |-> lines, bytes |-> bytes]
MCHost == {[status |-> "absent", lines |-> Undeclared, bytes |-> Undeclared],
           [status |-> "unreadable", lines |-> Undeclared, bytes |-> Undeclared],
           Declared(62, 8)}
SmallHost == {Declared(60, Undeclared)}
TinyHost == {Declared(Undeclared, 1)}

Says(r, m) == "message" \in DOMAIN r /\ r.message = m
MCBytes(r) == CASE Says(r, "huge") -> 40 [] Says(r, "long") -> 20 [] OTHER -> 5
MCFixed(r) == CASE Says(r, "huge") -> 40 [] OTHER -> 3
MCTextBytes(part) == CASE part \in {"envelope", "facts", "resolved", "log"} -> 4 [] OTHER -> 2

\* What messages say: nothing but themselves, or a backtrace, read in part or
\* whole, with a place or names too long.
Line(kind, path, text) == [kind |-> kind, path |-> path, text |-> text]
Text(chars, lines) == [chars |-> chars, lines |-> lines]
MCWritten(r) ==
  CASE Says(r, "m") -> Text(9, <<Line("prose", 0, 4), Line("frame", 0, 3), Line("unreadable", 0, 5)>>)
    [] Says(r, "huge") -> Text(30, <<Line("frame", 0, 3)>>)
    [] Says(r, "told") -> Text(30, <<Line("frame", 0, 6), Line("source", 9, 0), Line("source", 2, 0)>>)
    [] Says(r, "e1") -> Text(4, <<Line("frame", 0, 3), Line("source", 2, 0)>>)
    [] OTHER -> Text(4, <<>>)

Activity(title, above) == [title |-> title, above |-> above]
MCDetail ==
  { [activities |-> <<>>, attachments |-> <<>>],
    [activities |-> << <<Activity(2, <<>>), Activity(3, <<2>>)>>, <<Activity(0, <<>>), Activity(2, <<0>>)>> >>,
     attachments |-> <<0, 3>>],
    [activities |-> << <<Activity(2, <<>>), Activity(3, <<2>>), Activity(1, <<2, 3>>)>> >>, attachments |-> <<9>>],
    [activities |-> [i \in 1 .. 4 |-> <<Activity(9, <<>>)>>], attachments |-> <<4, 4, 4>>],
    [activities |-> [i \in 1 .. 3 |-> <<Activity(6, <<>>)>>], attachments |-> <<4>>] }

MCLog == <<1, 2, 0, 5, 4, 0, 0, 0, 3, 0, 0>>
=============================================================================
