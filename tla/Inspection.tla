----------------------------- MODULE Inspection -----------------------------
(***************************************************************************)
(* A caller reads what was published: the summary he is given of the run   *)
(* (adapter/render), then, with xcode_test_inspect (adapter/tools), pages  *)
(* of its facets (interpreter/paging and cap) with their cursors (cursor), *)
(* windows of its log (log), or a closer look at one of its records.       *)
(*                                                                         *)
(* Sizes are bytes of JSON, and the limits are those of domain/limits.  A  *)
(* byte of the log is 0 for one that continues a character, 1 .. 4 for one *)
(* that starts a character of that many bytes, and 5 for a control         *)
(* character, which JSON writes as six.                                    *)
(***************************************************************************)
EXTENDS Focus

AnyStatus == "any"
Status == {"passed", "failed", "skipped", "expectedFailure", "unknown"}

CONSTANTS Opened,       \* the requests whose results somebody reads
          Bytes(_),     \* the size of a record
          TextBytes(_), \* what a part of an answer takes besides its records, at most
          Log,          \* the raw log
          Asked,        \* limits a caller may ask for
          AskedStatus,  \* filters he may ask for
          AskedBytes    \* windows a caller may ask for

\* The relations between the limits that rendering rests on: what a page leaves
\* free is enough for the text around it, and so is what a host that is roomy
\* lets through for what must be said of a run.
ASSUME InspectionAssumption ==
  /\ {Limit.responseCap, Limit.envelope, Limit.overheadBytes, Limit.pageMax, Limit.message, Limit.summaryMessage, Limit.framePath,
      Limit.frameText, Limit.frames, Limit.activityDepth, Limit.activities, Limit.activityText,
      Limit.attachmentText, Limit.attachments, Limit.attempts, Limit.testFailures, Limit.buildErrors,
      Limit.failedTests, Limit.attestations, Limit.observedTests, Limit.logMin, Limit.logMax,
      Limit.overheadLines} \subseteq Nat
  /\ Limit.overheadLines >= 13 /\ Limit.noteBytes <= Limit.overheadBytes
  /\ TextBytes("envelope") + TextBytes("facts") + 2 * Limit.pageMax <= Limit.envelope + Limit.overheadBytes
  /\ TextBytes("headline") + TextBytes("resolved") <= Limit.envelope + Limit.overheadBytes
  /\ Asked \subseteq 1 .. Limit.pageMax /\ AskedStatus \subseteq Status \cup {AnyStatus} /\ AskedBytes \subseteq Nat
  /\ 4 <= Limit.logMin /\ Limit.logMin <= Limit.logMax /\ Log \in Seq(0 .. 5)

VARIABLE reader  \* the caller: the cursor he holds, the pages he has seen, the last text

vars == <<interpreting, focusing, host, reader>>

Facet == {"scope", "failures", "buildErrors", "tests", "log"}
NoCursor == [facet |-> "none", status |-> AnyStatus, position |-> 0]

-----------------------------------------------------------------------------
(* The summary the caller is given. *)

\* A section of the summary: a heading and its first records, each on so many
\* lines; none without a record.
Section(records, cap, each) ==
  LET shown == SubSeq(records, 1, Min({Len(records), cap}))
  IN IF records = <<>> THEN Block("diagnostics", 0, 0)
     ELSE Block("diagnostics", 1 + each * Len(shown),
                TextBytes("section") + Total([i \in DOMAIN shown |-> Bytes(shown[i])]))

ReasonLines == CASE report.verdict.outcome = "infrastructureFailed" -> 3
                 [] report.verdict.outcome \in {"cancelled", "timedOut"} -> 1 [] OTHER -> 0

\* Of the tests that failed, when some are not shown, one more line says how
\* to ask for them.
RenderTestRun ==
  LET index == report.index
      failed == SetToSeq({[canonical |-> n] : n \in DOMAIN FailedTestsOf(index)})
      rest == IF Len(failed) > Limit.failedTests THEN 1 ELSE 0
      failedTests == Section(failed, Limit.failedTests, 1)
      observed == Section([i \in DOMAIN index.occurrences |-> index.occurrences[i].identity], Limit.observedTests, 1)
  IN << Block("envelope", 3, TextBytes("headline")),
        Block("reason", ReasonLines, IF ReasonLines = 0 THEN 0 ELSE TextBytes("reason")),
        Block("facts", 7, TextBytes("resolved")),
        Section(index.attestations, Limit.attestations, 1),
        [failedTests EXCEPT !.lines = @ + rest],
        Section(ReportedFailures(index), Limit.testFailures, 3),
        Section(index.buildErrors, Limit.buildErrors, 3),
        Block("context", 3, TextBytes("context")),
        [observed EXCEPT !.priority = PRIORITY.sample] >>

-----------------------------------------------------------------------------
(* Pages of the index. *)

RecordsFor(facet, status) ==
  LET index == report.index
  IN CASE facet = "scope" -> index.attestations
       [] facet = "failures" -> ReportedFailures(index)
       [] facet = "buildErrors" -> index.buildErrors
       [] facet = "tests" -> Keeping(index.occurrences, {o \in ToSet(index.occurrences) : status \in {AnyStatus, o.status}})

FacetCompleteness(facet) ==
  CASE facet = "buildErrors" -> report.index.build
    [] facet = "failures" -> report.index.diagnostics
    [] facet \in {"scope", "tests"} -> report.index.tests

\* The bytes of the first k records, each with its comma.
Taken(records, k) == Total([i \in 1 .. k |-> Bytes(records[i]) + 1])

\* Mutant: everything that did not fit is counted as omitted.
CapRecordsDroppingRest(records, cap) ==
  LET kept == Max({k \in 0 .. Len(records) : k = 0 \/ Limit.envelope + Taken(records, k) <= cap})
  IN [kept |-> kept, omitted |-> Len(records) - kept, marked |-> FALSE, bytes |-> Taken(records, kept) - kept]

\* As many records as fit; the first is shortened if it has to be, and if
\* that is not enough counted as omitted, so that the page moves on.
CapRecords(records, cap) ==
  LET kept == Max({k \in 0 .. Len(records) : k = 0 \/ Limit.envelope + Taken(records, k) <= cap})
      free == cap - Limit.envelope - 1
      shrinks == Fixed(records[1]) <= free
  IN CASE records = <<>> \/ kept > 0 -> [kept |-> kept, omitted |-> 0, marked |-> kept < Len(records),
                                          bytes |-> Taken(records, kept) - kept]
       [] OTHER -> IF shrinks THEN [kept |-> 1, omitted |-> 0, marked |-> TRUE, bytes |-> free]
                   ELSE [kept |-> 0, omitted |-> 1, marked |-> TRUE, bytes |-> 0]

Consumed(page) == page.kept + page.omitted

\* Mutant: whatever its filter was.
ResolveCursorUnfiltered(facet, status) == reader.cursor = NoCursor \/ reader.cursor.facet = facet

\* A cursor is good for the facet and the filter it was given out for.
ResolveCursor(facet, status) ==
  reader.cursor = NoCursor \/ (reader.cursor.facet = facet /\ reader.cursor.status = status)

NextCursor(facet, status, position, total) ==
  IF position < total THEN [facet |-> facet, status |-> status, position |-> position] ELSE NoCursor

Page(facet, status, limit) ==
  LET all == RecordsFor(facet, status)
      from == reader.cursor.position
      asked == SubSeq(all, from + 1, Min({Len(all), from + Max({1, Min({limit, PageBudget.records})})}))
      capped == CapRecords(asked, Min({Limit.responseCap, PageBudget.bytes}))
  IN [facet |-> facet, status |-> status, first |-> from, kept |-> capped.kept, omitted |-> capped.omitted,
      marked |-> capped.marked, bytes |-> capped.bytes,
      answer |-> IF FacetCompleteness(facet) = "partial" \/ capped.omitted > 0 THEN "incomplete" ELSE "available",
      cursor |-> NextCursor(facet, status, from + Consumed(capped), Len(all))]

\* What follows the records: that there is more and the cursor, that
\* something was cut, and how many records were left out.
TruncationLines(more, marked, omitted) ==
  (IF more THEN 3 ELSE 0) + (IF marked THEN 1 ELSE 0) + (IF omitted > 0 THEN 1 ELSE 0)

RenderPage(page) ==
  << Block("envelope", IF page.answer = "available" THEN 2 ELSE 6, TextBytes("envelope")),
     Block("facts", 1 + page.kept + TruncationLines(page.cursor # NoCursor, page.marked, page.omitted),
           TextBytes("facts") + page.bytes + 3 * page.kept) >>

RenderUnsupported == << Block("envelope", 3, TextBytes("envelope")) >>

\* A request for a page; the answer is one the caller sees, or one whose
\* facts, and with them its cursor, did not fit.
InspectIndex(facet, status, limit) ==
  /\ reader.state = "reading" /\ facet # "log"
  /\ status = AnyStatus \/ facet = "tests"
  /\ ResolveCursor(facet, status)
  /\ LET page == Page(facet, status, limit)
         text == Serialize(RenderPage(page))
     IN reader' =
          CASE FacetCompleteness(facet) = "unavailable"
                 -> [reader EXCEPT !.state = "unsupported", !.text = Serialize(RenderUnsupported)]
            [] FacetCompleteness(facet) # "unavailable" /\ 2 \notin text.kept
                 -> [reader EXCEPT !.state = "lost", !.text = text]
            [] OTHER -> [state |-> IF page.cursor = NoCursor THEN "done" ELSE "reading", cursor |-> page.cursor,
                         pages |-> Append(reader.pages, page), text |-> text]
  /\ UNCHANGED <<interpreting, focusing, host>>

-----------------------------------------------------------------------------
(* Windows of the log. *)

SequenceLength(byte) == IF byte = 5 THEN 1 ELSE byte
Escaped(byte) == IF byte = 5 THEN 6 ELSE 1

\* How many bytes at the end belong to a character that is not all there.
TrailingPartialLength(bytes) ==
  LET starts == {back \in 1 .. Min({4, Len(bytes)}) : bytes[Len(bytes) + 1 - back] # 0}
      back == Min(starts)
  IN IF starts # {} /\ SequenceLength(bytes[Len(bytes) + 1 - back]) > back THEN back ELSE 0

\* The bytes of a window that are decoded: up to the end of a character,
\* unless the log ends here or there is none.
ChunkLog(bytes, from) ==
  LET usable == IF from + Len(bytes) >= Len(Log) THEN Len(bytes) ELSE Len(bytes) - TrailingPartialLength(bytes)
  IN SubSeq(bytes, 1, IF usable = 0 THEN Len(bytes) ELSE usable)

JsonBytes(bytes) == Total([i \in DOMAIN bytes |-> Escaped(bytes[i])])

\* The window is halved until its answer fits, or it is at its smallest.
FitChunk(bytes, from) ==
  LET chunk(length) == ChunkLog(SubSeq(bytes, 1, length), from)
      least == Min({Len(bytes), Limit.logMin})
      halved == {Max({least, half}) : half \in {Len(bytes)} \cup Halves(Len(bytes))}
      fitting == {l \in halved : JsonBytes(chunk(l)) + Limit.envelope <= Limit.responseCap}
  IN chunk(Max(fitting \cup {least}))

\* A control character stands for a line break, too.
RenderLog(chunk, more) ==
  << Block("envelope", 1, TextBytes("envelope")),
     Block("facts", 1 + TruncationLines(more, TRUE, 0), TextBytes("facts")),
     Block("sample", 6 + Number(chunk, LAMBDA b : b = 5), TextBytes("log") + Len(chunk)) >>

\* The bytes asked for from where the cursor stands, within the limits of a
\* window.
LogWindow(from, maxBytes) ==
  SubSeq(Log, from + 1, Min({Len(Log), from + Min({Max({Limit.logMin, maxBytes}), Limit.logMax})}))

\* The text is shed before the range and the cursor are; the caller asks
\* again for less then, with the cursor he had.  A log says nothing of the
\* report, and is read after the same requests as the closer looks.
InspectLog(maxBytes) ==
  /\ reader.state = "reading" /\ request \in Focused /\ ResolveCursor("log", AnyStatus)
  /\ LET from == reader.cursor.position
         chunk == FitChunk(LogWindow(from, maxBytes), from)
         cursor == NextCursor("log", AnyStatus, from + Len(chunk), Len(Log))
         text == Serialize(RenderLog(chunk, cursor # NoCursor))
     IN reader' =
          CASE 3 \in text.kept ->
                 [state |-> IF cursor = NoCursor THEN "done" ELSE "reading", cursor |-> cursor, text |-> text,
                  pages |-> Append(reader.pages,
                                   [facet |-> "log", status |-> AnyStatus, first |-> from, kept |-> Len(chunk),
                                    omitted |-> 0, bytes |-> Len(chunk), marked |-> FALSE, answer |-> "available",
                                    cursor |-> cursor])]
            [] 2 \in text.kept /\ 3 \notin text.kept -> [reader EXCEPT !.text = text]
            [] OTHER -> [reader EXCEPT !.state = "lost", !.text = text]
  /\ UNCHANGED <<interpreting, focusing, host>>

-----------------------------------------------------------------------------

Init ==
  /\ InitInterpretation /\ host = NoHost /\ store = Untouched /\ focus = NoLook
  /\ reader = [state |-> "idle", cursor |-> NoCursor, pages |-> <<>>, text |-> NoText]

\* A caller, of whichever process, turns to the run once it is published.
Open ==
  /\ pc = "published" /\ reader.state = "idle" /\ request \in Opened
  /\ host' \in Host /\ reader' = [reader EXCEPT !.state = "reading"]
  /\ UNCHANGED <<interpreting, focusing>>

Fresh == reader.state = "reading" /\ reader.pages = <<>> /\ UNCHANGED <<interpreting, host>>

\* The call that ran the tests ends with the text of their summary.
Tell ==
  /\ Fresh /\ UNCHANGED focusing
  /\ reader' = [reader EXCEPT !.state = "told", !.text = Serialize(RenderTestRun)]

\* Or the caller asks about one of the records; to bound the model, only of
\* the requests chosen for it, interpreted in time and to the end.
OpenFocus(kind, subject, retained) ==
  /\ Fresh /\ request \in Focused /\ ~late /\ ~signal /\ subject \in DOMAIN RecordsOf(kind)
  /\ Look(kind, subject, retained) /\ reader' = [reader EXCEPT !.state = "focusing"]

RenderFocus ==
  LET answer == focus.answer
  IN IF answer.status = "unsupported" THEN RenderUnsupported
     ELSE << Block("envelope", IF answer.status = "available" THEN 1 ELSE 5, TextBytes("envelope")),
             Block("facts", 2 + TruncationLines(FALSE, answer.truncation.response, answer.truncation.omitted),
                   TextBytes("facts") + (IF answer.truncation.omitted > 0 THEN 0 ELSE ViewBytes(answer.view))) >>

ShowFocus ==
  /\ reader.state = "focusing" /\ focus.step = "answered"
  /\ reader' = [reader EXCEPT !.state = "shown", !.text = Serialize(RenderFocus)]
  /\ UNCHANGED <<interpreting, focusing, host>>

Inspect ==
  \/ Tell \/ Open \/ ShowFocus
  \/ \E facet \in Facet, status \in AskedStatus, limit \in Asked : InspectIndex(facet, status, limit)
  \/ \E maxBytes \in AskedBytes : InspectLog(maxBytes)
  \/ \E kind \in Subjects, retained \in Bundles, subject \in 1 .. 4 : OpenFocus(kind, subject, retained)
  \/ LookCloser /\ UNCHANGED <<interpreting, host, reader>>

Next == (Interpret /\ UNCHANGED <<focusing, host, reader>>) \/ Inspect

Spec == Init /\ [][Next]_vars

-----------------------------------------------------------------------------
(* Properties. *)

TypeOK ==
  /\ InterpretationTypeOK /\ FocusTypeOK
  /\ host \in Host \cup {NoHost}
  /\ reader.state \in {"idle", "told", "reading", "done", "lost", "unsupported", "focusing", "shown"}
  /\ reader.cursor.facet \in Facet \cup {"none"} /\ reader.cursor.position \in Nat
  /\ \A p \in ToSet(reader.pages) : p.kept \in Nat /\ p.omitted \in {0, 1} /\ p.answer \in {"available", "incomplete"}

Length(facet, status) == IF facet = "log" THEN Len(Log) ELSE Len(RecordsFor(facet, status))

\* The pages tile the facet: each starts where the one before it ended, of the
\* same facet and filter, and moves on if it leaves a cursor; the one that
\* leaves none is at the end (paging.ts page and resolveCursor, cap.ts).
PagesTile ==
  \A i \in DOMAIN reader.pages :
    LET p == reader.pages[i] end == p.first + Consumed(p)
    IN /\ i = 1 => p.first = 0
       /\ i > 1 => LET q == reader.pages[i - 1]
                   IN q.facet = p.facet /\ q.status = p.status /\ p.first = q.first + Consumed(q)
       /\ p.cursor # NoCursor => end > p.first
       /\ p.cursor = NoCursor => end = Length(p.facet, p.status)

\* No window of the log ends inside a character (log.ts chunkLog).
WindowsKeepCharacters ==
  \A p \in ToSet(reader.pages) : p.facet = "log" /\ p.cursor # NoCursor => Log[p.first + p.kept + 1] # 0

\* Whether the host leaves room for a record and what surrounds it.
Roomy == host # NoHost /\ Budget.lines > Limit.overheadLines /\ Budget.bytes >= Limit.envelope + 2 * Limit.overheadBytes

\* A page fitted to the budget is not shed once it is text, and the cursor of
\* the next with it, nor what the summary says of the run for its diagnostics
\* (tools.ts pageBudgetFor, render.ts renderTestRun).
FactsReachCaller ==
  Roomy => reader.state # "lost" /\ (reader.state = "told" => {1, 3} \subseteq reader.text.kept /\ ~reader.text.cut)

\* No text is one the host would cut, whatever it has been told to let through
\* (budget.ts:38-42).
HostNeverCuts ==
  reader.text # NoText => reader.text.lines <= Ceiling.lines /\ reader.text.bytes <= Ceiling.bytes

\* A closer look that is available is not shed once it is text.  The README
\* gives the instance in which it is: a view is fitted to the cap of a
\* response, and not to the budget.
FocusReachesCaller ==
  reader.state = "shown" /\ Roomy /\ focus.answer.status = "available" => 2 \in reader.text.kept

\* Reading on with each cursor, at whatever limits, gives every record of a
\* facet once and in order, those too large to return counted, and comes to an
\* end; the log is cut between its characters, no page is lost on the way, and
\* no text is cut by the host.
NothingSkipped == PagesTile /\ WindowsKeepCharacters /\ FactsReachCaller /\ HostNeverCuts

\* What was published is true of the run, and so is what is read later.
EvidenceIsTrue == ReportIsTrue /\ DetailIsTheRuns

\* An empty page of a facet that is available means that there is nothing: no
\* failure message of a test that was to pass, and no failure the summary of
\* the bundle names (paging.ts:334-340, interpret.ts:396-399).
EmptyPageIsTrue ==
  \A p \in ToSet(reader.pages) :
    p.facet = "failures" /\ p.first = 0 /\ Consumed(p) = 0 /\ p.answer = "available" =>
      /\ \A s \in ToSet(request.bundle.summary.failures) : s.text = NoName
      /\ \A t \in ToSet(ran) : FailedTest(t) => t.failures = <<>>
=============================================================================
