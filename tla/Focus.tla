-------------------------------- MODULE Focus --------------------------------
(***************************************************************************)
(* One diagnostic or one test, looked at closely: what the index says of   *)
(* it, and what is still read from the Result Bundle for it                *)
(* (adapter/service lazyDetailFor and bundleDigest, interpreter/focus and  *)
(* frames, and the focused answers of paging).                             *)
(*                                                                         *)
(* The read has one deadline for all its steps.  The bundle may be changed *)
(* from outside, before the digest is taken again or after it; its content *)
(* is a version, 0 the one the run left.  Every text is its length, and    *)
(* texts longer than DETAIL_MESSAGE_CHAR_CAP are left out.  An activity is *)
(* its title and those above it, a tree of them the list of what is in it, *)
(* parents before children.                                                *)
(***************************************************************************)
EXTENDS Interpretation, Output

CONSTANTS Focused,     \* the requests whose results are looked at closely
          Detail,      \* what a test may leave in the bundle about itself
          Written(_),  \* a record's message: its characters, and its lines
          Fixed(_),    \* what is left of a record when all that may be shortened is
          Disturbed    \* when the bundle may be changed: before or after the digest

ASSUME FocusAssumption ==
  /\ Disturbed \subseteq {"before", "after"}
  /\ \A detail \in Detail :
       /\ IsSequence(detail.activities) /\ IsSequence(detail.attachments) /\ ToSet(detail.attachments) \subseteq Nat
       /\ \A tree \in ToSet(detail.activities) : IsSequence(tree) /\ \A a \in ToSet(tree) : a.title \in Nat

VARIABLES
  store,   \* the retained bundle: what it holds now, what its record says
  focus    \* the closer look: its step, its subject, the detail read, the answer

focusing == <<store, focus>>

NoDigest == -1
NoView == "none"
Untouched == [version |-> 0, indexed |-> 0, recorded |-> NoDigest, kept |-> TRUE, readable |-> TRUE, tool |-> TRUE]
NoLook == [step |-> "none", kind |-> "none", subject |-> 0, late |-> FALSE, served |-> NoDigest,
           detail |-> [activities |-> <<>>, attachments |-> <<>>], answer |-> [status |-> "none"]]

-----------------------------------------------------------------------------
(* The digest. *)

\* The digest recorded when the bundle is stable, unless it could not be taken
\* in time; one that was recorded before a crash stands.
Stabilize(recorded, version, digested) ==
  IF digested /\ recorded \in {NoDigest, version} THEN version ELSE recorded

\* The bundle when the caller looks: changed or not between the run and its
\* interpretation, which a crash may have put off, and since; or one that is
\* gone, unreadable, or of another toolchain by now.
Bundles ==
  {b \in [version : 0 .. 2, indexed : {0, 1}, recorded : {NoDigest, 0, 1}, kept : BOOLEAN, readable : BOOLEAN, tool : BOOLEAN] :
     \/ /\ b.kept /\ b.readable /\ b.tool
        /\ b.version = b.indexed \/ ("before" \in Disturbed /\ b.version = b.indexed + 1)
        /\ \E first \in {NoDigest, 0}, digested \in BOOLEAN : b.recorded = Stabilize(first, b.indexed, digested)
     \/ \E what \in {"kept", "readable", "tool"} : b = [Untouched EXCEPT ![what] = FALSE, !.recorded = 0]}

-----------------------------------------------------------------------------
(* Caps: each returns what is kept, and whether something was left out. *)

CapTo(length, cap) == [value |-> Min({length, cap}), truncated |-> length > cap]
CapCollection(items, cap) == [value |-> SubSeq(items, 1, Min({Len(items), cap})), truncated |-> Len(items) > cap]

\* A source line and a readable backtrace line are frames; text of which fewer
\* lines became frames than are shaped like one is read in part.
ExtractFrames(lines) ==
  LET frames == Keeping(lines, {l \in ToSet(lines) : l.kind \in {"frame", "source"}})
      shaped == Number(lines, LAMBDA l : l.kind \in {"frame", "unreadable"})
  IN [frames |-> frames, partial |-> Len(frames) < shaped]

\* A frame whose place is too long is dropped, one whose names are is shortened.
CapFrames(lines) ==
  LET extracted == ExtractFrames(lines)
      placed == Keeping(extracted.frames, {f \in ToSet(extracted.frames) : f.path <= Limit.framePath})
      sizes == [i \in DOMAIN placed |-> placed[i].path + CapTo(placed[i].text, Limit.frameText).value]
      kept == CapCollection(sizes, Limit.frames)
  IN [value |-> kept.value,
      collection |-> kept.truncated \/ extracted.partial \/ Len(placed) < Len(extracted.frames),
      field |-> \E f \in ToSet(placed) : f.text > Limit.frameText]

\* The activities, parents before children: so many in all, so deep, and each
\* title so long.
CapActivities(trees) ==
  LET shallow == UNION {{t} \X {n \in DOMAIN trees[t] : Len(trees[t][n].above) < Limit.activityDepth} :
                          t \in DOMAIN trees}
      kept == {p \in shallow : Cardinality({q \in shallow : Earlier(q, p)}) < Limit.activities}
      size(t) == Total([n \in {n \in DOMAIN trees[t] : <<t, n>> \in kept} |->
                          CapTo(trees[t][n].title, Limit.activityText).value])
  IN [value |-> [t \in 1 .. Cardinality({t \in DOMAIN trees : <<t, 1>> \in kept}) |-> size(t)],
      truncated |-> \E t \in DOMAIN trees : \E n \in DOMAIN trees[t] :
                      <<t, n>> \notin kept \/ trees[t][n].title > Limit.activityText]

\* What the details of a test decode to: an activity or an attachment without
\* a name is none, and an activity below one neither.
NamedActivities(trees) ==
  LET named == [t \in DOMAIN trees |-> Keeping(trees[t], {a \in ToSet(trees[t]) : 0 \notin {a.title} \cup ToSet(a.above)})]
  IN Keeping(named, ToSet(named) \ {<<>>})

DecodeTestDetails(detail) ==
  [activities |-> NamedActivities(detail.activities), attachments |-> Keeping(detail.attachments, Nat \ {0})]

-----------------------------------------------------------------------------
(* The view: the length of its message, and the sizes of what is in its lists, *)
(* from what matters most to what is shed first.                             *)

Of(list, sizes) == [i \in DOMAIN sizes |-> [list |-> list, size |-> sizes[i]]]

ViewBytes(view) == view.fixed + view.message + Total([i \in DOMAIN view.items |-> view.items[i].size])
FitsCap(view) == ViewBytes(view) + Limit.envelope <= Limit.responseCap

\* What is left of a message that is halved again and again.
Halves(length) == {c \in 1 .. length : \E m \in 1 .. length : c = length \div 2 ^ m}

\* The last item is shed until the rest fits, and then half of the message;
\* what cannot be shortened enough is not returned.
Fit(view, truncation) ==
  LET shed(k) == [view EXCEPT !.items = SubSeq(@, 1, Len(@) - k)]
      enough == {k \in 0 .. Len(view.items) : FitsCap(shed(k))}
      bare == shed(Len(view.items))
      short == {c \in Halves(view.message) : FitsCap([bare EXCEPT !.message = c])}
      cut(field, collection, omitted) ==
        [field |-> truncation.field \/ field, collection |-> truncation.collection \/ collection,
         response |-> field \/ collection \/ omitted = 1, omitted |-> omitted]
  IN CASE enough # {} -> [view |-> shed(Min(enough)), truncation |-> cut(FALSE, Min(enough) > 0, 0)]
       [] enough = {} /\ short # {} -> [view |-> [bare EXCEPT !.message = Max(short)],
                                      truncation |-> cut(TRUE, view.items # <<>>, 0)]
       [] OTHER -> [view |-> NoView, truncation |-> cut(view.message > 1, view.items # <<>>, 1)]

Truncation(field, collection) == [field |-> field, collection |-> collection]

FocusedDiagnostic(record, detail) ==
  LET written == Written(record)
      message == CapTo(written.chars, Limit.message)
      frames == CapFrames(written.lines)
      activities == CapActivities(detail.activities)
      names == [i \in DOMAIN detail.attachments |-> CapTo(detail.attachments[i], Limit.attachmentText)]
      attachments == CapCollection([i \in DOMAIN names |-> names[i].value], Limit.attachments)
  IN Fit([fixed |-> Fixed(record), message |-> message.value,
          items |-> Of("stackFrames", frames.value) \o Of("activities", activities.value)
                      \o Of("attachments", attachments.value)],
         Truncation(message.truncated \/ frames.field \/ \E n \in ToSet(names) : n.truncated,
                    frames.collection \/ activities.truncated \/ attachments.truncated))

FailuresOf(i) == Keeping(report.index.testFailures, {e \in ToSet(report.index.testFailures) : e.test = i})

\* A failure of a test is shown as the index keeps it for the summary: its
\* message was cut to MESSAGE_CHAR_CAP when the index was made.
SummarySize(record) == Fixed(record) + Min({Written(record).chars, Limit.summaryMessage})
FailureSizes(i) ==
  LET failures == FailuresOf(i) IN [k \in DOMAIN failures |-> SummarySize(failures[k])]

FocusedTest(i, detail) ==
  LET occurrence == report.index.occurrences[i]
      diagnostics == CapCollection(FailureSizes(i), Limit.testFailures)
      attempts == CapCollection([k \in 1 .. occurrence.attempts |-> 1], Limit.attempts)
      activities == CapActivities(detail.activities)
  IN Fit([fixed |-> Fixed(occurrence), message |-> 0,
          items |-> Of("attempts", attempts.value) \o Of("diagnostics", diagnostics.value)
                      \o Of("activities", activities.value)],
         Truncation(FALSE, diagnostics.truncated \/ attempts.truncated \/ activities.truncated))

Subjects == {"failure", "buildError", "test"}
RecordsOf(kind) ==
  CASE kind = "failure" -> report.index.testFailures [] kind = "buildError" -> report.index.buildErrors
    [] kind = "test" -> report.index.occurrences

-----------------------------------------------------------------------------
(* The steps. *)

\* The test a look is about; a diagnostic of no test, or a test that shares
\* its name with another, has none that could be read for it.
OccurrenceFor(kind, subject) ==
  LET index == report.index
      i == CASE kind = "test" -> subject [] kind = "failure" -> index.testFailures[subject].test [] OTHER -> 0
      named(n) == {j \in DOMAIN index.occurrences : Canonical(index.occurrences[j].identity) = n}
  IN IF i # 0 /\ Cardinality(named(Canonical(index.occurrences[i].identity))) = 1 THEN i ELSE 0

\* The answer made of what was read, or of why it was not.
Respond(look, lazy, detail) ==
  LET record == RecordsOf(look.kind)[look.subject]
      fitted == IF look.kind = "test" THEN FocusedTest(look.subject, detail) ELSE FocusedDiagnostic(record, detail)
      omitted == fitted.truncation.omitted > 0
  IN [look EXCEPT !.step = "answered", !.detail = detail,
        !.answer = IF lazy = "unsupported" THEN [status |-> "unsupported"]
                   ELSE [status |-> IF omitted \/ lazy = "incomplete" THEN "incomplete" ELSE "available",
                         view |-> fitted.view, truncation |-> fitted.truncation]]

Answer(lazy, detail) == focus' = Respond(focus, lazy, detail)

\* The look begins; what needs no read is answered at once.
Look(kind, subject, retained) ==
  LET look == [NoLook EXCEPT !.kind = kind, !.subject = subject]
      unread(lazy) == Respond(look, lazy, NoLook.detail)
  IN /\ store' = retained
     /\ focus' = CASE OccurrenceFor(kind, subject) = 0 \/ ~retained.kept -> unread("incomplete")
                   [] OccurrenceFor(kind, subject) # 0 /\ retained.kept /\ ~retained.tool -> unread("unsupported")
                   [] OTHER -> [look EXCEPT !.step = "digest"]

\* The bundle is digested again and compared with its record.
Verify ==
  /\ focus.step = "digest" /\ UNCHANGED store
  /\ IF focus.late \/ ~store.readable \/ store.recorded # store.version
     THEN Answer("incomplete", NoLook.detail)
     ELSE focus' = [focus EXCEPT !.step = "read"]

\* The detail is read, decoded, and thrown away if it came too late; the read
\* itself, or what it gave, may fail.  Somebody may have written into the
\* bundle between its digest and its read.
ReadDetail ==
  /\ focus.step = "read"
  /\ store' \in {store} \cup {[store EXCEPT !.version = @ + 1] : when \in Disturbed \cap {"after"}}
  /\ \/ Answer("incomplete", NoLook.detail)
     \/ \E detail \in Detail :
          /\ ~focus.late
          /\ focus' = [Respond(focus, "available", DecodeTestDetails(detail)) EXCEPT !.served = store'.version]

LookIsLate ==
  /\ focus.step \in {"digest", "read"} /\ ~focus.late
  /\ focus' = [focus EXCEPT !.late = TRUE] /\ UNCHANGED store

LookCloser == Verify \/ ReadDetail \/ LookIsLate

-----------------------------------------------------------------------------
(* Properties. *)

FocusTypeOK ==
  /\ focus.step \in {"none", "digest", "read", "answered"} /\ focus.kind \in Subjects \cup {"none"}
  /\ store.recorded \in {NoDigest, 0, 1} /\ store.version \in 0 .. 3
  /\ focus.answer.status \in {"none", "available", "incomplete", "unsupported"}

\* The sizes of all there is about the subject, before any cap of the answer:
\* of a test's failures, what the index keeps of them for the summary.
TreeSizes(trees) == [t \in DOMAIN trees |-> Total([n \in DOMAIN trees[t] |-> trees[t][n].title])]

Everything ==
  LET record == RecordsOf(focus.kind)[focus.subject]
      lines == Written(record).lines
      frames == Keeping(lines, {l \in ToSet(lines) : l.kind \in {"frame", "source", "unreadable"}})
      activities == Of("activities", TreeSizes(focus.detail.activities))
  IN IF focus.kind = "test"
     THEN [fixed |-> Fixed(record), message |-> 0,
           items |-> Of("attempts", [k \in 1 .. record.attempts |-> 1])
                       \o Of("diagnostics", FailureSizes(focus.subject)) \o activities]
     ELSE [fixed |-> Fixed(record), message |-> Written(record).chars,
           items |-> Of("stackFrames", [i \in DOMAIN frames |-> frames[i].path + frames[i].text])
                       \o activities \o Of("attachments", focus.detail.attachments)]

\* An answer that is available was read in time, by the toolchain of the run,
\* from the very bundle its index was made from, for the one test it can be
\* about; whatever the answer leaves out of what was read, of a diagnostic's
\* full message or of a test's record in the index, one of its marks says so,
\* and it fits (service.ts:1284-1300; paging.ts:466-475; focus.ts:286-294).  The
\* cut the index itself made in the messages of a test's failures is in that
\* record, and no mark tells of it: MessagesAreMarked.
DetailIsTheRuns ==
  focus.step = "answered" =>
    /\ focus.answer.status = "available" =>
         /\ store.kept /\ store.tool /\ ~focus.late /\ focus.served = store.indexed
         /\ OccurrenceFor(focus.kind, focus.subject) # 0
    /\ focus.answer.status \in {"available", "incomplete"} /\ focus.answer.truncation.omitted = 0 =>
         /\ FitsCap(focus.answer.view)
         /\ LET cut == focus.answer.truncation
            IN cut.field \/ cut.collection \/ focus.answer.view = Everything

\* "Every cap that bites is reported, because a silently shortened message is
\* indistinguishable from a short one" (focus.ts:10-12), of a test whose
\* failures are shown.  Refuted: focusedTest returns the records of the index.
MessagesAreMarked ==
  focus.step = "answered" /\ focus.kind = "test" /\ focus.answer.status = "available" =>
    \/ focus.answer.truncation.field
    \/ \A record \in ToSet(FailuresOf(focus.subject)) : Written(record).chars <= Limit.summaryMessage
=============================================================================
