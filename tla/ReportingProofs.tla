-------------------------- MODULE ReportingProofs --------------------------
(***************************************************************************)
(* What is true of every report, of every text of it, and of all that is   *)
(* read of it later.                                                       *)
(*                                                                         *)
(* Of the interpreter: what is gathered says only what was read (Sound),   *)
(* every outcome rests on what is gathered, and a report without a mark    *)
(* was read in time, for every request, whatever reads fail, are late or   *)
(* are cancelled.  Of the text: it is one the host lets through, blocks go *)
(* in the order of their priority, and the block that says what the answer *)
(* is about stays.  Of the reading: the pages tile a facet, windows of the *)
(* log end between characters, and a closer look says all there is of its  *)
(* subject or marks what it leaves out.                                    *)
(***************************************************************************)
EXTENDS Inspection, Sums, SequenceTheorems

-----------------------------------------------------------------------------
(* Keeping some of the elements of a sequence. *)

\* What is kept of the first n elements, for every n.
Steps(f, s, kept) ==
  /\ f[0] = <<>>
  /\ \A n \in 1 .. Len(s) : f[n] = IF s[n] \in kept THEN Append(f[n - 1], s[n]) ELSE f[n - 1]

\* Keeping is the last of its steps.
LEMMA KeepingSteps ==
  ASSUME NEW s, IsSequence(s), NEW kept
  PROVE  \E f : Keeping(s, kept) = f[Len(s)] /\ Steps(f, s, kept)
<1> DEFINE top == Len(s)
           After(before, n) == IF s[n] \in kept THEN Append(before, s[n]) ELSE before
           Follows(m, f) == f = [n \in 0 .. m |-> IF n = 0 THEN <<>> ELSE After(f[n - 1], n)]
           Missing == {m \in 0 .. top : ~\E f : Follows(m, f)}
<1>1. top \in Nat
  BY DEF IsSequence
<1> HIDE DEF top
<1>2. Missing = {}
  <2> SUFFICES ASSUME Missing # {} PROVE FALSE
    OBVIOUS
  <2>1. PICK m \in Missing : \A j \in Missing : m <= j
    <3>1. Missing \subseteq Nat
      BY <1>1
    <3> HIDE DEF Missing
    <3>2. QED
      BY <3>1, LeastExists
  <2>2. m \in 0 .. top /\ ~\E f : Follows(m, f)
    OBVIOUS
  <2>3. m # 0
    <3>1. Follows(0, [n \in 0 .. 0 |-> <<>>])
      OBVIOUS
    <3>2. QED
      BY <2>2, <3>1
  <2>4. m - 1 \in 0 .. top /\ m - 1 \notin Missing
    <3>1. m - 1 \in 0 .. top /\ ~(m <= m - 1)
      BY <1>1, <2>2, <2>3
    <3> HIDE DEF Missing
    <3>2. QED
      BY <2>1, <3>1
  <2>5. PICK f : Follows(m - 1, f)
    BY <2>4
  <2> HIDE DEF After
  <2> DEFINE g == [n \in 0 .. m |-> IF n = m THEN After(f[m - 1], m) ELSE f[n]]
  <2>6. \A n \in 0 .. m : g[n] = IF n = 0 THEN <<>> ELSE After(g[n - 1], n)
    <3>1. ASSUME NEW n \in 0 .. m, n # m
          PROVE  g[n] = IF n = 0 THEN <<>> ELSE After(g[n - 1], n)
      <4>1. n \in 0 .. (m - 1) /\ g[n] = f[n]
        BY <2>2, <3>1
      <4>2. f[n] = IF n = 0 THEN <<>> ELSE After(f[n - 1], n)
        BY <2>5, <4>1
      <4>3. n # 0 => g[n - 1] = f[n - 1]
        BY <2>2, <3>1
      <4> HIDE DEF g
      <4>4. QED
        BY <4>1, <4>2, <4>3
    <3>2. g[m] = After(g[m - 1], m)
      <4>1. g[m] = After(f[m - 1], m) /\ g[m - 1] = f[m - 1]
        BY <2>2, <2>3
      <4> HIDE DEF g
      <4>2. QED
        BY <4>1
    <3> HIDE DEF g
    <3>3. QED
      BY <2>3, <3>1, <3>2
  <2>7. Follows(m, g)
    <3>1. g = [n \in 0 .. m |-> g[n]]
      OBVIOUS
    <3> HIDE DEF g
    <3>2. [n \in 0 .. m |-> g[n]] = [n \in 0 .. m |-> IF n = 0 THEN <<>> ELSE After(g[n - 1], n)]
      BY <2>6
    <3>3. QED
      BY <3>1, <3>2, Zenon
  <2>8. QED
    BY <2>2, <2>7
<1>3. \E f : Follows(top, f)
  <2> HIDE DEF Follows
  <2>1. top \in 0 .. top
    BY <1>1
  <2>2. QED
    BY <1>2, <2>1
<1>4. Keeping(s, kept) = (CHOOSE f : Follows(top, f))[top]
  BY DEF Keeping, top
<1> DEFINE chosen == CHOOSE f : Follows(top, f)
<1>5. Follows(top, chosen)
  <2> HIDE DEF Follows
  <2>1. QED
    BY <1>3
<1> HIDE DEF After
<1>6. \A n \in 0 .. top : chosen[n] = IF n = 0 THEN <<>> ELSE After(chosen[n - 1], n)
  <2> HIDE DEF chosen
  <2>1. QED
    BY <1>5
<1> HIDE DEF Follows
<1>7. Keeping(s, kept) = chosen[top]
  BY <1>4
<1> HIDE DEF chosen
<1>8. chosen[0] = <<>> /\ \A n \in 1 .. top : chosen[n] = After(chosen[n - 1], n)
  BY <1>1, <1>6
<1>9. QED
  BY <1>7, <1>8 DEF After, top, Steps

\* What is kept is what is in the set.
LEMMA KeepingKeeps ==
  ASSUME NEW s, IsSequence(s), NEW kept
  PROVE  /\ Keeping(s, kept) \in Seq(ToSet(s) \cap kept)
         /\ ToSet(Keeping(s, kept)) = ToSet(s) \cap kept
<1>2. PICK f : Keeping(s, kept) = f[Len(s)] /\ Steps(f, s, kept)
  BY KeepingSteps, Zenon
<1> DEFINE top == Len(s)
           Kept(n) == {s[i] : i \in 1 .. n} \cap kept
           Right(q, n) == q \in Seq(Kept(n)) /\ {q[i] : i \in 1 .. Len(q)} = Kept(n)
<1>1. top \in Nat /\ s \in Seq(ToSet(s)) /\ DOMAIN s = 1 .. top
  BY DEF IsSequence
<1>10. /\ Keeping(s, kept) = f[top] /\ f[0] = <<>>
       /\ \A n \in 1 .. top : f[n] = IF s[n] \in kept THEN Append(f[n - 1], s[n]) ELSE f[n - 1]
  BY <1>2 DEF Steps
<1> HIDE DEF top
<1> DEFINE Wrong == {n \in 0 .. top : ~Right(f[n], n)}
<1>3. Wrong = {}
  <2> SUFFICES ASSUME Wrong # {} PROVE FALSE
    OBVIOUS
  <2>1. PICK n \in Wrong : \A j \in Wrong : n <= j
    <3>1. Wrong \subseteq Nat
      BY <1>1
    <3> HIDE DEF Wrong
    <3>2. QED
      BY <3>1, LeastExists
  <2>2. n \in 0 .. top /\ ~Right(f[n], n)
    OBVIOUS
  <2>3. n # 0
    <3>1. Right(f[0], 0)
      BY <1>10
    <3>2. QED
      BY <2>2, <3>1
  <2>4. n \in 1 .. top /\ n - 1 \in 0 .. top /\ n - 1 \notin Wrong
    <3>1. n \in 1 .. top /\ n - 1 \in 0 .. top /\ ~(n <= n - 1)
      BY <1>1, <2>2, <2>3
    <3> HIDE DEF Wrong
    <3>2. QED
      BY <2>1, <3>1
  <2>5. Right(f[n - 1], n - 1)
    BY <2>4
  <2>6. PICK q : q = f[n - 1]
    OBVIOUS
  <2>7. {s[i] : i \in 1 .. n} = {s[i] : i \in 1 .. (n - 1)} \cup {s[n]}
    BY <1>1, <2>4
  <2>8. CASE s[n] \in kept
    <3>1. f[n] = Append(q, s[n])
      BY <1>10, <2>4, <2>6, <2>8
    <3>2. Kept(n) = Kept(n - 1) \cup {s[n]}
      BY <2>7, <2>8
    <3>3. q \in Seq(Kept(n - 1)) /\ {q[i] : i \in 1 .. Len(q)} = Kept(n - 1)
      BY <2>5, <2>6
    <3> HIDE DEF Kept
    <3>4. q \in Seq(Kept(n)) /\ s[n] \in Kept(n)
      BY <3>2, <3>3
    <3>5. Append(q, s[n]) \in Seq(Kept(n))
      BY <3>4
    <3>6. Len(Append(q, s[n])) = Len(q) + 1 /\ Len(q) \in Nat
          /\ \A i \in 1 .. Len(q) + 1 : Append(q, s[n])[i] = IF i \in 1 .. Len(q) THEN q[i] ELSE s[n]
      BY <3>4
    <3>7. PICK p : p = Append(q, s[n])
      OBVIOUS
    <3>8. {p[i] : i \in 1 .. Len(p)} = {q[i] : i \in 1 .. Len(q)} \cup {s[n]}
      <4>1. Len(p) = Len(q) + 1 /\ Len(q) \in Nat /\ p[Len(q) + 1] = s[n] /\ \A i \in 1 .. Len(q) : p[i] = q[i]
        BY <3>6, <3>7
      <4>2. QED
        BY <4>1
    <3>9. QED
      BY <2>2, <3>1, <3>2, <3>3, <3>5, <3>7, <3>8
  <2>9. CASE s[n] \notin kept
    <3>1. f[n] = f[n - 1]
      BY <1>10, <2>4, <2>9
    <3>2. Kept(n) = Kept(n - 1)
      BY <2>7, <2>9
    <3> HIDE DEF Kept
    <3>3. QED
      BY <2>2, <2>5, <3>1, <3>2
  <2>10. QED
    BY <2>8, <2>9
<1>4. Right(f[top], top)
  <2> HIDE DEF Right
  <2>1. top \in 0 .. top
    BY <1>1
  <2>2. QED
    BY <1>3, <2>1
<1>5. Kept(top) = ToSet(s) \cap kept
  BY <1>1 DEF ToSet
<1>6. PICK q : q = Keeping(s, kept)
  OBVIOUS
<1>7. q \in Seq(Kept(top)) /\ {q[i] : i \in 1 .. Len(q)} = Kept(top)
  BY <1>10, <1>4, <1>6
<1> HIDE DEF Kept
<1>8. ToSet(q) = Kept(top)
  BY <1>7 DEF ToSet
<1>9. QED
  BY <1>5, <1>6, <1>7, <1>8

-----------------------------------------------------------------------------
(* The rules of classify. *)

\* The least of some numbers.
LEMMA MinIs ==
  ASSUME NEW S, S \subseteq Nat, S # {}
  PROVE  Min(S) \in S /\ \A j \in S : Min(S) <= j
BY LeastExists DEF Min

\* The first of a list of rules that applies.
LEMMA OneDecides ==
  ASSUME NEW X, NEW rules \in Seq(X), NEW n \in 1 .. Len(rules), rules[n][1]
  PROVE  \E first \in 1 .. n : /\ FirstThatApplies(rules) = rules[first][2]
                               /\ rules[first][1] /\ \A j \in 1 .. first - 1 : ~rules[j][1]
<1> DEFINE I == {i \in 1 .. Len(rules) : rules[i][1]}
<1>1. I \subseteq Nat /\ n \in I
  OBVIOUS
<1>2. Min(I) \in I /\ \A j \in I : Min(I) <= j
  <2> HIDE DEF I
  <2>1. QED
    BY <1>1, MinIs
<1>3. FirstThatApplies(rules) = rules[Min(I)][2]
  BY <1>1 DEF FirstThatApplies, SelectInSeq
<1>4. PICK first : first = Min(I)
  OBVIOUS
<1>5. /\ first \in I /\ first \in 1 .. n
      /\ \A j \in 1 .. first - 1 : j \in 1 .. Len(rules) /\ j \notin I
  <2>1. I \subseteq 1 .. Len(rules) /\ n \in I
    BY Zenon
  <2>2. PICK top \in Nat : top = Len(rules)
    OBVIOUS
  <2> HIDE DEF I
  <2>3. first \in I /\ \A j \in I : first <= j
    BY <1>2, <1>4
  <2>4. first \in 1 .. n
    BY <2>1, <2>2, <2>3
  <2>5. ASSUME NEW j \in 1 .. first - 1 PROVE j \in 1 .. Len(rules) /\ j \notin I
    <3>1. j \in Nat /\ ~(first <= j) /\ j \in 1 .. top
      BY <2>1, <2>2, <2>4
    <3>2. QED
      BY <2>2, <2>3, <3>1
  <2>6. QED
    BY <2>3, <2>4, <2>5
<1>6. FirstThatApplies(rules) = rules[first][2]
  BY <1>3, <1>4
<1>7. rules[first][1] /\ \A j \in 1 .. first - 1 : ~rules[j][1]
  BY <1>5, Zenon
<1>8. QED
  BY <1>5, <1>6, <1>7, Zenon

\* Counting a sequence.
LEMMA CountIsNat ==
  ASSUME NEW s, IsSequence(s), NEW status
  PROVE  /\ CountOccurrences(s, status) \in Nat
         /\ CountOccurrences(s, status) = 0 <=> \A o \in ToSet(s) : o.status # status
<1> DEFINE I == {i \in DOMAIN s : s[i].status = status}
<1>1. DOMAIN s = 1 .. Len(s) /\ Len(s) \in Nat
  BY DEF IsSequence
<1>2. IsFiniteSet(I)
  <2>1. IsFiniteSet(1 .. Len(s))
    BY <1>1, FS_Interval
  <2>2. QED
    BY <1>1, <2>1, FS_Subset
<1>3. CountOccurrences(s, status) = Cardinality(I)
  BY DEF CountOccurrences, Number
<1>4. (I = {}) <=> \A o \in ToSet(s) : o.status # status
  BY DEF ToSet
<1> HIDE DEF I
<1>5. Cardinality(I) \in Nat /\ (Cardinality(I) = 0 <=> I = {})
  BY <1>2, FS_CardinalityType, FS_EmptySet
<1>6. QED
  BY <1>3, <1>4, <1>5

\* The outcome is that of the first rule that applies, and one does.
LEMMA ClassifyDecides ==
  ASSUME NEW f, NEW verdict, IsSequence(f.errors), IsSequence(f.occurrences), f.cancelled \in BOOLEAN
  PROVE  \E i \in 1 .. 14 : /\ Classify(f, verdict) = Rules(f, verdict)[i][2]
                            /\ Rules(f, verdict)[i][1]
                            /\ \A j \in 1 .. i - 1 : ~Rules(f, verdict)[j][1]
<1>1. PICK rules : rules = Rules(f, verdict)
  OBVIOUS
<1>2. Len(rules) = 14 /\ DOMAIN rules = 1 .. 14
  BY <1>1 DEF Rules
<1>3. rules[14][1]
  BY <1>1 DEF Rules
<1>4. rules = [i \in 1 .. 14 |-> rules[i]]
  BY <1>1 DEF Rules
<1>5. rules \in Seq({rules[i] : i \in 1 .. 14})
  BY <1>2, <1>4
<1>6. 14 \in 1 .. Len(rules)
  BY <1>2
<1>7. \E first \in 1 .. 14 : /\ FirstThatApplies(rules) = rules[first][2]
                            /\ rules[first][1] /\ \A j \in 1 .. first - 1 : ~rules[j][1]
  BY <1>3, <1>5, <1>6, OneDecides, Zenon
<1>8. QED
  BY <1>1, <1>7, Zenon DEF Classify

\* The rules that say passed, testFailed and buildFailed.
LEMMA RuleOutcomes ==
  ASSUME NEW f, NEW verdict
  PROVE  \A i \in 1 .. 14 :
           LET decided == Rules(f, verdict)[i][2].outcome
           IN /\ decided \in {"passed", "testFailed", "buildFailed", "infrastructureFailed", "cancelled", "timedOut"}
              /\ (decided = "buildFailed" => i = 6) /\ (decided = "testFailed" => i = 10)
              /\ (decided = "passed" => i = 12)
<1>1. PICK rules : rules = Rules(f, verdict)
  OBVIOUS
<1>2. /\ rules[1][2] = Outcome("cancelled") /\ rules[2][2] = Outcome("timedOut")
      /\ rules[3][2] = Outcome("cancelled") /\ rules[4][2] = Infrastructure("contradictoryEvidence")
      /\ rules[5][2] = Infrastructure(f.defect.reason) /\ rules[6][2] = Outcome("buildFailed")
      /\ rules[7][2] = Infrastructure("scopeMismatch") /\ rules[8][2] = Infrastructure("scopeUnverifiable")
      /\ rules[9][2] = Infrastructure("unknownTestStatus") /\ rules[10][2] = Outcome("testFailed")
      /\ rules[11][2] = Infrastructure("resultBundleIncomplete") /\ rules[12][2] = Outcome("passed")
      /\ rules[13][2] = Infrastructure("processFailedWithoutDiagnostics")
      /\ rules[14][2] = Infrastructure("resultBundleIncomplete")
  BY <1>1 DEF Rules
<1>3. \A reason : Infrastructure(reason).outcome = "infrastructureFailed" /\ Outcome(reason).outcome = reason
  BY DEF Infrastructure, Outcome
<1>4. QED
  BY <1>1, <1>2, <1>3

\* When the rules apply.
LEMMA RuleConditions ==
  ASSUME NEW f, NEW verdict, f.cancelled \in BOOLEAN,
         NEW r, r = Rules(f, verdict),
         NEW errors, errors = TrustworthyBuildErrors(f),
         NEW failed, failed = TrustworthyFailures(f)
  PROVE  /\ r[1][1] <=> request.trigger = "callerCancellation"
         /\ r[2][1] <=> request.trigger = "processDeadline"
         /\ r[3][1] <=> f.cancelled
         /\ r[4][1] <=> (request.exit = "yes" /\ errors + failed > 0)
         /\ r[5][1] <=> (f.defect # NoDefect /\ (errors = 0 \/ f.defect.subject # "tests"))
         /\ r[6][1] <=> errors > 0
         /\ r[9][1] <=> CountOccurrences(f.occurrences, "unknown") > 0
         /\ r[10][1] <=> (failed > 0 /\ f.build = "complete" /\ f.tests = "complete" /\ verdict = "matched")
         /\ r[11][1] <=> failed > 0
         /\ r[12][1] <=> (/\ request.exit = "yes" /\ f.build = "complete" /\ f.tests = "complete"
                          /\ f.errors = <<>> /\ f.occurrences # <<>> /\ verdict = "matched")
BY DEF Rules

\* What each outcome that says something of the tests rests on.
LEMMA OutcomesRest ==
  ASSUME NEW f, NEW verdict, IsSequence(f.errors), IsSequence(f.occurrences), f.cancelled \in BOOLEAN
  PROVE  LET errors == TrustworthyBuildErrors(f)
             failed == TrustworthyFailures(f)
             decided == Classify(f, verdict).outcome
         IN /\ decided \in {"passed", "testFailed", "buildFailed", "infrastructureFailed", "cancelled", "timedOut"}
            /\ decided \in {"testFailed", "buildFailed"} => ~(request.exit = "yes" /\ errors + failed > 0)
            /\ decided = "buildFailed" => errors > 0
            /\ decided = "testFailed" => ~(errors > 0) /\ failed > 0 /\ f.build = "complete" /\ f.tests = "complete"
            /\ decided = "passed" =>
                 /\ request.trigger # "callerCancellation" /\ request.trigger # "processDeadline"
                 /\ ~f.cancelled /\ f.defect = NoDefect
                 /\ ~(CountOccurrences(f.occurrences, "unknown") > 0) /\ ~(failed > 0)
                 /\ request.exit = "yes" /\ f.build = "complete" /\ f.tests = "complete"
                 /\ f.errors = <<>> /\ f.occurrences # <<>> /\ verdict = "matched"
<1>1. PICK i \in 1 .. 14 : /\ Classify(f, verdict) = Rules(f, verdict)[i][2]
                           /\ Rules(f, verdict)[i][1]
                           /\ \A j \in 1 .. i - 1 : ~Rules(f, verdict)[j][1]
  BY ClassifyDecides
<1>2. PICK rules : rules = Rules(f, verdict)
  OBVIOUS
<1>3. PICK decided : decided = Classify(f, verdict).outcome
  OBVIOUS
<1>4. /\ decided \in {"passed", "testFailed", "buildFailed", "infrastructureFailed", "cancelled", "timedOut"}
      /\ (decided = "buildFailed" => i = 6) /\ (decided = "testFailed" => i = 10)
      /\ (decided = "passed" => i = 12)
  BY <1>1, <1>3, RuleOutcomes
<1>5. PICK errors, failed : errors = TrustworthyBuildErrors(f) /\ failed = TrustworthyFailures(f)
  OBVIOUS
<1>6. CASE decided = "passed"
  <2>1. rules[12][1] /\ ~rules[1][1] /\ ~rules[2][1] /\ ~rules[3][1] /\ ~rules[5][1] /\ ~rules[9][1] /\ ~rules[11][1]
    <3>1. i = 12 /\ {1, 2, 3, 5, 9, 11} \subseteq 1 .. i - 1
      BY <1>4, <1>6
    <3>2. {1, 2, 3, 5, 9, 11} \subseteq 1 .. i - 1 => \A j \in {1, 2, 3, 5, 9, 11} : j \in 1 .. i - 1
      OBVIOUS
    <3>3. QED
      BY <1>1, <1>2, <3>1, <3>2
  <2>2. /\ request.exit = "yes" /\ f.build = "complete" /\ f.tests = "complete"
        /\ f.errors = <<>> /\ f.occurrences # <<>> /\ verdict = "matched"
    BY <1>2, <1>5, <2>1, RuleConditions
  <2>3. errors = 0
    BY <1>5, <2>2 DEF TrustworthyBuildErrors
  <2>4. f.defect = NoDefect \/ errors # 0
    BY <1>2, <1>5, <2>1, RuleConditions
  <2>5. /\ request.trigger # "callerCancellation" /\ request.trigger # "processDeadline"
        /\ ~f.cancelled /\ ~(CountOccurrences(f.occurrences, "unknown") > 0) /\ ~(failed > 0)
    BY <1>2, <1>5, <2>1, RuleConditions
  <2>6. QED
    BY <1>3, <1>4, <1>5, <1>6, <2>2, <2>3, <2>4, <2>5
<1>7. CASE decided = "testFailed"
  <2>1. rules[10][1] /\ ~rules[4][1] /\ ~rules[6][1]
    <3>1. i = 10 /\ 4 \in 1 .. i - 1 /\ 6 \in 1 .. i - 1
      BY <1>4, <1>7
    <3>2. QED
      BY <1>1, <1>2, <3>1
  <2>2. /\ ~(request.exit = "yes" /\ errors + failed > 0) /\ ~(errors > 0)
        /\ failed > 0 /\ f.build = "complete" /\ f.tests = "complete"
    BY <1>2, <1>5, <2>1, RuleConditions
  <2>3. QED
    BY <1>3, <1>4, <1>5, <1>7, <2>2
<1>8. CASE decided = "buildFailed"
  <2>1. rules[6][1] /\ ~rules[4][1]
    <3>1. i = 6 /\ 4 \in 1 .. i - 1
      BY <1>4, <1>8
    <3>2. QED
      BY <1>1, <1>2, <3>1
  <2>2. ~(request.exit = "yes" /\ errors + failed > 0) /\ errors > 0
    BY <1>2, <1>5, <2>1, RuleConditions
  <2>3. QED
    BY <1>3, <1>4, <1>5, <1>8, <2>2
<1>9. QED
  BY <1>3, <1>4, <1>6, <1>7, <1>8

-----------------------------------------------------------------------------
(* The tests of the hierarchy. *)

\* The tests that are in a bundle, and those of them that can be named.
Tested(nodes) == {t \in ToSet(nodes) : t.bundle # NoBundleNode}
Named(nodes) == {t \in ToSet(nodes) : t.bundle \notin {NoName, NoBundleNode}}

\* A count of positions is 0 when there is none.
LEMMA NothingCounted ==
  ASSUME NEW s, IsSequence(s), NEW I, I \subseteq DOMAIN s
  PROVE  Cardinality(I) \in Nat /\ (Cardinality(I) = 0 <=> I = {})
<1>1. DOMAIN s = 1 .. Len(s) /\ Len(s) \in Nat
  BY DEF IsSequence
<1>2. IsFiniteSet(1 .. Len(s))
  BY <1>1, FS_Interval
<1>3. IsFiniteSet(I)
  BY <1>1, <1>2, FS_Subset
<1>4. QED
  BY <1>3, FS_CardinalityType, FS_EmptySet

\* Every test that can be named is an occurrence, and the others are counted.
LEMMA NormalizedTests ==
  ASSUME NEW nodes, IsSequence(nodes)
  PROVE  LET n == NormalizeTestNodes(nodes)
         IN /\ IsSequence(n.occurrences)
            /\ Len(n.occurrences) = Len(Keeping(nodes, Named(nodes)))
            /\ ToSet(n.occurrences) = {CollectOccurrence(t) : t \in Named(nodes)}
            /\ n.unnameable \in Nat /\ n.missing \in Nat /\ n.unrecognized \in Nat
            /\ n.unnameable = 0 => Tested(nodes) = Named(nodes)
            /\ n.missing = 0 => \A t \in Named(nodes) : t.result # NoName
<1>1. PICK named : named = Keeping(nodes, Named(nodes))
  OBVIOUS
<1>2. named \in Seq(Named(nodes)) /\ ToSet(named) = Named(nodes)
  <2>1. Named(nodes) = ToSet(nodes) \cap Named(nodes)
    BY DEF Named
  <2>2. QED
    BY <1>1, <2>1, KeepingKeeps
<1>3. IsSequence(named) /\ DOMAIN named = 1 .. Len(named) /\ Len(named) \in Nat
  BY <1>2 DEF IsSequence
<1>4. PICK n : n = NormalizeTestNodes(nodes)
  OBVIOUS
<1>5. PICK o : o = [i \in DOMAIN named |-> CollectOccurrence(named[i])]
  OBVIOUS
<1>6. /\ n.occurrences = o
      /\ n.unnameable = Cardinality({i \in DOMAIN nodes : nodes[i].bundle = NoName})
      /\ n.missing = Cardinality({i \in DOMAIN named : named[i].result = NoName})
      /\ n.unrecognized = Cardinality({i \in DOMAIN named :
            \E r \in {named[i].result} \cup ToSet(named[i].attempts) : Unrecognized(r)})
  BY <1>1, <1>4, <1>5 DEF NormalizeTestNodes, Number, Named
<1>7. IsSequence(o) /\ Len(o) = Len(named) /\ ToSet(o) = {CollectOccurrence(t) : t \in Named(nodes)}
  <2>1. ToSet(o) = {CollectOccurrence(t) : t \in ToSet(named)}
    BY <1>5 DEF ToSet
  <2>2. o \in Seq(ToSet(o)) /\ Len(o) = Len(named)
    BY <1>3, <1>5 DEF ToSet
  <2>3. QED
    BY <1>2, <2>1, <2>2 DEF IsSequence
<1>8. n.unnameable \in Nat /\ (n.unnameable = 0 => Tested(nodes) = Named(nodes))
  <2>1. n.unnameable \in Nat /\ (n.unnameable = 0 => {i \in DOMAIN nodes : nodes[i].bundle = NoName} = {})
    BY <1>6, NothingCounted
  <2>2. QED
    BY <2>1 DEF Tested, Named, ToSet
<1>9. n.missing \in Nat /\ (n.missing = 0 => \A t \in Named(nodes) : t.result # NoName)
  <2>1. n.missing \in Nat /\ (n.missing = 0 => {i \in DOMAIN named : named[i].result = NoName} = {})
    BY <1>3, <1>6, NothingCounted
  <2>2. Named(nodes) = {named[i] : i \in DOMAIN named}
    BY <1>2 DEF ToSet
  <2>3. QED
    BY <2>1, <2>2
<1>10. n.unrecognized \in Nat
  BY <1>3, <1>6, NothingCounted
<1>11. QED
  BY <1>1, <1>4, <1>6, <1>7, <1>8, <1>9, <1>10

\* A test that failed once is one that failed, and no other is.
LEMMA FailureIsFailure ==
  ASSUME NEW t, IsSequence(t.attempts)
  PROVE  (CollectOccurrence(t).status = "failed") <=> FailedTest(t)
<1>1. \A r : (MapStatus(r) = "failed") <=> (r = "Failed")
  BY DEF MapStatus
<1>2. \A r : MapStatus(r) \in {"passed", "failed", "skipped", "expectedFailure", "unknown"}
  BY DEF MapStatus
<1>3. CASE t.attempts = <<>>
  BY <1>1, <1>3 DEF CollectOccurrence, FailedTest
<1>4. CASE t.attempts # <<>>
  <2>1. PICK S : S = {MapStatus(a) : a \in ToSet(t.attempts)}
    OBVIOUS
  <2>2. S # {} /\ S \subseteq {"passed", "failed", "skipped", "expectedFailure", "unknown"}
    <3>1. ToSet(t.attempts) # {}
      <4>1. PICK q : q = t.attempts
        OBVIOUS
      <4>2. q \in Seq(ToSet(q)) /\ q # <<>>
        BY <1>4, <4>1 DEF IsSequence
      <4>3. Len(q) \in Nat \ {0} /\ DOMAIN q = 1 .. Len(q)
        BY <4>2
      <4>4. q[1] \in ToSet(q)
        BY <4>3 DEF ToSet
      <4>5. QED
        BY <4>1, <4>4
    <3>2. QED
      BY <1>2, <2>1, <3>1
  <2>3. "failed" \in S <=> "Failed" \in ToSet(t.attempts)
    BY <1>1, <2>1
  <2> DEFINE I == {i \in 1 .. 5 : AggregationPrecedence[i] \in S}
  <2>4. /\ AggregationPrecedence[1] = "failed" /\ AggregationPrecedence[2] = "unknown"
        /\ AggregationPrecedence[3] = "passed" /\ AggregationPrecedence[4] = "expectedFailure"
        /\ AggregationPrecedence[5] = "skipped" /\ Len(AggregationPrecedence) = 5
    BY DEF AggregationPrecedence
  <2>14. I \subseteq Nat /\ I \subseteq 1 .. 5
    OBVIOUS
  <2>12. 1 \in I <=> "failed" \in S
    BY <2>4
  <2>13. I # {}
    <3>1. PICK status \in S : TRUE
      BY <2>2
    <3>2. PICK i \in 1 .. 5 : AggregationPrecedence[i] = status
      <4>1. status \in {"passed", "failed", "skipped", "expectedFailure", "unknown"}
        BY <2>2, <3>1
      <4>2. QED
        BY <2>4, <4>1
    <3>3. i \in I
      BY <3>1, <3>2
    <3>4. QED
      BY <3>3
  <2>5. Min(I) \in I /\ \A j \in I : Min(I) <= j
    <3> HIDE DEF I
    <3>1. QED
      BY <2>13, <2>14, MinIs
  <2>6. AggregateAttempts(S) = AggregationPrecedence[Min(I)]
    BY <2>4, <2>13 DEF AggregateAttempts, SelectInSeq
  <2>7. PICK m : m = Min(I)
    OBVIOUS
  <2>8. m \in 1 .. 5 /\ (m = 1 <=> 1 \in I)
    <3> HIDE DEF I
    <3>1. m \in I /\ \A j \in I : m <= j
      BY <2>5, <2>7
    <3>2. m \in 1 .. 5
      BY <2>14, <3>1
    <3>3. 1 \in I => m <= 1
      BY <3>1
    <3>4. QED
      BY <3>1, <3>2, <3>3
  <2>9. (AggregateAttempts(S) = "failed") <=> m = 1
    BY <2>4, <2>6, <2>7, <2>8
  <2>10. CollectOccurrence(t).status = AggregateAttempts(S)
    BY <1>4, <2>1 DEF CollectOccurrence
  <2>11. QED
    BY <1>4, <2>3, <2>8, <2>9, <2>10, <2>12 DEF FailedTest
<1>5. QED
  BY <1>3, <1>4

\* A scope matched is one in which the tests seen are those selected.
LEMMA ScopeAttested ==
  ASSUME NEW scope, scope.kind \in {"all", "selected"}, NEW occurrences, IsSequence(occurrences),
         NEW reached, NEW unidentifiable,
         AttestScope(scope, occurrences, reached, unidentifiable).verdict = "matched"
  PROVE  /\ \A o \in ToSet(occurrences) : o.complete
         /\ scope.kind = "selected" =>
              /\ \A s \in scope.tests : \E o \in ToSet(occurrences) : SelectionMatches(s, o)
              /\ \A o \in ToSet(occurrences) : \E s \in scope.tests : SelectionMatches(s, o)
<1> DEFINE usable == unidentifiable = 0 /\ \A o \in ToSet(occurrences) : o.complete
           Out == {i \in DOMAIN occurrences : ~\E s \in scope.tests : SelectionMatches(s, occurrences[i])}
           every == \A s \in scope.tests : \E o \in ToSet(occurrences) : SelectionMatches(s, o)
<1>1. Cardinality(Out) \in Nat /\ (Cardinality(Out) = 0 <=> Out = {})
  <2>1. Out \subseteq DOMAIN occurrences
    OBVIOUS
  <2> HIDE DEF Out
  <2>2. QED
    BY <2>1, NothingCounted
<1>2. usable /\ (scope.kind = "selected" => Cardinality(Out) = 0 /\ every)
  BY <1>1 DEF AttestScope, Number
<1>3. scope.kind = "selected" => \A o \in ToSet(occurrences) : \E s \in scope.tests : SelectionMatches(s, o)
  BY <1>1, <1>2 DEF ToSet
<1>4. QED
  BY <1>2, <1>3

-----------------------------------------------------------------------------
(* What is gathered, and the inductive invariant of the interpreter. *)

Completeness == {"unavailable", "partial", "complete"}

\* Every occurrence has so many attempts, and a list of failures.
Countable(occurrences) == \A o \in ToSet(occurrences) : o.attempts \in Nat /\ IsSequence(o.failures)

\* What is gathered says only what was read: a part that is complete is the
\* bundle's own.
Sound(f) ==
  /\ DOMAIN f = DOMAIN NothingFound
  /\ {f.build, f.tests} \subseteq Completeness /\ f.reached \in {"yes", "no", "unknown"}
  /\ f.cancelled \in BOOLEAN /\ f.defect.reason \in DOMAIN DEFECT_RANK
  /\ IsSequence(f.errors) /\ IsSequence(f.supplemental)
  /\ IsSequence(f.occurrences) /\ Countable(f.occurrences)
  /\ f.build = "complete" =>
       f.errors = request.bundle.build.errors /\ request.bundle.build.malformed = 0
  /\ f.tests = "complete" =>
       LET n == NormalizeTestNodes(request.bundle.tests.nodes)
       IN f.occurrences = n.occurrences /\ n.unnameable = 0 /\ n.missing = 0

\* What is published without a mark was read in time, of a bundle that was
\* there, with the toolchain that wrote it.
Marked(f) == f.cancelled \/ f.defect.reason # "none"

InterpretationInv ==
  /\ request \in Request /\ {signal, late} \subseteq BOOLEAN
  /\ pc \in Command \cup {"start", "published"} /\ again \in 0 .. READ_ATTEMPTS
  /\ Sound(found)
  /\ pc \in Command => request.present /\ request.toolchain
  /\ pc # "published" => report = NoReport
  /\ pc = "published" =>
       \E f : /\ Sound(f) /\ report = Report(f)
              /\ Marked(f) \/ (~late /\ request.present /\ request.toolchain)

\* Nothing is a sequence.
LEMMA EmptyIsSequence == IsSequence(<<>>)
BY DEF IsSequence, ToSet

\* Every step of the reading keeps what is gathered sound.
LEMMA DefectIsSound ==
  ASSUME NEW f, Sound(f), NEW reason \in DOMAIN DEFECT_RANK \ {"none"}, NEW subject
  PROVE  Sound(SetDefect(f, reason, subject)) /\ SetDefect(f, reason, subject).defect.reason # "none"
<1>1. CASE DEFECT_RANK[reason] < DEFECT_RANK[f.defect.reason]
  <2>1. PICK g : g = [f EXCEPT !.defect = [reason |-> reason, subject |-> subject]]
    OBVIOUS
  <2>2. g = SetDefect(f, reason, subject)
    BY <1>1, <2>1 DEF SetDefect
  <2>3. /\ g.build = f.build /\ g.tests = f.tests /\ g.reached = f.reached /\ g.cancelled = f.cancelled
        /\ g.errors = f.errors /\ g.occurrences = f.occurrences /\ g.supplemental = f.supplemental
        /\ g.defect.reason = reason
        /\ DOMAIN g = DOMAIN f
    BY <2>1 DEF Sound, NothingFound
  <2>4. QED
    BY <2>2, <2>3 DEF Sound
<1>2. CASE ~(DEFECT_RANK[reason] < DEFECT_RANK[f.defect.reason])
  <2>1. SetDefect(f, reason, subject) = f
    BY <1>2 DEF SetDefect
  <2>2. f.defect.reason # "none"
    BY <1>2 DEF DEFECT_RANK
  <2>3. QED
    BY <2>1, <2>2
<1>3. QED
  BY <1>1, <1>2

\* What can go wrong has a rank.
LEMMA Reasons ==
  /\ {"interpretationTimedOut", "resultBundleMissing", "unsupportedResultSchema", "contradictoryEvidence",
      "resultBundleIncomplete"} \subseteq DOMAIN DEFECT_RANK \ {"none"}
  /\ \A x : MapFailure(x) \in DOMAIN DEFECT_RANK \ {"none"} /\ MapDecode(x) \in DOMAIN DEFECT_RANK \ {"none"}
BY DEF DEFECT_RANK, MapFailure, MapDecode

\* Whether testing was reached is noted.
LEMMA ReachedIsSound ==
  ASSUME NEW f, Sound(f), NEW reached \in {"yes", "no", "unknown"}
  PROVE  Sound([f EXCEPT !.reached = reached])
<1>1. PICK g : g = [f EXCEPT !.reached = reached]
  OBVIOUS
<1>2. /\ g.build = f.build /\ g.tests = f.tests /\ g.reached = reached /\ g.cancelled = f.cancelled
      /\ g.errors = f.errors /\ g.occurrences = f.occurrences /\ g.supplemental = f.supplemental
        /\ g.defect = f.defect
      /\ DOMAIN g = DOMAIN f
  BY <1>1 DEF Sound, NothingFound
<1>3. QED
  BY <1>1, <1>2 DEF Sound

\* A mark is set.
LEMMA FlagsAreSound ==
  ASSUME NEW f, Sound(f)
  PROVE  /\ Sound([f EXCEPT !.degraded = TRUE])
         /\ Sound([f EXCEPT !.cancelled = TRUE]) /\ [f EXCEPT !.cancelled = TRUE].cancelled
<1>1. PICK h : h = [f EXCEPT !.degraded = TRUE]
  OBVIOUS
<1>2. Sound(h)
  <2>1. /\ h.build = f.build /\ h.tests = f.tests /\ h.reached = f.reached /\ h.cancelled = f.cancelled
        /\ h.errors = f.errors /\ h.occurrences = f.occurrences /\ h.supplemental = f.supplemental
        /\ h.defect = f.defect
        /\ DOMAIN h = DOMAIN f
    BY <1>1 DEF Sound, NothingFound
  <2>2. QED
    BY <2>1 DEF Sound
<1>3. PICK k : k = [f EXCEPT !.cancelled = TRUE]
  OBVIOUS
<1>4. Sound(k) /\ k.cancelled
  <2>1. /\ k.build = f.build /\ k.tests = f.tests /\ k.reached = f.reached /\ k.cancelled = TRUE
        /\ k.errors = f.errors /\ k.occurrences = f.occurrences /\ k.supplemental = f.supplemental
        /\ k.defect = f.defect
        /\ DOMAIN k = DOMAIN f
    BY <1>3 DEF Sound, NothingFound
  <2>2. QED
    BY <2>1 DEF Sound
<1>5. QED
  BY <1>1, <1>2, <1>3, <1>4

\* The build results are read.
LEMMA BuildIsSound ==
  ASSUME request \in Request, NEW f, Sound(f)
  PROVE  Sound(BuildRead(f))
<1>1. PICK b : b = request.bundle.build
  OBVIOUS
<1>2. CASE b.decodes # "ok"
  BY <1>1, <1>2, DefectIsSound, Reasons DEF BuildRead
<1>3. CASE b.decodes = "ok"
  <2>1. PICK whole \in {"complete", "partial"} :
          whole = IF b.malformed = 0 /\ b.declared \in {Unstated, Len(b.errors)} THEN "complete" ELSE "partial"
    OBVIOUS
  <2>2. PICK g : g = [f EXCEPT !.errors = b.errors, !.build = whole]
    OBVIOUS
  <2>3. g = BuildRead(f)
    BY <1>1, <1>3, <2>1, <2>2 DEF BuildRead
  <2>4. /\ g.build = whole /\ g.tests = f.tests /\ g.reached = f.reached /\ g.cancelled = f.cancelled
        /\ g.errors = b.errors /\ g.occurrences = f.occurrences /\ g.supplemental = f.supplemental
        /\ g.defect = f.defect
        /\ DOMAIN g = DOMAIN f
    BY <2>2 DEF Sound, NothingFound
  <2>5. IsSequence(b.errors)
    BY <1>1, RequestAssumption
  <2>6. whole = "complete" => b.malformed = 0
    BY <2>1
  <2>7. QED
    BY <1>1, <2>1, <2>3, <2>4, <2>5, <2>6 DEF Sound, Completeness
<1>4. QED
  BY <1>2, <1>3

\* The tests are read.
LEMMA TestsAreSound ==
  ASSUME request \in Request, NEW f, Sound(f)
  PROVE  Sound(TestsRead(f))
<1>1. PICK t : t = request.bundle.tests
  OBVIOUS
<1>2. PICK n : n = NormalizeTestNodes(t.nodes)
  OBVIOUS
<1>3. /\ IsSequence(n.occurrences) /\ Countable(n.occurrences)
      /\ n.unnameable \in Nat /\ n.missing \in Nat /\ n.unrecognized \in Nat
  <2>1. IsSequence(t.nodes) /\ \A e \in ToSet(t.nodes) : IsSequence(e.attempts) /\ IsSequence(e.failures)
    BY <1>1, RequestAssumption
  <2>2. /\ IsSequence(n.occurrences) /\ n.unnameable \in Nat /\ n.missing \in Nat /\ n.unrecognized \in Nat
        /\ ToSet(n.occurrences) = {CollectOccurrence(e) : e \in Named(t.nodes)}
    BY <1>2, <2>1, NormalizedTests
  <2>3. ASSUME NEW e \in Named(t.nodes)
        PROVE  CollectOccurrence(e).attempts \in Nat /\ IsSequence(CollectOccurrence(e).failures)
    <3>1. CollectOccurrence(e).attempts = Len(e.attempts) /\ CollectOccurrence(e).failures = e.failures
      BY DEF CollectOccurrence
    <3>2. IsSequence(e.attempts) /\ IsSequence(e.failures)
      BY <2>1 DEF Named
    <3>3. Len(e.attempts) \in Nat
      BY <3>2 DEF IsSequence
    <3>4. QED
      BY <3>1, <3>2, <3>3
  <2>4. QED
    BY <2>2, <2>3 DEF Countable
<1>4. ASSUME NEW g, NEW whole \in {"partial", "complete"},
             whole = "complete" => n.unnameable = 0 /\ n.missing = 0,
             g = [f EXCEPT !.occurrences = n.occurrences, !.unnameable = n.unnameable, !.tests = whole]
      PROVE  Sound(g)
  <2>1. /\ g.build = f.build /\ g.tests = whole /\ g.reached = f.reached /\ g.cancelled = f.cancelled
        /\ g.errors = f.errors /\ g.occurrences = n.occurrences /\ g.supplemental = f.supplemental
        /\ g.defect = f.defect
        /\ DOMAIN g = DOMAIN f
    BY <1>4 DEF Sound, NothingFound
  <2>2. QED
    BY <1>1, <1>2, <1>3, <1>4, <2>1 DEF Sound, Completeness
<1>5. PICK g : g = [f EXCEPT !.occurrences = n.occurrences, !.unnameable = n.unnameable, !.tests = "partial"]
  OBVIOUS
<1>6. TestsRead(f) = CASE t.decodes # "ok" -> SetDefect(f, MapDecode(t.decodes), "bundle")
       [] t.decodes = "ok" /\ n.unrecognized > 0 -> SetDefect(g, "unsupportedResultSchema", "tests")
       [] t.decodes = "ok" /\ n.unrecognized = 0 /\ n.unnameable + n.missing > 0
         -> SetDefect(g, "resultBundleIncomplete", "tests")
       [] OTHER -> [g EXCEPT !.tests = "complete"]
  BY <1>1, <1>2, <1>5 DEF TestsRead
<1>7. Sound(g)
  BY <1>4, <1>5
<1>8. CASE t.decodes # "ok"
  BY <1>6, <1>8, DefectIsSound, Reasons
<1>9. CASE t.decodes = "ok" /\ n.unrecognized > 0
  BY <1>6, <1>7, <1>9, DefectIsSound, Reasons
<1>10. CASE t.decodes = "ok" /\ n.unrecognized = 0 /\ n.unnameable + n.missing > 0
  BY <1>6, <1>7, <1>10, DefectIsSound, Reasons
<1>11. CASE t.decodes = "ok" /\ n.unrecognized = 0 /\ n.unnameable = 0 /\ n.missing = 0
  <2>1. TestsRead(f) = [g EXCEPT !.tests = "complete"]
    BY <1>3, <1>6, <1>11
  <2>2. TestsRead(f) = [f EXCEPT !.occurrences = n.occurrences, !.unnameable = n.unnameable, !.tests = "complete"]
    BY <1>5, <2>1 DEF Sound, NothingFound
  <2>3. QED
    BY <1>4, <1>11, <2>2
<1>12. QED
  BY <1>3, <1>8, <1>9, <1>10, <1>11

\* The summary is read.
LEMMA SummaryIsSound ==
  ASSUME request \in Request, NEW f, Sound(f)
  PROVE  Sound(SummaryRead(f))
<1>1. PICK s : s = request.bundle.summary
  OBVIOUS
<1>2. PICK g : g = [f EXCEPT !.supplemental = s.failures, !.degraded = @ \/ s.degraded]
  OBVIOUS
<1>3. Sound(g)
  <2>1. /\ g.build = f.build /\ g.tests = f.tests /\ g.reached = f.reached /\ g.cancelled = f.cancelled
        /\ g.errors = f.errors /\ g.occurrences = f.occurrences /\ g.supplemental = s.failures
        /\ g.defect = f.defect
        /\ DOMAIN g = DOMAIN f
    BY <1>2 DEF Sound, NothingFound
  <2>2. IsSequence(s.failures)
    BY <1>1, RequestAssumption
  <2>3. QED
    BY <2>1, <2>2 DEF Sound
<1>4. \/ SummaryRead(f) = [f EXCEPT !.degraded = TRUE]
      \/ SummaryRead(f) = SetDefect(g, "contradictoryEvidence", "bundle")
      \/ SummaryRead(f) = g
  <2>1. SummaryRead(f) = CASE s.decodes # "ok" -> [f EXCEPT !.degraded = TRUE]
          [] s.decodes = "ok" /\ Contradicts(s, f) -> SetDefect(g, "contradictoryEvidence", "bundle")
          [] OTHER -> g
    BY <1>1, <1>2, Zenon DEF SummaryRead
  <2>2. QED
    BY <2>1
<1>5. Sound([f EXCEPT !.degraded = TRUE])
  BY FlagsAreSound
<1>6. Sound(SetDefect(g, "contradictoryEvidence", "bundle"))
  BY <1>3, DefectIsSound, Reasons
<1>7. QED
  BY <1>3, <1>4, <1>5, <1>6, Zenon

\* Of one request, the same is reported whatever else changes.
LEMMA SameRequest ==
  ASSUME NEW f, request' = request
  PROVE  Report(f)' = Report(f) /\ Sound(f)' = Sound(f)
<1>1. \A verdict : Rules(f, verdict)' = Rules(f, verdict)
  BY DEF Rules
<1>2. \A verdict : Classify(f, verdict)' = Classify(f, verdict)
  BY <1>1 DEF Classify
<1>3. Report(f)' = Report(f)
  BY <1>2 DEF Report
<1>4. Sound(f)' = Sound(f)
  BY DEF Sound
<1>5. QED
  BY <1>3, <1>4

-----------------------------------------------------------------------------
(* The steps keep the invariant, one lemma for each. *)

\* Before anything is read nothing is said.
LEMMA NothingIsSound == Sound(NothingFound)
<1>1. NothingFound.defect.reason \in DOMAIN DEFECT_RANK
  BY DEF NothingFound, NoDefect, DEFECT_RANK
<1>2. QED
  BY <1>1, EmptyIsSequence DEF Sound, NothingFound, Completeness, Countable, ToSet

\* To publish what is sound, marked where it was late, or to go on with it.
LEMMA PublishKeeps ==
  ASSUME InterpretationInv, NEW f, Sound(f), Publish(f), late' \in BOOLEAN,
         Marked(f) \/ (~late' /\ request.present /\ request.toolchain)
  PROVE  InterpretationInv'
<1>1. request' = request /\ signal' = signal /\ pc' = "published" /\ found' = NothingFound
      /\ report' = Report(f) /\ again' = 0
  BY DEF Publish
<1>2. Sound(f)' /\ report' = Report(f)' /\ Sound(found)'
  <2>1. Report(f)' = Report(f) /\ Sound(f)' = Sound(f) /\ Sound(NothingFound)' = Sound(NothingFound)
    BY <1>1, SameRequest
  <2>2. Sound(found)' = Sound(NothingFound)'
    BY <1>1 DEF Sound
  <2>3. QED
    BY <1>1, <2>1, <2>2, NothingIsSound
<1>3. Marked(f)' \/ (~late' /\ request'.present /\ request'.toolchain)
  BY <1>1 DEF Marked
<1>4. "published" \notin Command /\ 0 \in 0 .. READ_ATTEMPTS
  BY DEF Command, READ_ATTEMPTS
<1>5. (\E g : Sound(g) /\ report = Report(g) /\ (Marked(g) \/ (~late /\ request.present /\ request.toolchain)))'
  BY <1>2, <1>3
<1>6. QED
  BY <1>1, <1>2, <1>4, <1>5 DEF InterpretationInv

\* The next command is begun, or what is gathered published.
LEMMA ProceedKeeps ==
  ASSUME InterpretationInv, NEW f, Sound(f), pc # "published", NEW command \in Command, Proceed(f, command),
         late' \in BOOLEAN, request.present, request.toolchain
  PROVE  InterpretationInv'
<1>1. CASE signal
  <2>1. PICK g : g = [f EXCEPT !.cancelled = TRUE]
    OBVIOUS
  <2>2. Sound(g) /\ Marked(g)
    BY <2>1, FlagsAreSound DEF Marked
  <2>3. Publish(g)
    BY <1>1, <2>1 DEF Proceed
  <2>4. QED
    BY <2>2, <2>3, PublishKeeps
<1>2. CASE ~signal /\ late'
  <2>1. PICK g : g = TimedOut(f)
    OBVIOUS
  <2>2. Sound(g) /\ Marked(g)
    BY <2>1, DefectIsSound, Reasons DEF Marked, TimedOut
  <2>3. Publish(g)
    BY <1>2, <2>1 DEF Proceed
  <2>4. QED
    BY <2>2, <2>3, PublishKeeps
<1>3. CASE ~signal /\ ~late'
  <2>1. pc' = command /\ found' = f /\ again' = 0 /\ UNCHANGED <<request, signal, report>>
    BY <1>3 DEF Proceed
  <2>2. Sound(found)'
    <3>1. Sound(f)' = Sound(f)
      BY <2>1, SameRequest
    <3>2. Sound(found)' = Sound(f)'
      BY <2>1 DEF Sound
    <3>3. QED
      BY <3>1, <3>2
  <2>3. command # "published" /\ 0 \in 0 .. READ_ATTEMPTS
    BY DEF Command, READ_ATTEMPTS
  <2>4. QED
    BY <2>1, <2>2, <2>3 DEF InterpretationInv
<1>4. QED
  BY <1>1, <1>2, <1>3 DEF InterpretationInv

\* A defect found ends the reading.
LEMMA DefectKeeps ==
  ASSUME InterpretationInv, late' \in BOOLEAN, NEW reason \in DOMAIN DEFECT_RANK \ {"none"}, NEW subject,
         Publish(SetDefect(found, reason, subject))
  PROVE  InterpretationInv'
<1>1. PICK g : g = SetDefect(found, reason, subject)
  OBVIOUS
<1>2. Sound(g) /\ Marked(g)
  BY <1>1, DefectIsSound DEF Marked, InterpretationInv
<1>3. Publish(g)
  BY <1>1
<1>4. QED
  BY <1>2, <1>3, PublishKeeps

\* The first command is begun.
LEMMA BeginKeeps ==
  ASSUME InterpretationInv, Begin
  PROVE  InterpretationInv'
<1>1. late' = late /\ late' \in BOOLEAN /\ pc = "start" /\ Sound(found)
  BY DEF Begin, InterpretationInv
<1>2. CASE ~signal /\ ~request.toolchain
  <2>1. Publish(SetDefect(found, "unsupportedResultSchema", "bundle"))
    BY <1>2 DEF Begin
  <2>2. QED
    BY <1>1, <2>1, DefectKeeps, Reasons
<1>3. CASE ~signal /\ request.toolchain /\ ~request.present
  <2>1. Publish(SetDefect(found, "resultBundleMissing", "bundle"))
    BY <1>3 DEF Begin
  <2>2. QED
    BY <1>1, <2>1, DefectKeeps, Reasons
<1>4. CASE signal
  <2>1. PICK g : g = [found EXCEPT !.cancelled = TRUE]
    OBVIOUS
  <2>2. Sound(g) /\ Marked(g)
    BY <1>1, <2>1, FlagsAreSound DEF Marked
  <2>3. Publish(g)
    BY <1>4, <2>1 DEF Begin, Proceed
  <2>4. QED
    BY <1>1, <2>2, <2>3, PublishKeeps
<1>5. CASE ~signal /\ request.toolchain /\ request.present
  <2>1. Proceed(found, "metadata") /\ "metadata" \in Command
    BY <1>5 DEF Begin, Command
  <2>2. QED
    BY <1>1, <1>5, <2>1, ProceedKeeps
<1>6. QED
  BY <1>2, <1>3, <1>4, <1>5

\* After the build results.
LEMMA AfterBuildKeeps ==
  ASSUME InterpretationInv, late' \in BOOLEAN, pc = "build", NEW f, Sound(f), AfterBuild(f)
  PROVE  InterpretationInv'
<1>1. PICK reached \in {"yes", "no", "unknown"} : reached = TestingReached(f)
  BY DEF TestingReached
<1>2. PICK g : g = [f EXCEPT !.reached = reached]
  OBVIOUS
<1>3. Sound(g)
  BY <1>2, ReachedIsSound
<1>4. PICK command \in Command : command = IF request.bundle.hasTests THEN "tests" ELSE "summary"
  BY DEF Command
<1>5. Proceed(g, command)
  BY <1>1, <1>2, <1>4 DEF AfterBuild
<1>6. pc # "published" /\ request.present /\ request.toolchain
  BY DEF InterpretationInv, Command
<1>7. QED
  BY <1>3, <1>5, <1>6, ProceedKeeps

\* After the summary.
LEMMA AfterSummaryKeeps ==
  ASSUME InterpretationInv, late' \in BOOLEAN, pc = "summary", NEW f, Sound(f), AfterSummary(f)
  PROVE  InterpretationInv'
<1>1. request.present /\ request.toolchain
  BY DEF InterpretationInv, Command
<1>2. PICK g : g = IF late' THEN TimedOut(f) ELSE f
  OBVIOUS
<1>3. Publish(g)
  BY <1>2 DEF AfterSummary
<1>4. Sound(g) /\ (Marked(g) \/ ~late')
  <2>1. CASE late'
    BY <1>2, <2>1, DefectIsSound, Reasons DEF Marked, TimedOut
  <2>2. CASE ~late'
    BY <1>2, <2>2
  <2>3. QED
    BY <2>1, <2>2
<1>5. QED
  BY <1>1, <1>3, <1>4, PublishKeeps

\* A command succeeded.
LEMMA AnsweredKeeps ==
  ASSUME InterpretationInv, Answered
  PROVE  InterpretationInv'
<1>1. late' = late /\ late' \in BOOLEAN /\ Sound(found) /\ request \in Request
  BY DEF Answered, InterpretationInv
<1>2. pc \in Command => pc # "published" /\ request.present /\ request.toolchain
  BY DEF InterpretationInv, Command
<1>3. Command = {"metadata", "availability", "build", "tests", "summary"}
  BY DEF Command
<1>4. CASE pc = "metadata" /\ Proceed(found, "availability")
  BY <1>1, <1>2, <1>3, <1>4, ProceedKeeps
<1>5. CASE pc = "availability" /\ request.bundle.available
  <2>1. Proceed(found, "build")
    BY <1>5 DEF Answered
  <2>2. QED
    BY <1>1, <1>2, <1>3, <1>5, <2>1, ProceedKeeps
<1>6. CASE pc = "availability" /\ ~request.bundle.available
  <2>1. Publish(SetDefect(found, "unsupportedResultSchema", "bundle"))
    BY <1>6 DEF Answered
  <2>2. QED
    BY <1>1, <2>1, DefectKeeps, Reasons
<1>7. CASE pc = "build" /\ AfterBuild(BuildRead(found))
  <2>1. PICK g : g = BuildRead(found)
    OBVIOUS
  <2>2. Sound(g) /\ AfterBuild(g)
    BY <1>1, <1>7, <2>1, BuildIsSound
  <2>3. QED
    BY <1>1, <1>7, <2>2, AfterBuildKeeps
<1>8. CASE pc = "tests" /\ Proceed(TestsRead(found), "summary")
  <2>1. PICK g : g = TestsRead(found)
    OBVIOUS
  <2>2. Sound(g) /\ Proceed(g, "summary")
    BY <1>1, <1>8, <2>1, TestsAreSound
  <2>3. QED
    BY <1>1, <1>2, <1>3, <1>8, <2>2, ProceedKeeps
<1>9. CASE pc = "summary" /\ AfterSummary(SummaryRead(found))
  <2>1. PICK g : g = SummaryRead(found)
    OBVIOUS
  <2>2. Sound(g) /\ AfterSummary(g)
    BY <1>1, <1>9, <2>1, SummaryIsSound
  <2>3. QED
    BY <1>1, <1>9, <2>2, AfterSummaryKeeps
<1>10. QED
  BY <1>4, <1>5, <1>6, <1>7, <1>8, <1>9 DEF Answered

\* A command failed.
LEMMA FailedKeeps ==
  ASSUME InterpretationInv, NEW failure, Failed(failure)
  PROVE  InterpretationInv'
<1>1. late' \in BOOLEAN /\ Sound(found) /\ request \in Request
  BY DEF Failed, InterpretationInv
<1>2. pc \in Command => pc # "published" /\ request.present /\ request.toolchain
  BY DEF InterpretationInv, Command
<1>3. Command = {"metadata", "availability", "build", "tests", "summary"}
  BY DEF Command
<1>4. MapFailure(failure) \in DOMAIN DEFECT_RANK \ {"none"}
  BY Reasons
<1>5. CASE Publish(SetDefect(found, MapFailure(failure), "bundle"))
  BY <1>1, <1>4, <1>5, DefectKeeps
<1>6. CASE pc = "build" /\ AfterBuild(SetDefect(found, MapFailure(failure), "build"))
  <2>1. PICK g : g = SetDefect(found, MapFailure(failure), "build")
    OBVIOUS
  <2>2. Sound(g) /\ AfterBuild(g)
    BY <1>1, <1>4, <1>6, <2>1, DefectIsSound
  <2>3. QED
    BY <1>1, <1>6, <2>2, AfterBuildKeeps
<1>7. CASE pc = "tests" /\ Proceed(SetDefect(found, "resultBundleIncomplete", "tests"), "summary")
  <2>1. PICK g : g = SetDefect(found, "resultBundleIncomplete", "tests")
    OBVIOUS
  <2>2. Sound(g) /\ Proceed(g, "summary")
    BY <1>1, <1>7, <2>1, DefectIsSound, Reasons
  <2>3. QED
    BY <1>1, <1>2, <1>3, <1>7, <2>2, ProceedKeeps
<1>8. CASE pc = "summary" /\ AfterSummary([found EXCEPT !.degraded = TRUE])
  <2>1. PICK g : g = [found EXCEPT !.degraded = TRUE]
    OBVIOUS
  <2>2. Sound(g) /\ AfterSummary(g)
    BY <1>1, <1>8, <2>1, FlagsAreSound
  <2>3. QED
    BY <1>1, <1>8, <2>2, AfterSummaryKeeps
<1>9. QED
  BY <1>5, <1>6, <1>7, <1>8 DEF Failed

\* The steps that read nothing.
LEMMA WaitingKeeps ==
  ASSUME InterpretationInv, ReadAgain \/ Cancel \/ DeadlinePasses \/ UNCHANGED interpreting
  PROVE  InterpretationInv'
<1>1. request' = request /\ found' = found /\ report' = report /\ pc' = pc /\ {signal', late'} \subseteq BOOLEAN
      /\ again' \in 0 .. READ_ATTEMPTS /\ (pc = "published" => late' = late)
  <2>1. again \in 0 .. 2 /\ signal \in BOOLEAN /\ late \in BOOLEAN
    BY DEF InterpretationInv, READ_ATTEMPTS
  <2>2. CASE ReadAgain
    BY <2>1, <2>2 DEF ReadAgain, READ_ATTEMPTS
  <2>3. CASE Cancel
    BY <2>1, <2>3 DEF Cancel, READ_ATTEMPTS
  <2>4. CASE DeadlinePasses
    BY <2>1, <2>4 DEF DeadlinePasses, READ_ATTEMPTS
  <2>5. CASE UNCHANGED interpreting
    BY <2>1, <2>5 DEF interpreting, READ_ATTEMPTS
  <2>6. QED
    BY <2>2, <2>3, <2>4, <2>5
<1>2. Sound(found)' = Sound(found)
  BY <1>1 DEF Sound
<1>3. ASSUME pc = "published"
      PROVE  (\E g : Sound(g) /\ report = Report(g) /\ (Marked(g) \/ (~late /\ request.present /\ request.toolchain)))'
  <2>1. PICK f : Sound(f) /\ report = Report(f) /\ (Marked(f) \/ (~late /\ request.present /\ request.toolchain))
    BY <1>3 DEF InterpretationInv
  <2>2. Sound(f)' /\ report' = Report(f)'
    BY <1>1, <2>1, SameRequest
  <2>3. Marked(f)' \/ (~late' /\ request'.present /\ request'.toolchain)
    BY <1>1, <1>3, <2>1 DEF Marked
  <2>4. QED
    BY <2>2, <2>3
<1>4. QED
  BY <1>1, <1>2, <1>3 DEF InterpretationInv

\* The invariant holds at the start, and after every step.
LEMMA InterpretationStarts ==
  ASSUME InitInterpretation
  PROVE  InterpretationInv
<1>1. /\ request \in Request /\ signal = FALSE /\ late = FALSE
      /\ pc = "start" /\ again = 0 /\ found = NothingFound /\ report = NoReport
  BY DEF InitInterpretation
<1>2. Sound(found)
  BY <1>1, NothingIsSound
<1>3. "start" \notin Command /\ 0 \in 0 .. READ_ATTEMPTS
  BY DEF READ_ATTEMPTS, Command
<1>4. QED
  BY <1>1, <1>2, <1>3 DEF InterpretationInv

\* Every step keeps it.
LEMMA InterpretationKeeps ==
  ASSUME InterpretationInv, [Interpret]_interpreting
  PROVE  InterpretationInv'
BY BeginKeeps, AnsweredKeeps, FailedKeeps, WaitingKeeps DEF Interpret

\* What is gathered is what was read, and what is published without a mark was
\* read in time (interpret.ts gather, each catch and each check of the deadline
\* or of the signal).
THEOREM InterpretationInvariant == InterpretationSpec => []InterpretationInv
<1>1. InitInterpretation => InterpretationInv
  BY InterpretationStarts
<1>2. InterpretationInv /\ [Interpret]_interpreting => InterpretationInv'
  BY InterpretationKeeps
<1>3. QED
  BY <1>1, <1>2, PTL DEF InterpretationSpec

-----------------------------------------------------------------------------
(* What a report says is true. *)

\* What the report of a run takes from what was gathered.
LEMMA ReportOf ==
  ASSUME NEW f
  PROVE  \E a : /\ a = AttestScope(request.scope, f.occurrences, f.reached, f.unnameable)
                /\ Report(f).verdict = Classify(f, a.verdict)
                /\ Report(f).index.occurrences = f.occurrences /\ Report(f).index.buildErrors = f.errors
                /\ Report(f).index.build = f.build /\ Report(f).index.tests = f.tests
                /\ Report(f).index.diagnostics \in Completeness
BY DEF Report, Index, Completeness

\* The tests of the hierarchy, once it was read whole.
LEMMA WholeTests ==
  ASSUME request \in Request, NEW f, Sound(f), f.tests = "complete"
  PROVE  /\ \A t \in ToSet(ran) : t.bundle # NoName /\ t.result # NoName /\ IsSequence(t.attempts)
         /\ ToSet(f.occurrences) = {CollectOccurrence(t) : t \in ToSet(ran)}
         /\ Len(f.occurrences) = Len(ran)
         /\ f.occurrences # <<>> => ran # <<>>
<1>1. PICK nodes : nodes = request.bundle.tests.nodes
  OBVIOUS
<1>2. IsSequence(nodes) /\ \A t \in ToSet(nodes) : IsSequence(t.attempts)
  BY <1>1, RequestAssumption
<1>3. PICK n : n = NormalizeTestNodes(nodes)
  OBVIOUS
<1>4. f.occurrences = n.occurrences /\ n.unnameable = 0 /\ n.missing = 0
  BY <1>1, <1>3 DEF Sound
<1>5. /\ Len(f.occurrences) = Len(Keeping(nodes, Named(nodes)))
      /\ ToSet(f.occurrences) = {CollectOccurrence(t) : t \in Named(nodes)}
      /\ Tested(nodes) = Named(nodes) /\ \A t \in Named(nodes) : t.result # NoName
  BY <1>2, <1>3, <1>4, NormalizedTests
<1>6. ran = Keeping(nodes, Named(nodes))
  BY <1>1, <1>5 DEF ran, Tested
<1>7. ToSet(ran) = Named(nodes)
  <2>1. ToSet(nodes) \cap Named(nodes) = Named(nodes)
    BY DEF Named
  <2>2. QED
    BY <1>2, <1>6, <2>1, KeepingKeeps
<1>8. \A t \in ToSet(ran) : t \in ToSet(nodes) /\ t.bundle # NoName
  BY <1>7 DEF Named
<1>9. f.occurrences # <<>> => ran # <<>>
  <2>1. SUFFICES ASSUME ran = <<>> PROVE f.occurrences = <<>>
    OBVIOUS
  <2>2. Len(f.occurrences) = 0
    BY <1>5, <1>6, <2>1
  <2>3. f.occurrences \in Seq(ToSet(f.occurrences))
    BY DEF Sound, IsSequence
  <2>4. QED
    BY <2>2, <2>3
<1>10. QED
  BY <1>2, <1>5, <1>6, <1>7, <1>8, <1>9

\* Passed is the twelfth rule, and none before it applied.
LEMMA PassIsWarranted ==
  ASSUME InterpretationInv, pc = "published", report.verdict.outcome = "passed"
  PROVE  /\ request.exit = "yes" /\ request.present /\ request.toolchain /\ ~late
         /\ request.trigger \notin {"callerCancellation", "processDeadline"}
         /\ request.bundle.build.errors = <<>> /\ request.bundle.build.malformed = 0
         /\ ran # <<>>
         /\ \A t \in ToSet(ran) :
              /\ t.bundle # NoName /\ ~FailedTest(t) /\ t.result # NoName
              /\ {t.id, t.url} # {[suite |-> NoName, test |-> NoName]}
         /\ request.scope.kind = "selected" =>
              LET selects(s, t) == SelectionMatches(s, [identity |-> DeriveIdentity(t).identity])
              IN /\ \A s \in request.scope.tests : \E t \in ToSet(ran) : selects(s, t)
                 /\ \A t \in ToSet(ran) : \E s \in request.scope.tests : selects(s, t)
<1>1. PICK f : /\ Sound(f) /\ report = Report(f)
               /\ Marked(f) \/ (~late /\ request.present /\ request.toolchain)
  BY DEF InterpretationInv
<1>2. PICK a : /\ a = AttestScope(request.scope, f.occurrences, f.reached, f.unnameable)
               /\ report.verdict = Classify(f, a.verdict)
  BY <1>1, ReportOf
<1>3. request \in Request /\ IsSequence(f.errors) /\ IsSequence(f.occurrences) /\ f.cancelled \in BOOLEAN
  BY <1>1 DEF InterpretationInv, Sound
<1>4. /\ request.trigger # "callerCancellation" /\ request.trigger # "processDeadline"
      /\ ~f.cancelled /\ f.defect = NoDefect /\ ~(TrustworthyFailures(f) > 0)
      /\ request.exit = "yes" /\ f.build = "complete" /\ f.tests = "complete"
      /\ f.errors = <<>> /\ f.occurrences # <<>> /\ a.verdict = "matched"
  BY <1>2, <1>3, OutcomesRest
<1>5. ~late /\ request.present /\ request.toolchain
  BY <1>1, <1>4 DEF Marked, NoDefect
<1>6. request.bundle.build.errors = <<>> /\ request.bundle.build.malformed = 0
  BY <1>1, <1>4 DEF Sound
<1>7. /\ \A t \in ToSet(ran) : t.bundle # NoName /\ t.result # NoName /\ IsSequence(t.attempts)
      /\ ToSet(f.occurrences) = {CollectOccurrence(t) : t \in ToSet(ran)}
      /\ ran # <<>>
  BY <1>1, <1>3, <1>4, WholeTests
<1>8. \A t \in ToSet(ran) : ~FailedTest(t)
  <2>1. CountOccurrences(f.occurrences, "failed") \in Nat
    BY <1>3, CountIsNat
  <2>2. CountOccurrences(f.occurrences, "failed") = 0
    BY <1>4, <2>1 DEF TrustworthyFailures
  <2>3. \A o \in ToSet(f.occurrences) : o.status # "failed"
    BY <1>3, <2>2, CountIsNat
  <2>4. QED
    BY <1>7, <2>3, FailureIsFailure
<1>9. /\ \A o \in ToSet(f.occurrences) : o.complete
      /\ request.scope.kind = "selected" =>
           /\ \A s \in request.scope.tests : \E o \in ToSet(f.occurrences) : SelectionMatches(s, o)
           /\ \A o \in ToSet(f.occurrences) : \E s \in request.scope.tests : SelectionMatches(s, o)
  BY <1>2, <1>3, <1>4, ScopeAttested, RequestAssumption
<1>10. \A t \in ToSet(ran) : {t.id, t.url} # {[suite |-> NoName, test |-> NoName]}
  <2>1. SUFFICES ASSUME NEW t \in ToSet(ran), {t.id, t.url} = {[suite |-> NoName, test |-> NoName]}
        PROVE  FALSE
    OBVIOUS
  <2>2. t.id.test = NoName /\ t.url.test = NoName
    BY <2>1
  <2>3. CollectOccurrence(t).complete
    BY <1>7, <1>9, <2>1
  <2>4. CollectOccurrence(t).complete = DeriveIdentity(t).complete
    BY DEF CollectOccurrence
  <2>5. QED
    BY <2>2, <2>3, <2>4 DEF DeriveIdentity
<1>11. \A t, s : SelectionMatches(s, CollectOccurrence(t))
                   <=> SelectionMatches(s, [identity |-> DeriveIdentity(t).identity])
  BY DEF SelectionMatches, CollectOccurrence
<1>12. QED
  BY <1>4, <1>5, <1>6, <1>7, <1>8, <1>9, <1>10, <1>11

\* A run is reported passed only when it did, for every bundle, request and
\* timing (classify.ts classify, attestation.ts, interpret.ts).
THEOREM PassesAreEarned == InterpretationSpec => []PassIsEarned
<1>1. InterpretationInv => PassIsEarned
  BY PassIsWarranted DEF PassIsEarned, published, outcome
<1>2. QED
  BY <1>1, InterpretationInvariant, PTL

\* A failure reported is one of the bundle's, and what it names failed.
LEMMA NamedFailures ==
  ASSUME InterpretationInv, pc = "published"
  PROVE  FailureIsNamed
<1>1. PICK f : Sound(f) /\ report = Report(f)
  BY DEF InterpretationInv
<1>2. PICK a : /\ report.verdict = Classify(f, a.verdict)
               /\ report.index.occurrences = f.occurrences /\ report.index.buildErrors = f.errors
  BY <1>1, ReportOf
<1>3. request \in Request /\ IsSequence(f.errors) /\ IsSequence(f.occurrences) /\ f.cancelled \in BOOLEAN
  BY <1>1 DEF InterpretationInv, Sound
<1>4. PICK errors, failed : errors = TrustworthyBuildErrors(f) /\ failed = TrustworthyFailures(f)
  OBVIOUS
<1>5. errors \in Nat /\ failed \in Nat
  <2>1. f.errors \in Seq(ToSet(f.errors))
    BY <1>3 DEF IsSequence
  <2>2. Len(f.errors) \in Nat
    BY <2>1
  <2>3. CountOccurrences(f.occurrences, "failed") \in Nat
    BY <1>3, CountIsNat
  <2>4. QED
    BY <1>4, <2>2, <2>3 DEF TrustworthyBuildErrors, TrustworthyFailures
<1>6. /\ outcome \in {"testFailed", "buildFailed"} => ~(request.exit = "yes" /\ errors + failed > 0)
      /\ outcome = "buildFailed" => errors > 0
      /\ outcome = "testFailed" => ~(errors > 0) /\ failed > 0 /\ f.build = "complete" /\ f.tests = "complete"
  BY <1>2, <1>3, <1>4, OutcomesRest DEF outcome
<1>7. outcome \in {"testFailed", "buildFailed"} => request.exit # "yes"
  BY <1>5, <1>6
<1>8. ASSUME outcome = "buildFailed"
      PROVE  request.bundle.build.errors # <<>> /\ report.index.buildErrors = request.bundle.build.errors
  <2>1. f.build = "complete" /\ Len(f.errors) > 0
    BY <1>4, <1>6, <1>8 DEF TrustworthyBuildErrors
  <2>2. f.errors # <<>> /\ f.errors = request.bundle.build.errors
    BY <1>1, <2>1 DEF Sound
  <2>3. QED
    BY <1>2, <2>2
<1>9. ASSUME outcome = "testFailed"
      PROVE  LET failing == {t \in ToSet(ran) : FailedTest(t)}
             IN /\ failing # {} /\ request.bundle.build.errors = <<>>
                /\ DOMAIN FailedTestsOf(report.index) = {Canonical(DeriveIdentity(t).identity) : t \in failing}
  <2>1. f.build = "complete" /\ f.tests = "complete" /\ errors = 0 /\ failed > 0
    BY <1>5, <1>6, <1>9
  <2>2. request.bundle.build.errors = <<>>
    <3>1. f.errors = request.bundle.build.errors /\ Len(f.errors) = 0
      BY <1>1, <1>4, <2>1 DEF Sound, TrustworthyBuildErrors
    <3>2. f.errors \in Seq(ToSet(f.errors))
      BY <1>3 DEF IsSequence
    <3>3. QED
      BY <3>1, <3>2
  <2>3. /\ \A t \in ToSet(ran) : IsSequence(t.attempts)
        /\ ToSet(f.occurrences) = {CollectOccurrence(t) : t \in ToSet(ran)}
    BY <1>1, <1>3, <2>1, WholeTests
  <2>4. \A t \in ToSet(ran) : (CollectOccurrence(t).status = "failed") <=> FailedTest(t)
    BY <2>3, FailureIsFailure
  <2>5. PICK failing : failing = {t \in ToSet(ran) : FailedTest(t)}
    OBVIOUS
  <2>6. {o \in ToSet(f.occurrences) : o.status = "failed"} = {CollectOccurrence(t) : t \in failing}
    BY <2>3, <2>4, <2>5
  <2>7. failing # {}
    <3>1. CountOccurrences(f.occurrences, "failed") # 0
      BY <1>4, <2>1 DEF TrustworthyFailures
    <3>2. \E o \in ToSet(f.occurrences) : o.status = "failed"
      BY <1>3, <3>1, CountIsNat
    <3>3. QED
      BY <2>6, <3>2
  <2>8. DOMAIN FailedTestsOf(report.index) = {Canonical(o.identity) : o \in {o \in ToSet(f.occurrences) : o.status = "failed"}}
    BY <1>2 DEF FailedTestsOf, ToSet
  <2>9. {Canonical(o.identity) : o \in {o \in ToSet(f.occurrences) : o.status = "failed"}}
          = {Canonical(DeriveIdentity(t).identity) : t \in failing}
    <3>1. \A t : CollectOccurrence(t).identity = DeriveIdentity(t).identity
      BY DEF CollectOccurrence
    <3>2. QED
      BY <2>6, <3>1
  <2>10. QED
    BY <2>2, <2>5, <2>7, <2>8, <2>9
<1>10. QED
  BY <1>7, <1>8, <1>9 DEF FailureIsNamed

\* What is whole in the index was read whole.
LEMMA WholeIsWhole ==
  ASSUME InterpretationInv, pc = "published"
  PROVE  WholeMeansWhole
<1>1. PICK f : Sound(f) /\ report = Report(f)
  BY DEF InterpretationInv
<1>2. /\ report.index.occurrences = f.occurrences /\ report.index.buildErrors = f.errors
      /\ report.index.build = f.build /\ report.index.tests = f.tests
  BY <1>1, ReportOf
<1>3. request \in Request
  BY DEF InterpretationInv
<1>4. QED
  BY <1>1, <1>2, <1>3, WholeTests DEF WholeMeansWhole, Sound

\* Failures are named as the bundle names them and a facet that is advertised
\* whole is (classify.ts, index-model.ts failedTestsOf, interpret.ts publish).
THEOREM ReportsAreTrue == InterpretationSpec => []ReportIsTrue
<1>1. InterpretationInv => ReportIsTrue
  BY NamedFailures, WholeIsWhole DEF ReportIsTrue, FailureIsNamed, WholeMeansWhole, published
<1>2. QED
  BY <1>1, InterpretationInvariant, PTL

\* An interpretation of which the invariant holds is well typed.
LEMMA InterpretationIsTyped ==
  ASSUME InterpretationInv
  PROVE  InterpretationTypeOK
<1>1. {signal, late, request.present, request.toolchain} \subseteq BOOLEAN
  BY RequestAssumption DEF InterpretationInv
<1>2. {found.build, found.tests} \subseteq Completeness /\ found.reached \in {"yes", "no", "unknown"}
      /\ found.defect.reason \in DOMAIN DEFECT_RANK
  BY DEF InterpretationInv, Sound
<1>3. /\ report.index.diagnostics \in Completeness
      /\ report.verdict.outcome \in
           {"none", "passed", "testFailed", "buildFailed", "infrastructureFailed", "cancelled", "timedOut"}
  <2>1. CASE pc # "published"
    <3>1. report = NoReport
      BY <2>1 DEF InterpretationInv
    <3>2. QED
      BY <3>1 DEF NoReport, Index, NothingFound, Outcome, Completeness
  <2>2. CASE pc = "published"
    <3>1. PICK f : Sound(f) /\ report = Report(f)
      BY <2>2 DEF InterpretationInv
    <3>2. PICK a : report.verdict = Classify(f, a.verdict) /\ report.index.diagnostics \in Completeness
      BY <3>1, ReportOf
    <3>3. QED
      BY <3>1, <3>2, OutcomesRest DEF Sound
  <2>3. QED
    BY <2>1, <2>2
<1>4. QED
  BY <1>1, <1>2, <1>3 DEF InterpretationTypeOK, InterpretationInv, Completeness

\* The state of an interpretation is well typed (interpret.ts).
THEOREM InterpretationTypes == InterpretationSpec => []InterpretationTypeOK
<1>1. InterpretationInv => InterpretationTypeOK
  BY InterpretationIsTyped
<1>2. QED
  BY <1>1, InterpretationInvariant, PTL

-----------------------------------------------------------------------------
(* Documents of blocks. *)

Blocks == [priority : Nat, lines : Nat, bytes : Nat]

\* Of two blocks the one that stays longer.
Precedes(document, i, j) ==
  \/ document[i].priority < document[j].priority
  \/ document[i].priority = document[j].priority /\ i < j

-----------------------------------------------------------------------------
(* Extremes of sets of numbers. *)

\* The greatest of bounded numbers is the one whose distance is the least.
LEMMA GreatestExists ==
  ASSUME NEW n \in Nat, NEW S, S \subseteq 0 .. n, S # {}
  PROVE  Max(S) \in S /\ \A y \in S : Max(S) >= y
<1> DEFINE D == {n - x : x \in S}
<1>0. \A x \in S : x \in 0 .. n
  OBVIOUS
<1>1. D \subseteq Nat /\ D # {}
  <2>1. \A x \in 0 .. n : n - x \in Nat
    OBVIOUS
  <2>2. QED
    BY <1>0, <2>1, Zenon
<1>2. PICK d \in D : \A e \in D : d <= e
  <2> HIDE DEF D
  <2>1. QED
    BY <1>1, LeastExists
<1>3. PICK x \in S : d = n - x
  OBVIOUS
<1>4. \A y \in S : x >= y
  <2> TAKE y \in S
  <2>1. n - x <= n - y
    BY <1>2, <1>3
  <2>2. QED
    BY <2>1
<1>5. QED
  BY <1>4 DEF Max

\* The extremes of two numbers.
LEMMA MinOfTwo ==
  ASSUME NEW a \in Int, NEW b \in Int
  PROVE  Min({a, b}) \in {a, b} /\ Min({a, b}) <= a /\ Min({a, b}) <= b
BY DEF Min

\* The greater of two.
LEMMA MaxOfTwo ==
  ASSUME NEW a \in Int, NEW b \in Int
  PROVE  Max({a, b}) \in {a, b} /\ Max({a, b}) >= a /\ Max({a, b}) >= b
BY DEF Max

-----------------------------------------------------------------------------
(* The order in which blocks go. *)

\* The blocks that stay longer than block i.
Ahead(document, i) == {j \in DOMAIN document : Precedes(document, j, i)}

\* What survives has few blocks ahead of it.
LEMMA SurvivorsHaveFewAhead ==
  ASSUME NEW document, NEW n
  PROVE  Surviving(document, n) = {i \in DOMAIN document : Cardinality(Ahead(document, i)) < n}
BY DEF Surviving, Ahead, Precedes

\* The place and the priority of a block are numbers.
LEMMA BlockTypes ==
  ASSUME NEW document \in Seq(Blocks), NEW i \in DOMAIN document
  PROVE  i \in Nat /\ i >= 1 /\ document[i].priority \in Nat
<1>1. i \in 1 .. Len(document) /\ Len(document) \in Nat
  OBVIOUS
<1>2. document[i] \in Blocks
  BY <1>1
<1>3. QED
  BY <1>1, <1>2 DEF Blocks

\* A document has finitely many blocks.
LEMMA FinitelyMany ==
  ASSUME NEW document \in Seq(Blocks), NEW T \in SUBSET DOMAIN document
  PROVE  IsFiniteSet(T)
<1>1. DOMAIN document = 1 .. Len(document) /\ Len(document) \in Nat
  OBVIOUS
<1>2. IsFiniteSet(1 .. Len(document))
  BY <1>1, FS_Interval
<1>3. QED
  BY <1>1, <1>2, FS_Subset

\* Where a block survives, each that precedes it does.
LEMMA SurvivingIsPrefix ==
  ASSUME NEW document \in Seq(Blocks), NEW n \in Nat,
         NEW i \in Surviving(document, n), NEW j \in DOMAIN document, Precedes(document, j, i)
  PROVE  j \in Surviving(document, n)
<1>1. i \in DOMAIN document /\ Cardinality(Ahead(document, i)) < n
  BY SurvivorsHaveFewAhead
<1>2. \A k \in DOMAIN document : document[k].priority \in Nat /\ k \in Nat
  BY BlockTypes
<1>3. Ahead(document, j) \subseteq Ahead(document, i)
  BY <1>1, <1>2 DEF Ahead, Precedes
<1>4. IsFiniteSet(Ahead(document, i)) /\ IsFiniteSet(Ahead(document, j))
  BY FinitelyMany DEF Ahead
<1>5. Cardinality(Ahead(document, j)) <= Cardinality(Ahead(document, i))
  BY <1>3, <1>4, FS_Subset
<1>6. Cardinality(Ahead(document, i)) \in Nat /\ Cardinality(Ahead(document, j)) \in Nat
  BY <1>4, FS_CardinalityType
<1>7. Cardinality(Ahead(document, j)) < n
  BY <1>1, <1>5, <1>6
<1>8. QED
  BY <1>7, SurvivorsHaveFewAhead

\* Nothing precedes an envelope that opens the document.
LEMMA EnvelopeSurvives ==
  ASSUME NEW document \in Seq(Blocks), document # <<>>, document[1].priority = PRIORITY.envelope,
         NEW n \in Nat \ {0}
  PROVE  1 \in Surviving(document, n)
<1>1. 1 \in DOMAIN document
  OBVIOUS
<1>2. Ahead(document, 1) = {}
  <2>1. document[1].priority = 0
    BY DEF PRIORITY
  <2>2. QED
    BY <2>1, BlockTypes DEF Ahead, Precedes
<1>3. Cardinality(Ahead(document, 1)) = 0
  BY <1>2, FS_EmptySet
<1>4. Cardinality(Ahead(document, 1)) < n
  BY <1>3
<1>5. QED
  BY <1>1, <1>4, SurvivorsHaveFewAhead

\* What is kept of a document is what survives some cut that leaves a block,
\* and the text fits or was cut.
LEMMA Outcomes ==
  ASSUME NEW document \in Seq(Blocks), document # <<>>
  PROVE  \E n \in 1 .. Len(document) :
           LET text == Assemble(document, Surviving(document, n)) IN
           \/ Serialize(document) = text /\ Fits(text)
           \/ Serialize(document) = HardTruncate(text)
<1> DEFINE text(n) == Assemble(document, Surviving(document, n))
           fitting == {n \in 1 .. Len(document) : Fits(text(n))}
<1>0. Len(document) \in Nat /\ 1 \in 1 .. Len(document)
  OBVIOUS
<1>1. CASE fitting # {}
  <2>1. Max(fitting) \in fitting
    <3>1. fitting \subseteq 0 .. Len(document)
      OBVIOUS
    <3> HIDE DEF fitting
    <3>2. QED
      BY <1>0, <1>1, <3>1, GreatestExists
  <2>2. Serialize(document) = text(Max(fitting))
    BY <1>1 DEF Serialize
  <2>3. QED
    BY <2>1, <2>2
<1>2. CASE fitting = {}
  BY <1>0, <1>2 DEF Serialize
<1>3. QED
  BY <1>1, <1>2

\* What is kept is what survives some cut.
LEMMA KeptSurvives ==
  ASSUME NEW document \in Seq(Blocks), document # <<>>
  PROVE  \E n \in Nat \ {0} : Serialize(document).kept = Surviving(document, n)
<1>1. PICK n \in 1 .. Len(document) :
        LET text == Assemble(document, Surviving(document, n)) IN
        \/ Serialize(document) = text /\ Fits(text)
        \/ Serialize(document) = HardTruncate(text)
  BY Outcomes
<1>2. \A keep : Assemble(document, keep).kept = keep /\ HardTruncate(Assemble(document, keep)).kept = keep
  BY DEF Assemble, HardTruncate
<1>3. Serialize(document).kept = Surviving(document, n)
  BY <1>1, <1>2
<1>4. QED
  BY <1>3

\* No block is kept at the cost of one that matters more: budget.ts serialize.
THEOREM LeastImportantGoFirst ==
  ASSUME NEW document \in Seq(Blocks), NEW i \in Serialize(document).kept,
         NEW j \in DOMAIN document, Precedes(document, j, i)
  PROVE  j \in Serialize(document).kept
<1>1. document # <<>>
  OBVIOUS
<1>2. PICK n \in Nat \ {0} : Serialize(document).kept = Surviving(document, n)
  BY <1>1, KeptSurvives
<1>3. QED
  BY <1>2, SurvivingIsPrefix

\* The block that says what the answer is about, the first of every document,
\* is cut rather than dropped: budget.ts serialize.
THEOREM EnvelopeIsKept ==
  ASSUME NEW document \in Seq(Blocks), document # <<>>, document[1].priority = PRIORITY.envelope
  PROVE  1 \in Serialize(document).kept
BY KeptSurvives, EnvelopeSurvives

-----------------------------------------------------------------------------
(* The budget. *)

\* A host that declares how many bytes it lets through has room for the note
\* that something was cut off.
NoteFits == \A h \in Host : h.bytes # Undeclared => h.bytes >= Limit.noteBytes

\* The budget is within what the host lets through, and so is the note where
\* there is room for it.
LEMMA BudgetWithinCeiling ==
  ASSUME host \in Host
  PROVE  /\ Ceiling.lines \in Nat /\ Ceiling.bytes \in Nat
         /\ Budget.lines \in Nat /\ Budget.lines <= Ceiling.lines
         /\ Budget.bytes \in Nat /\ Budget.bytes <= Ceiling.bytes
         /\ Limit.noteBytes \in Nat /\ (NoteFits => Limit.noteBytes <= Ceiling.bytes)
<1>1. /\ Ceiling.lines \in Nat /\ Ceiling.lines >= 1
      /\ Ceiling.bytes \in Nat /\ Ceiling.bytes >= 1
      /\ Limit.noteBytes \in Nat /\ (NoteFits => Limit.noteBytes <= Ceiling.bytes)
  BY OutputAssumption DEF Ceiling, Undeclared, NoteFits
<1>2. /\ Limit.selfLines \in Int /\ Limit.marginLines \in Nat
      /\ Limit.selfBytes \in Int /\ Limit.marginBytes \in Nat
  BY OutputAssumption
<1>3. /\ Ceiling.lines - Limit.marginLines \in Int /\ Ceiling.lines - Limit.marginLines <= Ceiling.lines
      /\ Ceiling.bytes - Limit.marginBytes \in Int /\ Ceiling.bytes - Limit.marginBytes <= Ceiling.bytes
  BY <1>1, <1>2
<1> DEFINE L == Min({Limit.selfLines, Ceiling.lines - Limit.marginLines})
           B == Min({Limit.selfBytes, Ceiling.bytes - Limit.marginBytes})
<1>4. L \in Int /\ L <= Ceiling.lines /\ B \in Int /\ B <= Ceiling.bytes
  <2>1. L \in {Limit.selfLines, Ceiling.lines - Limit.marginLines} /\ L <= Ceiling.lines - Limit.marginLines
    BY <1>2, <1>3, MinOfTwo, Zenon
  <2>2. B \in {Limit.selfBytes, Ceiling.bytes - Limit.marginBytes} /\ B <= Ceiling.bytes - Limit.marginBytes
    BY <1>2, <1>3, MinOfTwo, Zenon
  <2> HIDE DEF L, B
  <2>3. QED
    BY <1>1, <1>2, <1>3, <2>1, <2>2
<1>5. Budget.lines = Max({1, L}) /\ Budget.bytes = Max({1, B})
  BY DEF Budget
<1> HIDE DEF L, B
<1>6. Max({1, L}) \in {1, L} /\ Max({1, L}) >= 1 /\ Max({1, B}) \in {1, B} /\ Max({1, B}) >= 1
  BY <1>4, MaxOfTwo, 1 \in Int, Zenon
<1>7. QED
  BY <1>1, <1>4, <1>5, <1>6

\* A text that is cut is within the budget, or is the note alone.
LEMMA CutIsWithin ==
  ASSUME NoteFits, host \in Host, NEW text, text = [text EXCEPT !.cut = text.cut],
         {"lines", "bytes"} \subseteq DOMAIN text, text.lines \in Nat, text.bytes \in Nat
  PROVE  HardTruncate(text).lines <= Ceiling.lines /\ HardTruncate(text).bytes <= Ceiling.bytes
<1> DEFINE lines == Min({text.lines + 2, Budget.lines})
           short == Min({text.bytes, Budget.bytes})
           noted == Min({text.bytes + Limit.noteBytes, Budget.bytes})
<1>1. HardTruncate(text).lines = lines
  BY DEF HardTruncate
<1>2. HardTruncate(text).bytes = IF Budget.lines <= 1 THEN short ELSE Max({Limit.noteBytes, noted})
  BY DEF HardTruncate
<1>0. /\ text.lines + 2 \in Int /\ text.bytes \in Int /\ text.bytes + Limit.noteBytes \in Int
      /\ Budget.lines \in Int /\ Budget.bytes \in Int /\ Limit.noteBytes \in Int
  BY BudgetWithinCeiling
<1>3. lines <= Budget.lines /\ lines \in Int
  BY <1>0, MinOfTwo, Zenon
<1>4. short <= Budget.bytes /\ short \in Int
  BY <1>0, MinOfTwo, Zenon
<1>5. noted <= Budget.bytes /\ noted \in Int
  BY <1>0, MinOfTwo, Zenon
<1> HIDE DEF lines, short, noted
<1>6. Max({Limit.noteBytes, noted}) \in {Limit.noteBytes, noted}
  BY <1>0, <1>5, MaxOfTwo, Zenon
<1>7. QED
  BY <1>1, <1>2, <1>3, <1>4, <1>5, <1>6, BudgetWithinCeiling

-----------------------------------------------------------------------------
(* The size of what is left of a document. *)

\* The lines of the blocks shown are a sum of the library, and so are the bytes.
LEMMA SumsOfBlocks ==
  ASSUME NEW document \in Seq(Blocks), NEW shown \in SUBSET DOMAIN document
  PROVE  /\ MapThenSumSet(LAMBDA i : document[i].lines, shown) \in Nat
         /\ MapThenSumSet(LAMBDA i : document[i].lines, shown)
              = SumFunctionOnSet([i \in shown |-> document[i].lines], shown)
         /\ MapThenSumSet(LAMBDA i : document[i].bytes, shown) \in Nat
         /\ MapThenSumSet(LAMBDA i : document[i].bytes, shown)
              = SumFunctionOnSet([i \in shown |-> document[i].bytes], shown)
<1> DEFINE f == [i \in shown |-> document[i].lines]
           g == [i \in shown |-> document[i].bytes]
           LinesAre(it) == it = [u \in SUBSET shown |->
             IF u = {} THEN 0 ELSE document[CHOOSE x \in u : TRUE].lines + it[u \ {CHOOSE x \in u : TRUE}]]
           BytesAre(it) == it = [u \in SUBSET shown |->
             IF u = {} THEN 0 ELSE document[CHOOSE x \in u : TRUE].bytes + it[u \ {CHOOSE x \in u : TRUE}]]
<1>1. IsFiniteSet(shown)
  BY FinitelyMany
<1>2. \A i \in shown : f[i] \in Nat /\ g[i] \in Nat
  <2>1. \A i \in DOMAIN document : document[i] \in Blocks
    OBVIOUS
  <2>2. QED
    BY <2>1 DEF Blocks
<1>3. \A u \in SUBSET shown : u # {} =>
        /\ f[CHOOSE x \in u : TRUE] = document[CHOOSE x \in u : TRUE].lines
        /\ g[CHOOSE x \in u : TRUE] = document[CHOOSE x \in u : TRUE].bytes
  OBVIOUS
<1> HIDE DEF f, g
<1>4. ASSUME NEW it PROVE (Adds(f, shown, it) <=> LinesAre(it)) /\ (Adds(g, shown, it) <=> BytesAre(it))
  <2>1. [u \in SUBSET shown |-> IF u = {} THEN 0 ELSE f[CHOOSE x \in u : TRUE] + it[u \ {CHOOSE x \in u : TRUE}]]
        = [u \in SUBSET shown |->
             IF u = {} THEN 0 ELSE document[CHOOSE x \in u : TRUE].lines + it[u \ {CHOOSE x \in u : TRUE}]]
    BY <1>3
  <2>2. [u \in SUBSET shown |-> IF u = {} THEN 0 ELSE g[CHOOSE x \in u : TRUE] + it[u \ {CHOOSE x \in u : TRUE}]]
        = [u \in SUBSET shown |->
             IF u = {} THEN 0 ELSE document[CHOOSE x \in u : TRUE].bytes + it[u \ {CHOOSE x \in u : TRUE}]]
    BY <1>3
  <2>3. QED
    BY <2>1, <2>2 DEF Adds, First
<1>5. (\E it : Adds(f, shown, it)) /\ (\E it : Adds(g, shown, it))
  BY <1>1, <1>2, AddsExists
<1> DEFINE lines == CHOOSE it : LinesAre(it)
           bytes == CHOOSE it : BytesAre(it)
<1>6. /\ MapThenSumSet(LAMBDA i : document[i].lines, shown) = lines[shown]
      /\ MapThenSumSet(LAMBDA i : document[i].bytes, shown) = bytes[shown]
  BY DEF MapThenSumSet, MapThenFoldSet
<1> HIDE DEF LinesAre, BytesAre
<1>7. LinesAre(lines) /\ BytesAre(bytes)
  BY <1>4, <1>5
<1> HIDE DEF lines, bytes
<1>8. Adds(f, shown, lines) /\ Adds(g, shown, bytes)
  BY <1>4, <1>7
<1>9. lines[shown] \in Nat /\ bytes[shown] \in Nat
  BY <1>1, <1>2, <1>8, AddsAgree
<1>10. /\ lines[shown] = SumFunctionOnSet(f, shown)
       /\ bytes[shown] = SumFunctionOnSet(g, shown)
  <2>1. PICK it : Adds(f, shown, it) /\ SumFunctionOnSet(f, shown) = it[shown]
    <3>1. \E it : Adds(f, shown, it) /\ \A s \in SUBSET shown : SumFunctionOnSet(f, s) = it[s]
      BY <1>1, <1>2, SumAdds
    <3>2. shown \in SUBSET shown
      OBVIOUS
    <3>3. QED
      BY <3>1, <3>2, Zenon
  <2>2. PICK jt : Adds(g, shown, jt) /\ SumFunctionOnSet(g, shown) = jt[shown]
    <3>1. \E sums : Adds(g, shown, sums) /\ \A s \in SUBSET shown : SumFunctionOnSet(g, s) = sums[s]
      BY <1>1, <1>2, SumAdds
    <3>2. shown \in SUBSET shown
      OBVIOUS
    <3>3. QED
      BY <3>1, <3>2, Zenon
  <2>3. lines[shown] = it[shown] /\ bytes[shown] = jt[shown]
    BY <1>1, <1>2, <1>8, <2>1, <2>2, AddsAgree
  <2>4. QED
    BY <2>1, <2>2, <2>3
<1>11. QED
  BY <1>6, <1>9, <1>10 DEF f, g

\* Whatever is left of a document has a number of lines and of bytes.
LEMMA AssembledIsSized ==
  ASSUME NEW document \in Seq(Blocks), NEW keep \in SUBSET DOMAIN document
  PROVE  Assemble(document, keep).lines \in Nat /\ Assemble(document, keep).bytes \in Nat
<1> DEFINE note  == IF Cardinality(keep) < Len(document) THEN 1 ELSE 0
           shown == {i \in keep : document[i].lines > 0}
           lines == MapThenSumSet(LAMBDA i : document[i].lines, shown)
           bytes == MapThenSumSet(LAMBDA i : document[i].bytes, shown)
           breaks == Cardinality(shown) + note - 1
<1>1. /\ Assemble(document, keep).lines = lines + note + Max({0, breaks})
      /\ Assemble(document, keep).bytes = bytes + note * Limit.noteBytes
  BY DEF Assemble
<1>2. shown \in SUBSET DOMAIN document
  OBVIOUS
<1>3. note \in {0, 1}
  OBVIOUS
<1> HIDE DEF note, shown
<1>4. lines \in Nat /\ bytes \in Nat
  BY <1>2, SumsOfBlocks
<1>5. Cardinality(shown) \in Nat
  BY <1>2, FinitelyMany, FS_CardinalityType
<1> HIDE DEF lines, bytes
<1>6. breaks \in Int
  BY <1>3, <1>5
<1>7. Max({0, breaks}) \in {0, breaks} /\ Max({0, breaks}) >= 0
  BY <1>6, MaxOfTwo, 0 \in Int, Zenon
<1> HIDE DEF breaks
<1>8. Max({0, breaks}) \in Nat
  BY <1>6, <1>7
<1>9. Limit.noteBytes \in Nat
  BY OutputAssumption
<1>10. note * Limit.noteBytes \in Nat
  BY <1>3, <1>9
<1>11. QED
  BY <1>1, <1>3, <1>4, <1>8, <1>10

\* No text is one the host would cut, for every document and whatever the host
\* says of its limits, if the note of a cut fits in them: budget.ts
\* resolveBudget and hardTruncate.
THEOREM TextFitsTheHost ==
  ASSUME NoteFits, host \in Host, NEW document \in Seq(Blocks), document # <<>>
  PROVE  /\ Serialize(document).lines <= Ceiling.lines
         /\ Serialize(document).bytes <= Ceiling.bytes
<1>1. PICK n \in 1 .. Len(document) :
        LET text == Assemble(document, Surviving(document, n)) IN
        \/ Serialize(document) = text /\ Fits(text)
        \/ Serialize(document) = HardTruncate(text)
  BY Outcomes
<1> DEFINE text == Assemble(document, Surviving(document, n))
<1>2. text.lines \in Nat /\ text.bytes \in Nat
  <2>1. Surviving(document, n) \in SUBSET DOMAIN document
    BY DEF Surviving
  <2>2. QED
    BY <2>1, AssembledIsSized
<1>3. {"lines", "bytes"} \subseteq DOMAIN text /\ text = [text EXCEPT !.cut = text.cut]
  BY DEF Assemble
<1> HIDE DEF text
<1>4. CASE Serialize(document) = text /\ Fits(text)
  BY <1>2, <1>4, BudgetWithinCeiling DEF Fits
<1>5. CASE Serialize(document) = HardTruncate(text)
  BY <1>2, <1>3, <1>5, CutIsWithin
<1>6. QED
  BY <1>1, <1>4, <1>5 DEF text

-----------------------------------------------------------------------------
(* Sequences. *)

\* A sequence is a function on an interval.
LEMMA IsList ==
  ASSUME NEW s, IsSequence(s)
  PROVE  Len(s) \in Nat /\ DOMAIN s = 1 .. Len(s) /\ s \in Seq(ToSet(s)) /\ s = [i \in 1 .. Len(s) |-> s[i]]
BY DEF IsSequence

\* A function on an interval is a sequence.
LEMMA ListIs ==
  ASSUME NEW n \in Nat, NEW s, s = [i \in 1 .. n |-> s[i]]
  PROVE  IsSequence(s) /\ Len(s) = n /\ DOMAIN s = 1 .. n
<1>1. DOMAIN s = 1 .. n
  OBVIOUS
<1>2. \A i \in 1 .. n : s[i] \in ToSet(s)
  BY <1>1 DEF ToSet
<1>3. s \in [1 .. n -> ToSet(s)]
  BY <1>1, <1>2
<1>4. s \in Seq(ToSet(s)) /\ Len(s) = n
  BY <1>3
<1>5. QED
  BY <1>1, <1>4 DEF IsSequence

\* A sequence of anything is one of what is in it.
LEMMA SeqIsList ==
  ASSUME NEW S, NEW s \in Seq(S)
  PROVE  IsSequence(s)
<1>1. Len(s) \in Nat /\ s = [i \in 1 .. Len(s) |-> s[i]]
  OBVIOUS
<1>2. QED
  BY <1>1, ListIs

\* A part of a sequence.
LEMMA PartOfList ==
  ASSUME NEW s, IsSequence(s), NEW m \in 1 .. Len(s) + 1, NEW n \in m - 1 .. Len(s)
  PROVE  /\ IsSequence(SubSeq(s, m, n)) /\ Len(SubSeq(s, m, n)) = n - m + 1
         /\ \A i \in 1 .. n - m + 1 : SubSeq(s, m, n)[i] = s[m + i - 1]
<1>1. Len(s) \in Nat /\ s \in Seq(ToSet(s)) /\ m \in Int /\ n \in Int
  BY IsList
<1>2. \A i \in m .. n : s[i] \in ToSet(s)
  BY <1>1
<1>3. /\ SubSeq(s, m, n) \in Seq(ToSet(s))
      /\ Len(SubSeq(s, m, n)) = IF m <= n THEN n - m + 1 ELSE 0
      /\ \A i \in 1 .. n - m + 1 : SubSeq(s, m, n)[i] = s[m + i - 1]
  BY <1>1, <1>2, SubSeqProperties
<1>4. IsSequence(SubSeq(s, m, n))
  BY <1>3, SeqIsList
<1>5. QED
  BY <1>1, <1>3, <1>4

\* The whole of it.
LEMMA WholeList ==
  ASSUME NEW s, IsSequence(s)
  PROVE  SubSeq(s, 1, Len(s)) = s
<1>1. s \in Seq(ToSet(s))
  BY IsList
<1>2. QED
  BY <1>1, SubSeqFull

\* What is kept of a sequence is one.
LEMMA KeepingIsList ==
  ASSUME NEW s, IsSequence(s), NEW kept
  PROVE  IsSequence(Keeping(s, kept))
BY KeepingKeeps, SeqIsList

\* A finite set has its elements in a list.
LEMMA SetIsListed ==
  ASSUME NEW S, IsFiniteSet(S)
  PROVE  /\ IsSequence(SetToSeq(S)) /\ Len(SetToSeq(S)) = Cardinality(S)
         /\ SetToSeq(S) \in [1 .. Cardinality(S) -> S]
<1>1. Cardinality(S) \in Nat /\ ExistsBijection(1 .. Cardinality(S), S)
  BY FS_CardinalityType
<1>2. \E f \in [1 .. Cardinality(S) -> S] : IsInjective(f)
  BY <1>1 DEF ExistsBijection, Bijection, Injection, IsInjective
<1>3. SetToSeq(S) \in [1 .. Cardinality(S) -> S]
  BY <1>2 DEF SetToSeq
<1>4. SetToSeq(S) = [i \in 1 .. Cardinality(S) |-> SetToSeq(S)[i]]
  BY <1>3
<1>5. QED
  BY <1>1, <1>3, <1>4, ListIs

-----------------------------------------------------------------------------
(* Sums of numbers. *)

\* Numbers add up to a number.
LEMMA TotalIsNat ==
  ASSUME NEW numbers, IsFiniteSet(DOMAIN numbers), \A i \in DOMAIN numbers : numbers[i] \in Nat
  PROVE  Total(numbers) \in Nat
<1>1. Total(numbers) = SumFunctionOnSet(numbers, DOMAIN numbers)
  BY DEF Total, SumFunction
<1>2. QED
  BY <1>1, SumStarts

\* Those of a list.
LEMMA ListTotal ==
  ASSUME NEW n \in Nat, NEW numbers, DOMAIN numbers = 1 .. n, \A i \in 1 .. n : numbers[i] \in Nat
  PROVE  Total(numbers) \in Nat
<1>1. IsFiniteSet(DOMAIN numbers)
  BY FS_Interval
<1>2. QED
  BY <1>1, TotalIsNat

\* The sum of two.
LEMMA SumOfTwo ==
  ASSUME NEW a, NEW b, a # b, NEW f, f[a] \in Nat, f[b] \in Nat
  PROVE  SumFunctionOnSet(f, {a, b}) = f[a] + f[b]
<1>1. IsFiniteSet({a, b}) /\ IsFiniteSet({b}) /\ IsFiniteSet({})
  <2>1. IsFiniteSet({}) /\ IsFiniteSet({b})
    BY FS_EmptySet, FS_Singleton
  <2>2. {b} \cup {a} = {a, b}
    OBVIOUS
  <2>3. IsFiniteSet({b} \cup {a})
    BY <2>1, FS_AddElement
  <2>4. QED
    BY <2>1, <2>2, <2>3
<1>2. SumFunctionOnSet(f, {a, b}) = f[a] + SumFunctionOnSet(f, {b})
  <2>1. {a, b} \ {a} = {b}
    OBVIOUS
  <2>2. QED
    BY <1>1, <2>1, SumRemove
<1>3. SumFunctionOnSet(f, {b}) = f[b] + SumFunctionOnSet(f, {})
  <2>1. {b} \ {b} = {}
    OBVIOUS
  <2>2. QED
    BY <1>1, <2>1, SumRemove
<1>4. SumFunctionOnSet(f, {}) = 0
  BY <1>1, SumStarts
<1>5. QED
  BY <1>2, <1>3, <1>4

-----------------------------------------------------------------------------
(* Documents of which two blocks are sure to stay. *)

\* A document of two blocks.
LEMMA PairIsTwo ==
  ASSUME NEW a, NEW b, a # b
  PROVE  IsFiniteSet({a, b}) /\ Cardinality({a, b}) = 2
<1>1. IsFiniteSet({a}) /\ Cardinality({a}) = 1
  BY FS_Singleton, Zenon
<1>2. {a, b} = {a} \cup {b} /\ b \notin {a}
  OBVIOUS
<1>3. IsFiniteSet({a} \cup {b}) /\ Cardinality({a} \cup {b}) = Cardinality({a}) + 1
  BY <1>1, <1>2, FS_AddElement
<1>4. QED
  BY <1>1, <1>2, <1>3

\* The two that precede all others are what survives of a document cut to two.
LEMMA TwoSurvive ==
  ASSUME NEW document \in Seq(Blocks), NEW a \in DOMAIN document, NEW b \in DOMAIN document, a # b,
         \A i \in DOMAIN document \ {a} : Precedes(document, a, i),
         \A i \in DOMAIN document \ {a, b} : Precedes(document, b, i)
  PROVE  Surviving(document, 2) = {a, b}
<1>1. \A i \in DOMAIN document : i \in Nat /\ document[i].priority \in Nat
  BY BlockTypes
<1>2. \A i \in DOMAIN document : \A j \in DOMAIN document : Precedes(document, i, j) => ~Precedes(document, j, i)
  BY <1>1 DEF Precedes
<1>3. Ahead(document, a) = {}
  BY <1>2 DEF Ahead, Precedes
<1>4. Ahead(document, b) = {a}
  BY <1>2 DEF Ahead, Precedes
<1>5. \A i \in DOMAIN document \ {a, b} : {a, b} \subseteq Ahead(document, i)
  BY DEF Ahead
<1>6. Cardinality(Ahead(document, a)) = 0 /\ Cardinality(Ahead(document, b)) = 1
  BY <1>3, <1>4, FS_EmptySet, FS_Singleton
<1>7. ASSUME NEW i \in DOMAIN document \ {a, b} PROVE ~(Cardinality(Ahead(document, i)) < 2)
  <2>1. IsFiniteSet(Ahead(document, i))
    BY FinitelyMany DEF Ahead
  <2>2. Cardinality({a, b}) = 2
    BY PairIsTwo
  <2>3. Cardinality({a, b}) <= Cardinality(Ahead(document, i)) /\ Cardinality(Ahead(document, i)) \in Nat
    BY <1>5, <2>1, FS_Subset, FS_CardinalityType
  <2>4. QED
    BY <2>2, <2>3
<1>8. QED
  BY <1>6, <1>7, SurvivorsHaveFewAhead

\* More survives of a document that is cut less.
LEMMA MoreSurvives ==
  ASSUME NEW document \in Seq(Blocks), NEW n \in Nat, NEW m \in Nat, n <= m
  PROVE  Surviving(document, n) \subseteq Surviving(document, m)
<1>1. SUFFICES ASSUME NEW i \in Surviving(document, n) PROVE i \in Surviving(document, m)
  OBVIOUS
<1>2. i \in DOMAIN document /\ Cardinality(Ahead(document, i)) < n
  BY SurvivorsHaveFewAhead
<1>3. Cardinality(Ahead(document, i)) \in Nat
  BY FinitelyMany, FS_CardinalityType DEF Ahead
<1>4. Cardinality(Ahead(document, i)) < m
  BY <1>2, <1>3
<1>5. QED
  BY <1>2, <1>4, SurvivorsHaveFewAhead

\* A document cut to what fits keeps that.
LEMMA FittingIsKept ==
  ASSUME NEW document \in Seq(Blocks), NEW n \in 1 .. Len(document), Fits(Assemble(document, Surviving(document, n)))
  PROVE  Surviving(document, n) \subseteq Serialize(document).kept /\ ~Serialize(document).cut
<1> DEFINE text(k) == Assemble(document, Surviving(document, k))
           fitting == {k \in 1 .. Len(document) : Fits(text(k))}
<1>1. n \in fitting /\ fitting \subseteq 0 .. Len(document) /\ Len(document) \in Nat
  OBVIOUS
<1>2. Serialize(document) = text(Max(fitting))
  BY <1>1 DEF Serialize
<1>3. Max(fitting) \in fitting /\ Max(fitting) >= n
  <2> HIDE DEF fitting
  <2>1. QED
    BY <1>1, GreatestExists
<1>4. PICK k \in 1 .. Len(document) : k >= n /\ Serialize(document) = text(k)
  <2>1. \A k \in fitting : k \in 1 .. Len(document)
    OBVIOUS
  <2> HIDE DEF fitting
  <2>2. QED
    BY <1>2, <1>3, <2>1
<1>5. text(k).kept = Surviving(document, k) /\ text(k).cut = FALSE
  BY DEF Assemble
<1>6. k \in Nat /\ n \in Nat /\ n <= k
  BY <1>1, <1>4
<1>7. Surviving(document, n) \subseteq Surviving(document, k)
  BY <1>6, MoreSurvives
<1>8. QED
  BY <1>4, <1>5, <1>7

\* The text of two blocks, and of the note that others are missing.
LEMMA TextOfTwo ==
  ASSUME NEW document \in Seq(Blocks), NEW a \in DOMAIN document, NEW b \in DOMAIN document, a # b,
         document[a].lines > 0, document[b].lines > 0
  PROVE  LET text == Assemble(document, {a, b})
             note == IF Len(document) = 2 THEN 0 ELSE 1
         IN /\ text.lines = document[a].lines + document[b].lines + 1 + 2 * note
            /\ text.bytes = document[a].bytes + document[b].bytes + note * Limit.noteBytes
<1>1. PICK shown : shown = {i \in {a, b} : document[i].lines > 0}
  OBVIOUS
<1>2. PICK two : two = Cardinality({a, b})
  OBVIOUS
<1>13. two = 2
  BY <1>2, PairIsTwo
<1>14. PICK note : note = IF two < Len(document) THEN 1 ELSE 0
  OBVIOUS
<1>3. shown = {a, b}
  BY <1>1
<1>4. note \in {0, 1} /\ note = IF Len(document) = 2 THEN 0 ELSE 1
  <2>1. PICK n : n = Len(document)
    OBVIOUS
  <2>2. n \in Nat /\ n # 1 /\ n # 0
    BY <2>1
  <2>3. n = 2 \/ 2 < n
    BY <2>2
  <2>4. note = IF 2 < n THEN 1 ELSE 0
    BY <1>13, <1>14, <2>1
  <2>5. ~(n = 2 /\ 2 < n)
    OBVIOUS
  <2>6. QED
    BY <2>1, <2>3, <2>4, <2>5, Zenon
<1>5. {a, b} \in SUBSET DOMAIN document /\ document[a] \in Blocks /\ document[b] \in Blocks
  OBVIOUS
<1>6. PICK f : f = [i \in {a, b} |-> document[i].lines]
  OBVIOUS
<1>7. PICK g : g = [i \in {a, b} |-> document[i].bytes]
  OBVIOUS
<1>8. /\ f[a] = document[a].lines /\ f[b] = document[b].lines /\ f[a] \in Nat /\ f[b] \in Nat
      /\ g[a] = document[a].bytes /\ g[b] = document[b].bytes /\ g[a] \in Nat /\ g[b] \in Nat
  BY <1>5, <1>6, <1>7 DEF Blocks
<1>9. /\ MapThenSumSet(LAMBDA i : document[i].lines, {a, b}) = f[a] + f[b]
      /\ MapThenSumSet(LAMBDA i : document[i].bytes, {a, b}) = g[a] + g[b]
  <2>1. SumFunctionOnSet(f, {a, b}) = f[a] + f[b] /\ SumFunctionOnSet(g, {a, b}) = g[a] + g[b]
    BY <1>8, SumOfTwo
  <2>2. QED
    BY <1>5, <1>6, <1>7, <2>1, SumsOfBlocks
<1>10. /\ Assemble(document, {a, b}).lines
            = MapThenSumSet(LAMBDA i : document[i].lines, shown) + note + Max({0, Cardinality(shown) + note - 1})
       /\ Assemble(document, {a, b}).bytes
            = MapThenSumSet(LAMBDA i : document[i].bytes, shown) + note * Limit.noteBytes
  BY <1>1, <1>2, <1>14 DEF Assemble
<1>11. Max({0, Cardinality(shown) + note - 1}) = 1 + note
  <2>1. Cardinality(shown) = 2
    BY <1>3, PairIsTwo
  <2>2. Cardinality(shown) + note - 1 = 1 + note /\ 1 + note \in Int
    BY <1>4, <2>1
  <2>3. Max({0, 1 + note}) \in {0, 1 + note} /\ Max({0, 1 + note}) >= 1 + note
    BY <2>2, MaxOfTwo, 0 \in Int
  <2>4. Max({0, 1 + note}) = 1 + note
    BY <1>4, <2>3
  <2>5. QED
    BY <2>2, <2>4
<1>12. QED
  BY <1>3, <1>4, <1>8, <1>9, <1>10, <1>11

\* Two blocks that precede all others stay, where they fit with the note.
LEMMA TwoAreKept ==
  ASSUME NEW document \in Seq(Blocks), NEW a \in DOMAIN document, NEW b \in DOMAIN document, a # b,
         document[a].lines > 0, document[b].lines > 0,
         \A i \in DOMAIN document \ {a} : Precedes(document, a, i),
         \A i \in DOMAIN document \ {a, b} : Precedes(document, b, i),
         NEW note, note = (IF Len(document) = 2 THEN 0 ELSE 1),
         document[a].lines + document[b].lines + 1 + 2 * note <= Budget.lines,
         document[a].bytes + document[b].bytes + note * Limit.noteBytes <= Budget.bytes
  PROVE  {a, b} \subseteq Serialize(document).kept /\ ~Serialize(document).cut
<1>1. Surviving(document, 2) = {a, b}
  BY TwoSurvive
<1>2. 2 \in 1 .. Len(document)
  OBVIOUS
<1>3. Fits(Assemble(document, {a, b}))
  BY TextOfTwo DEF Fits
<1>4. QED
  BY <1>1, <1>2, <1>3, FittingIsKept

-----------------------------------------------------------------------------
(* The sizes of what there is. *)

\* Every record, every message and every part of a text has a size.
Sized ==
  /\ \A r : Bytes(r) \in Nat /\ Fixed(r) \in Nat
  /\ \A r : /\ Written(r).chars \in Nat /\ IsSequence(Written(r).lines)
            /\ \A l \in ToSet(Written(r).lines) : l.path \in Nat /\ l.text \in Nat
  /\ \A part : TextBytes(part) \in Nat

\* The records taken have a size.
LEMMA TakenIsNat ==
  ASSUME Sized, NEW records, NEW k \in Nat
  PROVE  Taken(records, k) \in Nat
<1>1. PICK f : f = [i \in 1 .. k |-> Bytes(records[i]) + 1]
  OBVIOUS
<1>2. DOMAIN f = 1 .. k /\ \A i \in 1 .. k : f[i] \in Nat
  BY <1>1 DEF Sized
<1>3. Total(f) \in Nat
  BY <1>2, ListTotal
<1>4. QED
  BY <1>1, <1>3 DEF Taken

-----------------------------------------------------------------------------
(* Pages. *)

\* A page consumes a record if there is one, and fits what it was cut to.
LEMMA CappedRecords ==
  ASSUME Sized, NEW records, IsSequence(records), NEW cap \in Nat, NEW page, page = CapRecords(records, cap)
  PROVE  /\ page.kept \in 0 .. Len(records) /\ page.omitted \in {0, 1} /\ page.marked \in BOOLEAN
         /\ Consumed(page) \in 0 .. Len(records) /\ (records # <<>> => Consumed(page) >= 1)
         /\ page.bytes + 3 * page.kept \in Nat /\ page.bytes \in Int
         /\ IF page.kept = 0 THEN page.bytes = 0 ELSE Limit.envelope + page.bytes + page.kept <= cap
         /\ DOMAIN page = {"kept", "omitted", "marked", "bytes"}
<1>1. Len(records) \in Nat /\ (records = <<>> <=> Len(records) = 0) /\ Limit.envelope \in Nat
  <2>1. Len(records) \in Nat /\ records \in Seq(ToSet(records))
    BY IsList
  <2>2. QED
    BY <2>1, InspectionAssumption
<1>2. PICK few : few = {k \in 0 .. Len(records) : k = 0 \/ Limit.envelope + Taken(records, k) <= cap}
  OBVIOUS
<1>3. PICK kept : kept = Max(few)
  OBVIOUS
<1>4. kept \in 0 .. Len(records) /\ (kept > 0 => Limit.envelope + Taken(records, kept) <= cap)
  <2>1. few \subseteq 0 .. Len(records) /\ 0 \in few
    BY <1>1, <1>2
  <2>2. kept \in few
    BY <1>1, <1>3, <2>1, GreatestExists
  <2>3. QED
    BY <1>2, <2>2
<1>5. Taken(records, kept) \in Nat
  BY <1>4, TakenIsNat
<1>6. PICK free : free = cap - Limit.envelope - 1
  OBVIOUS
<1>7. page = CASE records = <<>> \/ kept > 0 ->
                    [kept |-> kept, omitted |-> 0, marked |-> kept < Len(records), bytes |-> Taken(records, kept) - kept]
               [] OTHER -> IF Fixed(records[1]) <= free THEN [kept |-> 1, omitted |-> 0, marked |-> TRUE, bytes |-> free]
                           ELSE [kept |-> 0, omitted |-> 1, marked |-> TRUE, bytes |-> 0]
  BY <1>2, <1>3, <1>6, Zenon DEF CapRecords
<1>8. CASE records = <<>> \/ kept > 0
  <2>1. page = [kept |-> kept, omitted |-> 0, marked |-> kept < Len(records), bytes |-> Taken(records, kept) - kept]
    BY <1>7, <1>8, Zenon
  <2>2. /\ page.kept = kept /\ page.omitted = 0 /\ page.marked \in BOOLEAN
        /\ page.bytes = Taken(records, kept) - kept /\ DOMAIN page = {"kept", "omitted", "marked", "bytes"}
    BY <2>1
  <2>3. records = <<>> => kept = 0
    BY <1>1, <1>4
  <2>4. kept = 0 => Taken(records, kept) = 0
    <3> SUFFICES ASSUME kept = 0 PROVE Taken(records, 0) = 0
      OBVIOUS
    <3>1. Taken(records, 0) = Total([i \in 1 .. 0 |-> Bytes(records[i]) + 1])
      BY DEF Taken
    <3>2. PICK f : f = [i \in 1 .. 0 |-> Bytes(records[i]) + 1]
      OBVIOUS
    <3>3. DOMAIN f = {}
      BY <3>2
    <3>4. Total(f) = SumFunctionOnSet(f, {})
      BY <3>3 DEF Total, SumFunction
    <3>5. SumFunctionOnSet(f, {}) = 0
      BY SumStarts, FS_EmptySet
    <3>6. QED
      BY <3>1, <3>2, <3>4, <3>5
  <2>5. QED
    BY <1>1, <1>4, <1>5, <1>8, <2>2, <2>3, <2>4 DEF Consumed
<1>9. CASE ~(records = <<>> \/ kept > 0) /\ Fixed(records[1]) <= free
  <2>1. page = [kept |-> 1, omitted |-> 0, marked |-> TRUE, bytes |-> free]
    BY <1>7, <1>9, Zenon
  <2>2. Fixed(records[1]) \in Nat /\ free \in Int
    BY <1>1, <1>6 DEF Sized
  <2>3. QED
    BY <1>1, <1>6, <1>9, <2>1, <2>2 DEF Consumed
<1>10. CASE ~(records = <<>> \/ kept > 0) /\ ~(Fixed(records[1]) <= free)
  <2>1. page = [kept |-> 0, omitted |-> 1, marked |-> TRUE, bytes |-> 0]
    BY <1>7, <1>10, Zenon
  <2>2. QED
    BY <1>1, <1>10, <2>1 DEF Consumed
<1>11. QED
  BY <1>8, <1>9, <1>10

\* What a page may take, and what it leaves free where there is room.
LEMMA PageBudgetIs ==
  ASSUME host \in Host
  PROVE  /\ PageBudget.bytes \in Nat /\ PageBudget.records \in Nat /\ PageBudget.records >= 1
         /\ Budget.lines \in Nat /\ Budget.bytes \in Nat
         /\ Roomy => /\ PageBudget.records = Budget.lines - Limit.overheadLines
                     /\ PageBudget.bytes = Budget.bytes - Limit.overheadBytes
                     /\ Budget.lines > Limit.overheadLines
                     /\ Budget.bytes >= Limit.envelope + 2 * Limit.overheadBytes
<1>1. /\ Budget.lines \in Nat /\ Budget.bytes \in Nat
      /\ Limit.overheadBytes \in Nat /\ Limit.overheadLines \in Nat /\ Limit.envelope \in Nat
  BY BudgetWithinCeiling, InspectionAssumption
<1>2. PICK b : b = Budget.bytes - Limit.overheadBytes
  OBVIOUS
<1>3. PICK l : l = Budget.lines - Limit.overheadLines
  OBVIOUS
<1>4. b \in Int /\ l \in Int
  BY <1>1, <1>2, <1>3
<1>5. PageBudget.bytes = Max({Limit.overheadBytes, b}) /\ PageBudget.records = Max({1, l})
  BY <1>2, <1>3 DEF PageBudget
<1>6. /\ Max({Limit.overheadBytes, b}) \in {Limit.overheadBytes, b} /\ Max({Limit.overheadBytes, b}) >= Limit.overheadBytes
      /\ Max({Limit.overheadBytes, b}) >= b
      /\ Max({1, l}) \in {1, l} /\ Max({1, l}) >= 1 /\ Max({1, l}) >= l
  BY <1>1, <1>4, MaxOfTwo, 1 \in Int, Limit.overheadBytes \in Int
<1>7. Roomy => Budget.lines > Limit.overheadLines /\ Budget.bytes >= Limit.envelope + 2 * Limit.overheadBytes
  BY DEF Roomy
<1>8. PageBudget.bytes \in Nat /\ PageBudget.records \in Nat /\ PageBudget.records >= 1
  BY <1>1, <1>4, <1>5, <1>6
<1>9. Roomy => b >= Limit.overheadBytes /\ l >= 1
  BY <1>1, <1>2, <1>3, <1>7
<1>10. Roomy => PageBudget.bytes = b /\ PageBudget.records = l
  BY <1>1, <1>4, <1>5, <1>6, <1>9
<1>11. QED
  BY <1>1, <1>2, <1>3, <1>7, <1>8, <1>10

\* A page starts where the cursor stands, ends within the facet, and moves on.
LEMMA PageTiles ==
  ASSUME Sized, host \in Host, NEW facet, NEW status, NEW limit \in Asked,
         NEW list, list = RecordsFor(facet, status), IsSequence(list), reader.cursor.position \in 0 .. Len(list),
         NEW page, page = Page(facet, status, limit)
  PROVE  /\ page.facet = facet /\ page.status = status /\ page.first = reader.cursor.position
         /\ page.kept \in Nat /\ page.omitted \in {0, 1} /\ page.marked \in BOOLEAN
         /\ page.answer \in {"available", "incomplete"}
         /\ Consumed(page) \in Nat /\ page.first + Consumed(page) <= Len(list)
         /\ (page.first < Len(list) => Consumed(page) >= 1)
         /\ page.cursor = NextCursor(facet, status, page.first + Consumed(page), Len(list))
         /\ page.kept <= limit /\ page.kept <= PageBudget.records
         /\ page.bytes \in Int /\ page.bytes + 3 * page.kept \in Nat
         /\ IF page.kept = 0 THEN page.bytes = 0 ELSE Limit.envelope + page.bytes + page.kept <= PageBudget.bytes
<1>1. PICK from : from = reader.cursor.position
  OBVIOUS
<1>2. PICK records : records = PageBudget.records
  OBVIOUS
<1>3. PICK many : many = Max({1, Min({limit, records})})
  OBVIOUS
<1>4. PICK to : to = Min({Len(list), from + many})
  OBVIOUS
<1>5. PICK asked : asked = SubSeq(list, from + 1, to)
  OBVIOUS
<1>6. PICK cap : cap = Min({Limit.responseCap, PageBudget.bytes})
  OBVIOUS
<1>7. PICK capped : capped = CapRecords(asked, cap)
  OBVIOUS
<1>8. Len(list) \in Nat /\ from \in 0 .. Len(list) /\ limit \in Nat /\ limit >= 1 /\ records \in Nat /\ records >= 1
  <2>1. Len(list) \in Nat
    BY IsList
  <2>2. limit \in Nat /\ limit >= 1
    BY InspectionAssumption
  <2>3. records \in Nat /\ records >= 1
    BY <1>2, PageBudgetIs
  <2>4. QED
    BY <1>1, <2>1, <2>2, <2>3
<1>9. many \in Nat /\ many >= 1 /\ many <= limit /\ many <= records
  <2>1. Min({limit, records}) \in {limit, records} /\ Min({limit, records}) <= limit /\ Min({limit, records}) <= records
    BY <1>8, MinOfTwo, limit \in Int, records \in Int
  <2>2. PICK m : m = Min({limit, records})
    OBVIOUS
  <2>3. m \in Int /\ m >= 1
    BY <1>8, <2>1, <2>2
  <2>4. Max({1, m}) \in {1, m} /\ Max({1, m}) >= 1
    BY <2>3, MaxOfTwo, 1 \in Int
  <2>5. QED
    BY <1>3, <1>8, <2>1, <2>2, <2>3, <2>4
<1>10. to \in from .. Len(list) /\ to - from <= many /\ (from < Len(list) => to > from)
  <2>1. Len(list) \in Int /\ from + many \in Int
    BY <1>8, <1>9
  <2>2. to \in {Len(list), from + many} /\ to <= Len(list) /\ to <= from + many
    BY <1>4, <2>1, MinOfTwo
  <2>3. QED
    BY <1>8, <1>9, <2>2
<1>11. IsSequence(asked) /\ Len(asked) = to - from
  <2>1. from + 1 \in 1 .. Len(list) + 1 /\ to \in (from + 1) - 1 .. Len(list)
    BY <1>8, <1>10
  <2>2. IsSequence(asked) /\ Len(asked) = to - (from + 1) + 1
    BY <1>5, <2>1, PartOfList
  <2>3. QED
    BY <1>8, <1>10, <2>2
<1>12. cap \in Nat /\ cap <= PageBudget.bytes
  <2>1. Limit.responseCap \in Nat /\ PageBudget.bytes \in Nat
    BY PageBudgetIs, InspectionAssumption
  <2>2. PICK b : b = PageBudget.bytes
    OBVIOUS
  <2>3. cap \in {Limit.responseCap, b} /\ cap <= b
    BY <1>6, <2>1, <2>2, MinOfTwo, Limit.responseCap \in Int, b \in Int
  <2>4. QED
    BY <2>1, <2>2, <2>3
<1>13. /\ capped.kept \in 0 .. Len(asked) /\ capped.omitted \in {0, 1} /\ capped.marked \in BOOLEAN
       /\ Consumed(capped) \in 0 .. Len(asked) /\ (asked # <<>> => Consumed(capped) >= 1)
       /\ capped.bytes + 3 * capped.kept \in Nat /\ capped.bytes \in Int
       /\ IF capped.kept = 0 THEN capped.bytes = 0 ELSE Limit.envelope + capped.bytes + capped.kept <= cap
       /\ DOMAIN capped = {"kept", "omitted", "marked", "bytes"}
  BY <1>7, <1>11, <1>12, CappedRecords
<1>14. page = [facet |-> facet, status |-> status, first |-> from, kept |-> capped.kept, omitted |-> capped.omitted,
               marked |-> capped.marked, bytes |-> capped.bytes,
               answer |-> IF FacetCompleteness(facet) = "partial" \/ capped.omitted > 0 THEN "incomplete" ELSE "available",
               cursor |-> NextCursor(facet, status, from + Consumed(capped), Len(list))]
  BY <1>1, <1>2, <1>3, <1>4, <1>5, <1>6, <1>7, Zenon DEF Page
<1>16. /\ page.kept = capped.kept /\ page.omitted = capped.omitted /\ page.marked = capped.marked
       /\ page.bytes = capped.bytes
       /\ page.facet = facet /\ page.status = status /\ page.first = from
       /\ page.cursor = NextCursor(facet, status, from + Consumed(capped), Len(list))
       /\ page.answer \in {"available", "incomplete"}
  BY <1>14
<1>17. Consumed(page) = Consumed(capped)
  BY <1>16 DEF Consumed
<1>18. page.cursor = NextCursor(facet, status, page.first + Consumed(page), Len(list))
  BY <1>16, <1>17
<1>19. asked = <<>> => Len(asked) = 0
  OBVIOUS
<1>20. PICK used : used = Consumed(capped)
  OBVIOUS
<1>21. used \in Nat /\ from + used <= Len(list) /\ (from < Len(list) => used >= 1)
  BY <1>8, <1>10, <1>11, <1>13, <1>19, <1>20
<1>22. page.kept \in Nat /\ page.kept <= limit /\ page.kept <= records
  <2>1. PICK k : k = page.kept
    OBVIOUS
  <2>2. k \in 0 .. (to - from) /\ to \in Int
    BY <1>8, <1>10, <1>11, <1>13, <1>16, <2>1
  <2>3. QED
    BY <1>8, <1>9, <1>10, <2>1, <2>2
<1>23. IF page.kept = 0 THEN page.bytes = 0 ELSE Limit.envelope + page.bytes + page.kept <= PageBudget.bytes
  <2>1. Limit.envelope \in Nat /\ PageBudget.bytes \in Nat
    BY PageBudgetIs, InspectionAssumption
  <2>2. PICK k, x, e, b : k = page.kept /\ x = page.bytes /\ e = Limit.envelope /\ b = PageBudget.bytes
    OBVIOUS
  <2>3. k = capped.kept /\ x = capped.bytes
    BY <1>16, <2>2
  <2>4. k \in Nat /\ x \in Int /\ e \in Nat /\ b \in Nat /\ cap \in Nat /\ cap <= b
    BY <1>12, <1>13, <1>22, <2>1, <2>2, <2>3
  <2>5. IF k = 0 THEN x = 0 ELSE e + x + k <= cap
    BY <1>13, <2>2, <2>3
  <2>6. IF k = 0 THEN x = 0 ELSE e + x + k <= b
    BY <2>4, <2>5
  <2>7. QED
    BY <2>2, <2>6
<1>24. QED
  BY <1>1, <1>2, <1>13, <1>16, <1>17, <1>18, <1>20, <1>21, <1>22, <1>23

-----------------------------------------------------------------------------
(* The documents that are rendered. *)

Kinds == {"envelope", "facts", "reason", "diagnostics", "context", "sample"}

\* What is made a block is one.
LEMMA BlockIs ==
  ASSUME NEW kind \in Kinds, NEW lines \in Nat, NEW bytes \in Nat, NEW block, block = Block(kind, lines, bytes)
  PROVE  block \in Blocks /\ block.lines = lines /\ block.bytes = bytes /\ block.priority = PRIORITY[kind]
<1>1. block = [priority |-> PRIORITY[kind], lines |-> lines, bytes |-> bytes]
  BY DEF Block
<1>2. PRIORITY[kind] \in Nat
  BY DEF PRIORITY, Kinds
<1>3. QED
  BY <1>1, <1>2 DEF Blocks

\* The envelope and the facts go last.
LEMMA Priorities ==
  /\ PRIORITY["envelope"] = 0 /\ PRIORITY["facts"] = 1 /\ PRIORITY["reason"] = 2
  /\ PRIORITY["diagnostics"] = 3 /\ PRIORITY["context"] = 4 /\ PRIORITY["sample"] = 5
BY DEF PRIORITY

\* What follows the records is a few lines.
LEMMA TruncationLinesAreFew ==
  ASSUME NEW more \in BOOLEAN, NEW marked \in BOOLEAN, NEW omitted \in Nat
  PROVE  /\ TruncationLines(more, marked, omitted) \in 0 .. 5
         /\ omitted = 0 => TruncationLines(more, marked, omitted) \in 0 .. 4
BY DEF TruncationLines

\* A page that fits what it was cut to is shown, with its cursor, where there
\* is room.
LEMMA PageIsShown ==
  ASSUME Sized, host \in Host, NEW limit \in Asked, NEW page,
         page.kept \in Nat, page.omitted \in {0, 1}, page.marked \in BOOLEAN,
         page.kept <= limit, page.kept <= PageBudget.records,
         page.bytes \in Int, page.bytes + 3 * page.kept \in Nat,
         IF page.kept = 0 THEN page.bytes = 0 ELSE Limit.envelope + page.bytes + page.kept <= PageBudget.bytes
  PROVE  /\ RenderPage(page) \in Seq(Blocks) /\ RenderPage(page) # <<>>
         /\ Roomy => 2 \in Serialize(RenderPage(page)).kept
<1>1. PICK head : head = IF page.answer = "available" THEN 2 ELSE 6
  OBVIOUS
<1>2. PICK few : few = TruncationLines(page.cursor # NoCursor, page.marked, page.omitted)
  OBVIOUS
<1>3. PICK e : e = TextBytes("envelope")
  OBVIOUS
<1>4. PICK f : f = TextBytes("facts")
  OBVIOUS
<1>5. PICK a : a = Block("envelope", head, e)
  OBVIOUS
<1>6. PICK b : b = Block("facts", 1 + page.kept + few, f + page.bytes + 3 * page.kept)
  OBVIOUS
<1>7. head \in Nat /\ head >= 1 /\ head <= 6 /\ few \in 0 .. 5 /\ e \in Nat /\ f \in Nat
  <2>1. few \in 0 .. 5
    BY <1>2, TruncationLinesAreFew
  <2>2. QED
    BY <1>1, <1>3, <1>4, <2>1 DEF Sized
<1>8. 1 + page.kept + few \in Nat /\ f + page.bytes + 3 * page.kept \in Nat
  BY <1>7
<1>9. /\ a \in Blocks /\ a.lines = head /\ a.bytes = e /\ a.priority = 0
      /\ b \in Blocks /\ b.lines = 1 + page.kept + few /\ b.bytes = f + page.bytes + 3 * page.kept
      /\ b.priority = 1
  <2>1. "envelope" \in Kinds /\ "facts" \in Kinds
    BY DEF Kinds
  <2>2. a \in Blocks /\ a.lines = head /\ a.bytes = e /\ a.priority = 0
    BY <1>5, <1>7, <2>1, BlockIs, Priorities
  <2>3. PICK n : n = 1 + page.kept + few
    OBVIOUS
  <2>4. PICK m : m = f + page.bytes + 3 * page.kept
    OBVIOUS
  <2>5. b = Block("facts", n, m) /\ n \in Nat /\ m \in Nat
    BY <1>6, <1>8, <2>3, <2>4
  <2>6. b \in Blocks /\ b.lines = n /\ b.bytes = m /\ b.priority = 1
    BY <2>1, <2>5, BlockIs, Priorities
  <2>7. QED
    BY <2>2, <2>3, <2>4, <2>6
<1>10. PICK document : document = RenderPage(page)
  OBVIOUS
<1>11. document = <<a, b>>
  BY <1>1, <1>2, <1>3, <1>4, <1>5, <1>6, <1>10, Zenon DEF RenderPage
<1>12. document \in Seq(Blocks) /\ document # <<>> /\ Len(document) = 2 /\ DOMAIN document = {1, 2}
  BY <1>9, <1>11
<1>13. ASSUME Roomy PROVE 2 \in Serialize(document).kept
  <2>1. /\ PageBudget.bytes = Budget.bytes - Limit.overheadBytes
        /\ PageBudget.records = Budget.lines - Limit.overheadLines
        /\ Budget.bytes >= Limit.envelope + 2 * Limit.overheadBytes
        /\ Budget.lines \in Nat /\ Budget.bytes \in Nat
    BY <1>13, PageBudgetIs
  <2>2. /\ Limit.envelope \in Nat /\ Limit.overheadBytes \in Nat /\ Limit.overheadLines \in Nat
        /\ Limit.overheadLines >= 13 /\ e + f + 2 * Limit.pageMax <= Limit.envelope + Limit.overheadBytes
        /\ limit <= Limit.pageMax /\ limit \in Nat /\ Limit.pageMax \in Nat
    BY <1>3, <1>4, InspectionAssumption
  <2>3. head + (1 + page.kept + few) + 1 + 2 * 0 <= Budget.lines
    BY <1>7, <2>1, <2>2
  <2>4. e + (f + page.bytes + 3 * page.kept) + 0 * Limit.noteBytes <= Budget.bytes
    <3>1. 0 * Limit.noteBytes = 0
      BY OutputAssumption
    <3>2. page.kept <= Limit.pageMax
      BY <2>2
    <3>3. CASE page.kept = 0
      BY <1>7, <2>1, <2>2, <3>1, <3>3
    <3>4. CASE page.kept # 0
      BY <1>7, <2>1, <2>2, <3>1, <3>2, <3>4
    <3>5. QED
      BY <3>3, <3>4
  <2>5. /\ document[1] = a /\ document[2] = b
    BY <1>11
  <2>6. /\ \A i \in DOMAIN document \ {1} : Precedes(document, 1, i)
        /\ \A i \in DOMAIN document \ {1, 2} : Precedes(document, 2, i)
    BY <1>9, <1>12, <2>5 DEF Precedes
  <2>7. document[1].lines > 0 /\ document[2].lines > 0
    <3>1. head > 0 /\ 1 + page.kept + few > 0
      BY <1>7
    <3>2. QED
      BY <1>9, <2>5, <3>1
  <2>8. /\ document[1].lines + document[2].lines + 1 + 2 * 0 <= Budget.lines
        /\ document[1].bytes + document[2].bytes + 0 * Limit.noteBytes <= Budget.bytes
    BY <1>9, <2>3, <2>4, <2>5
  <2>9. {1, 2} \subseteq Serialize(document).kept
    <3>1. 0 = IF Len(document) = 2 THEN 0 ELSE 1
      BY <1>12
    <3>2. 1 \in DOMAIN document /\ 2 \in DOMAIN document /\ 1 # 2
      BY <1>12
    <3>3. QED
      BY <1>12, <2>6, <2>7, <2>8, <3>1, <3>2, TwoAreKept
  <2>10. QED
    BY <2>9
<1>14. QED
  BY <1>10, <1>12, <1>13

-----------------------------------------------------------------------------
(* Windows of the log. *)

\* The log is text: it begins with a character, and after each there is
\* another, or the end.
WholeCharacters(log) ==
  /\ log # <<>> => log[1] # 0
  /\ \A i \in DOMAIN log : log[i] # 0 =>
       LET end == i + SequenceLength(log[i])
       IN /\ \A j \in i + 1 .. end - 1 : j \in DOMAIN log => log[j] = 0
          /\ end \in DOMAIN log => log[end] # 0

\* The log is a sequence of bytes.
LEMMA BytesOfLog ==
  /\ IsSequence(Log) /\ Len(Log) \in Nat /\ DOMAIN Log = 1 .. Len(Log)
  /\ \A i \in 1 .. Len(Log) : Log[i] \in 0 .. 5
  /\ \A i \in 1 .. Len(Log) : Log[i] # 0 => SequenceLength(Log[i]) \in 1 .. 4
<1>1. Log \in Seq(0 .. 5)
  BY InspectionAssumption
<1>2. IsSequence(Log)
  BY <1>1, SeqIsList
<1>3. Len(Log) \in Nat /\ DOMAIN Log = 1 .. Len(Log) /\ \A i \in 1 .. Len(Log) : Log[i] \in 0 .. 5
  BY <1>1
<1>4. QED
  BY <1>2, <1>3 DEF SequenceLength

\* A character begins within any four bytes of the log.
LEMMA StartIsNear ==
  ASSUME WholeCharacters(Log), NEW i \in 1 .. Len(Log)
  PROVE  \E s \in 1 .. i : s > i - 4 /\ Log[s] # 0
<1>1. PICK starts : starts = {s \in 1 .. i : Log[s] # 0}
  OBVIOUS
<1>2. 1 \in starts /\ starts \subseteq 0 .. i /\ i \in Nat
  <2>1. Log # <<>> /\ i \in Nat /\ i >= 1
    BY BytesOfLog
  <2>2. Log[1] # 0
    BY <2>1 DEF WholeCharacters
  <2>3. QED
    BY <1>1, <2>1, <2>2
<1>3. PICK s : s \in starts /\ \A r \in starts : s >= r
  BY <1>2, GreatestExists
<1>4. s \in 1 .. i /\ Log[s] # 0 /\ s \in 1 .. Len(Log)
  BY <1>1, <1>3, BytesOfLog
<1>5. PICK end : end = s + SequenceLength(Log[s])
  OBVIOUS
<1>6. end \in s + 1 .. s + 4
  BY <1>4, <1>5, BytesOfLog
<1>7. end \in 1 .. Len(Log) => Log[end] # 0
  <2>1. \A k \in DOMAIN Log : Log[k] # 0 =>
          (k + SequenceLength(Log[k]) \in DOMAIN Log => Log[k + SequenceLength(Log[k])] # 0)
    BY Zenon DEF WholeCharacters
  <2>2. QED
    BY <1>4, <1>5, <2>1, BytesOfLog
<1>8. end > i
  <2>1. SUFFICES ASSUME end <= i PROVE FALSE
    BY <1>4, <1>6
  <2>2. end \in 1 .. Len(Log) /\ end \in 1 .. i
    BY <1>4, <1>6, <2>1, BytesOfLog
  <2>3. end \in starts
    BY <1>1, <1>7, <2>2
  <2>4. s >= end
    BY <1>3, <2>3
  <2>5. QED
    BY <1>4, <1>6, <2>4
<1>9. QED
  BY <1>4, <1>6, <1>8

\* A part of the log that is long enough is cut between two characters.
LEMMA ChunkEnds ==
  ASSUME WholeCharacters(Log), NEW part, IsSequence(part), NEW from \in Nat, from + Len(part) <= Len(Log),
         \A i \in 1 .. Len(part) : part[i] = Log[from + i],
         Len(part) >= 4 \/ from + Len(part) = Len(Log),
         NEW chunk, chunk = ChunkLog(part, from)
  PROVE  /\ IsSequence(chunk) /\ Len(chunk) \in 0 .. Len(part) /\ (Len(part) >= 1 => Len(chunk) >= 1)
         /\ from + Len(chunk) < Len(Log) => Log[from + Len(chunk) + 1] # 0
<1>1. PICK l : l = Len(part)
  OBVIOUS
<1>2. PICK t : t = TrailingPartialLength(part)
  OBVIOUS
<1>3. PICK usable : usable = IF from + l >= Len(Log) THEN l ELSE l - t
  OBVIOUS
<1>4. chunk = SubSeq(part, 1, IF usable = 0 THEN l ELSE usable)
  BY <1>1, <1>2, <1>3, Zenon DEF ChunkLog
<1>5. l \in Nat /\ Len(Log) \in Nat
  BY <1>1, IsList, BytesOfLog
<1>6. ASSUME NEW n \in 0 .. l PROVE IsSequence(SubSeq(part, 1, n)) /\ Len(SubSeq(part, 1, n)) = n
  <2>1. 1 \in 1 .. Len(part) + 1 /\ n \in 1 - 1 .. Len(part)
    BY <1>1, <1>5
  <2>2. IsSequence(SubSeq(part, 1, n)) /\ Len(SubSeq(part, 1, n)) = n - 1 + 1
    BY <2>1, PartOfList
  <2>3. QED
    BY <2>2
<1>7. CASE from + l = Len(Log)
  <2>1. usable = l /\ chunk = SubSeq(part, 1, l)
    BY <1>3, <1>4, <1>5, <1>7
  <2>2. IsSequence(chunk) /\ Len(chunk) = l
    BY <1>5, <1>6, <2>1
  <2>3. QED
    BY <1>1, <1>5, <1>7, <2>2
<1>8. CASE from + l < Len(Log)
  <2>1. l >= 4 /\ usable = l - t
    BY <1>1, <1>3, <1>5, <1>8
  <2>2. PICK few, starts : few = Min({4, l}) /\ starts = {back \in 1 .. few : part[l + 1 - back] # 0}
    OBVIOUS
  <2>3. PICK back : back = Min(starts)
    OBVIOUS
  <2>4. few = 4
    <3>1. few \in {4, l} /\ few <= 4
      BY <1>5, <2>2, MinOfTwo, 4 \in Int, l \in Int
    <3>2. QED
      BY <1>5, <2>1, <3>1
  <2>5. starts = {b \in 1 .. 4 : part[l + 1 - b] # 0}
    BY <2>2, <2>4, Zenon
  <2>6. \A b \in 1 .. 4 : l + 1 - b \in 1 .. l /\ part[l + 1 - b] = Log[from + (l + 1 - b)]
    BY <1>1, <1>5, <2>1
  <2>7. starts # {}
    <3>1. PICK s \in 1 .. from + l : s > from + l - 4 /\ Log[s] # 0
      BY <1>5, <1>8, <2>1, StartIsNear
    <3>2. PICK b : b = from + l + 1 - s
      OBVIOUS
    <3>3. b \in 1 .. 4 /\ from + (l + 1 - b) = s
      BY <1>5, <3>1, <3>2
    <3>4. b \in starts
      BY <2>5, <2>6, <3>1, <3>3
    <3>5. QED
      BY <3>4
  <2>8. back \in starts /\ \A b \in starts : back <= b
    <3>1. starts \subseteq Nat
      BY <2>5
    <3>2. QED
      BY <2>3, <2>7, <3>1, MinIs
  <2>9. PICK s : s = from + (l + 1 - back)
    OBVIOUS
  <2>10. back \in 1 .. 4 /\ part[l + 1 - back] = Log[s] /\ Log[s] # 0 /\ s \in 1 .. Len(Log)
    <3>1. back \in 1 .. 4 /\ part[l + 1 - back] # 0
      BY <2>5, <2>8
    <3>2. part[l + 1 - back] = Log[s]
      BY <2>6, <2>9, <3>1
    <3>3. s \in 1 .. Len(Log)
      BY <1>5, <1>8, <2>1, <2>9, <3>1
    <3>4. QED
      BY <3>1, <3>2, <3>3
  <2>11. PICK n : n = SequenceLength(Log[s])
    OBVIOUS
  <2>12. n \in 1 .. 4
    BY <2>10, <2>11, BytesOfLog, Zenon
  <2>13. t = IF n > back THEN back ELSE 0
    BY <1>1, <1>2, <2>2, <2>3, <2>7, <2>10, <2>11 DEF TrailingPartialLength
  <2>14. CASE n > back
    <3>1. usable = l - back /\ usable \in 1 .. l
      BY <1>5, <2>1, <2>10, <2>12, <2>13, <2>14
    <3>2. chunk = SubSeq(part, 1, usable)
      BY <1>4, <3>1
    <3>3. IsSequence(chunk) /\ Len(chunk) = usable
      BY <1>6, <3>1, <3>2
    <3>4. from + usable + 1 = s
      BY <1>5, <2>9, <2>10, <3>1
    <3>5. QED
      BY <1>1, <2>10, <3>1, <3>3, <3>4
  <2>15. CASE ~(n > back)
    <3>1. usable = l
      BY <1>5, <2>1, <2>13, <2>15
    <3>2. IsSequence(chunk) /\ Len(chunk) = l
      BY <1>4, <1>5, <1>6, <2>1, <3>1
    <3>3. PICK end : end = s + n
      OBVIOUS
    <3>4. end \in 1 .. Len(Log) /\ end <= from + l + 1
      BY <1>5, <1>8, <2>1, <2>9, <2>10, <2>12, <2>15, <3>3
    <3>5. Log[end] # 0
      <4>1. \A k \in DOMAIN Log : Log[k] # 0 =>
              (k + SequenceLength(Log[k]) \in DOMAIN Log => Log[k + SequenceLength(Log[k])] # 0)
        BY Zenon DEF WholeCharacters
      <4>2. QED
        BY <2>10, <2>11, <3>3, <3>4, <4>1, BytesOfLog, Zenon
    <3>6. end = from + l + 1
      <4>1. SUFFICES ASSUME end < from + l + 1 PROVE FALSE
        BY <1>5, <3>4
      <4>2. PICK b : b = from + l + 1 - end
        OBVIOUS
      <4>3. b \in 1 .. 4 /\ b < back /\ from + (l + 1 - b) = end
        BY <1>5, <2>9, <2>10, <2>12, <3>3, <4>1, <4>2
      <4>4. b \in starts
        BY <2>5, <2>6, <3>5, <4>3
      <4>5. QED
        BY <2>8, <2>10, <4>3, <4>4
    <3>7. QED
      BY <1>1, <1>5, <2>1, <3>2, <3>5, <3>6
  <2>16. QED
    BY <2>14, <2>15
<1>9. QED
  BY <1>1, <1>5, <1>7, <1>8

\* The bytes of a window are those of the log, enough of them for a character.
LEMMA WindowIs ==
  ASSUME NEW from \in 0 .. Len(Log), NEW maxBytes \in AskedBytes, NEW bytes, bytes = LogWindow(from, maxBytes)
  PROVE  /\ IsSequence(bytes) /\ from + Len(bytes) <= Len(Log) /\ (from < Len(Log) => Len(bytes) >= 1)
         /\ Len(bytes) >= 4 \/ from + Len(bytes) = Len(Log)
         /\ \A i \in 1 .. Len(bytes) : bytes[i] = Log[from + i]
<1>1. PICK wide : wide = Max({Limit.logMin, maxBytes})
  OBVIOUS
<1>2. PICK wanted : wanted = Min({wide, Limit.logMax})
  OBVIOUS
<1>3. PICK to : to = Min({Len(Log), from + wanted})
  OBVIOUS
<1>4. bytes = SubSeq(Log, from + 1, to)
  BY <1>1, <1>2, <1>3 DEF LogWindow
<1>5. /\ Limit.logMin \in Nat /\ Limit.logMax \in Nat /\ 4 <= Limit.logMin /\ Limit.logMin <= Limit.logMax
      /\ maxBytes \in Nat /\ Len(Log) \in Nat /\ from \in Nat
  BY InspectionAssumption, BytesOfLog
<1>6. wide \in Nat /\ wide >= 4
  <2>1. wide \in {Limit.logMin, maxBytes} /\ wide >= Limit.logMin
    BY <1>1, <1>5, MaxOfTwo, Limit.logMin \in Int, maxBytes \in Int
  <2>2. QED
    BY <1>5, <2>1
<1>7. wanted \in Nat /\ wanted >= 4
  <2>1. wanted \in {wide, Limit.logMax}
    BY <1>2, <1>5, <1>6, MinOfTwo, wide \in Int, Limit.logMax \in Int
  <2>2. QED
    BY <1>5, <1>6, <2>1
<1>8. to \in from .. Len(Log) /\ (to = Len(Log) \/ to >= from + 4) /\ (from < Len(Log) => to > from)
  <2>1. Len(Log) \in Int /\ from + wanted \in Int
    BY <1>5, <1>7
  <2>2. to \in {Len(Log), from + wanted} /\ to <= Len(Log) /\ to <= from + wanted
    BY <1>3, <2>1, MinOfTwo
  <2>3. QED
    BY <1>5, <1>7, <2>2
<1>9. /\ IsSequence(bytes) /\ Len(bytes) = to - from
      /\ \A i \in 1 .. to - from : bytes[i] = Log[from + i]
  <2>1. from + 1 \in 1 .. Len(Log) + 1 /\ to \in (from + 1) - 1 .. Len(Log)
    BY <1>5, <1>8
  <2>2. /\ IsSequence(bytes) /\ Len(bytes) = to - (from + 1) + 1
        /\ \A i \in 1 .. to - (from + 1) + 1 : bytes[i] = Log[(from + 1) + i - 1]
    BY <1>4, <2>1, BytesOfLog, PartOfList
  <2>3. to - (from + 1) + 1 = to - from /\ \A i \in Nat : (from + 1) + i - 1 = from + i
    BY <1>5, <1>8
  <2>4. QED
    BY <2>2, <2>3
<1>10. QED
  BY <1>5, <1>8, <1>9

\* However often it is halved, a window ends between two characters and moves on.
LEMMA WindowIsCut ==
  ASSUME WholeCharacters(Log), NEW from \in 0 .. Len(Log), NEW maxBytes \in AskedBytes,
         NEW chunk, chunk = FitChunk(LogWindow(from, maxBytes), from)
  PROVE  /\ IsSequence(chunk) /\ from + Len(chunk) <= Len(Log) /\ (from < Len(Log) => Len(chunk) >= 1)
         /\ from + Len(chunk) < Len(Log) => Log[from + Len(chunk) + 1] # 0
<1>1. PICK bytes : bytes = LogWindow(from, maxBytes)
  OBVIOUS
<1>2. /\ IsSequence(bytes) /\ from + Len(bytes) <= Len(Log) /\ (from < Len(Log) => Len(bytes) >= 1)
      /\ Len(bytes) >= 4 \/ from + Len(bytes) = Len(Log)
      /\ \A i \in 1 .. Len(bytes) : bytes[i] = Log[from + i]
  BY <1>1, WindowIs
<1>3. PICK all : all = Len(bytes)
  OBVIOUS
<1>4. all \in Nat /\ Len(Log) \in Nat /\ from \in Nat /\ Limit.logMin \in Nat /\ Limit.logMin >= 4
  BY <1>2, <1>3, IsList, BytesOfLog, InspectionAssumption
<1>5. PICK least : least = Min({all, Limit.logMin})
  OBVIOUS
<1>6. least \in 0 .. all /\ (least >= 4 \/ least = all) /\ (all >= 1 => least >= 1)
  <2>1. least \in {all, Limit.logMin} /\ least <= all
    BY <1>4, <1>5, MinOfTwo, all \in Int, Limit.logMin \in Int
  <2>2. QED
    BY <1>4, <2>1
<1>7. PICK halved : halved = {Max({least, half}) : half \in {all} \cup Halves(all)}
  OBVIOUS
<1>8. PICK fitting : fitting = {l \in halved : JsonBytes(ChunkLog(SubSeq(bytes, 1, l), from)) + Limit.envelope
                                                 <= Limit.responseCap}
  OBVIOUS
<1>9. PICK l : l = Max(fitting \cup {least})
  OBVIOUS
<1>10. chunk = ChunkLog(SubSeq(bytes, 1, l), from)
  BY <1>1, <1>3, <1>5, <1>7, <1>8, <1>9 DEF FitChunk
<1>11. halved \subseteq 0 .. all
  <2>1. SUFFICES ASSUME NEW half \in {all} \cup Halves(all) PROVE Max({least, half}) \in 0 .. all
    BY <1>7
  <2>2. half \in 0 .. all /\ half \in Int /\ least \in Int
    BY <1>4, <1>6 DEF Halves
  <2>3. Max({least, half}) \in {least, half}
    BY <2>2, MaxOfTwo
  <2>4. QED
    BY <1>6, <2>2, <2>3
<1>12. l \in least .. all
  <2>1. fitting \cup {least} \subseteq 0 .. all /\ least \in fitting \cup {least}
    BY <1>6, <1>8, <1>11
  <2>2. l \in fitting \cup {least} /\ l >= least
    BY <1>4, <1>9, <2>1, GreatestExists
  <2>3. QED
    BY <1>6, <2>1, <2>2
<1>13. PICK part : part = SubSeq(bytes, 1, l)
  OBVIOUS
<1>14. IsSequence(part) /\ Len(part) = l /\ \A i \in 1 .. l : part[i] = Log[from + i]
  <2>1. 1 \in 1 .. Len(bytes) + 1 /\ l \in 1 - 1 .. Len(bytes) /\ l \in Nat
    BY <1>3, <1>4, <1>6, <1>12
  <2>2. /\ IsSequence(part) /\ Len(part) = l - 1 + 1
        /\ \A i \in 1 .. l - 1 + 1 : part[i] = bytes[1 + i - 1]
    BY <1>2, <1>13, <2>1, PartOfList
  <2>3. l - 1 + 1 = l /\ \A i \in 1 .. l : 1 + i - 1 = i /\ i \in 1 .. Len(bytes)
    BY <2>1
  <2>4. QED
    BY <1>2, <2>2, <2>3
<1>15. from + l <= Len(Log) /\ (l >= 4 \/ from + l = Len(Log)) /\ (from < Len(Log) => l >= 1) /\ l \in Nat
  BY <1>2, <1>3, <1>4, <1>6, <1>12
<1>16. /\ IsSequence(chunk) /\ Len(chunk) \in 0 .. Len(part) /\ (Len(part) >= 1 => Len(chunk) >= 1)
       /\ from + Len(chunk) < Len(Log) => Log[from + Len(chunk) + 1] # 0
  <2>1. /\ IsSequence(part) /\ from \in Nat /\ from + Len(part) <= Len(Log)
        /\ \A i \in 1 .. Len(part) : part[i] = Log[from + i]
        /\ Len(part) >= 4 \/ from + Len(part) = Len(Log)
    BY <1>4, <1>14, <1>15
  <2>2. chunk = ChunkLog(part, from)
    BY <1>10, <1>13
  <2>3. QED
    BY <2>1, <2>2, ChunkEnds, SMTT(20)
<1>17. QED
  BY <1>4, <1>14, <1>15, <1>16

\* The range of a log is shown, with its cursor, where there is room.
LEMMA LogIsShown ==
  ASSUME Sized, host \in Host, NEW chunk, IsSequence(chunk), NEW more \in BOOLEAN
  PROVE  /\ RenderLog(chunk, more) \in Seq(Blocks) /\ RenderLog(chunk, more) # <<>>
         /\ Roomy => 2 \in Serialize(RenderLog(chunk, more)).kept
<1>1. PICK e : e = TextBytes("envelope")
  OBVIOUS
<1>2. PICK f : f = TextBytes("facts")
  OBVIOUS
<1>3. PICK few : few = 1 + TruncationLines(more, TRUE, 0)
  OBVIOUS
<1>4. PICK breaks : breaks = 6 + Number(chunk, LAMBDA b : b = 5)
  OBVIOUS
<1>5. PICK text : text = TextBytes("log") + Len(chunk)
  OBVIOUS
<1>6. e \in Nat /\ f \in Nat /\ few \in 1 .. 5 /\ breaks \in Nat /\ text \in Nat /\ 1 \in Nat /\ few \in Nat
  <2>1. TruncationLines(more, TRUE, 0) \in 0 .. 4
    BY TruncationLinesAreFew
  <2>2. Number(chunk, LAMBDA b : b = 5) \in Nat
    <3>1. Number(chunk, LAMBDA b : b = 5) = Cardinality({i \in DOMAIN chunk : chunk[i] = 5})
      BY DEF Number
    <3>2. IsFiniteSet(DOMAIN chunk)
      <4>1. Len(chunk) \in Nat /\ DOMAIN chunk = 1 .. Len(chunk)
        BY IsList
      <4>2. IsFiniteSet(1 .. Len(chunk))
        BY <4>1, FS_Interval
      <4>3. QED
        BY <4>1, <4>2
    <3>3. IsFiniteSet({i \in DOMAIN chunk : chunk[i] = 5})
      BY <3>2, FS_Subset
    <3>4. QED
      BY <3>1, <3>3, FS_CardinalityType
  <2>3. TextBytes("log") \in Nat /\ Len(chunk) \in Nat
    BY IsList DEF Sized
  <2>4. e \in Nat /\ f \in Nat
    BY <1>1, <1>2 DEF Sized
  <2>5. few \in 1 .. 5 /\ few \in Nat
    <3>1. PICK t : t = TruncationLines(more, TRUE, 0)
      OBVIOUS
    <3>2. t \in 0 .. 4 /\ few = 1 + t
      BY <1>3, <2>1, <3>1
    <3>3. QED
      BY <3>2
  <2>6. breaks \in Nat
    BY <1>4, <2>2
  <2>7. text \in Nat
    BY <1>5, <2>3
  <2>8. QED
    BY <2>4, <2>5, <2>6, <2>7
<1>7. PICK a : a = Block("envelope", 1, e)
  OBVIOUS
<1>8. PICK b : b = Block("facts", few, f)
  OBVIOUS
<1>9. PICK c : c = Block("sample", breaks, text)
  OBVIOUS
<1>10. /\ a \in Blocks /\ a.lines = 1 /\ a.bytes = e /\ a.priority = 0
       /\ b \in Blocks /\ b.lines = few /\ b.bytes = f /\ b.priority = 1
       /\ c \in Blocks /\ c.priority = 5
  <2>1. "envelope" \in Kinds /\ "facts" \in Kinds /\ "sample" \in Kinds
    BY DEF Kinds
  <2>2. a \in Blocks /\ a.lines = 1 /\ a.bytes = e /\ a.priority = 0
    BY <1>6, <1>7, <2>1, BlockIs, Priorities
  <2>3. b \in Blocks /\ b.lines = few /\ b.bytes = f /\ b.priority = 1
    BY <1>6, <1>8, <2>1, BlockIs, Priorities
  <2>4. c \in Blocks /\ c.priority = 5
    BY <1>6, <1>9, <2>1, BlockIs, Priorities
  <2>5. QED
    BY <2>2, <2>3, <2>4
<1>11. PICK document : document = RenderLog(chunk, more)
  OBVIOUS
<1>12. document = <<a, b, c>>
  BY <1>1, <1>2, <1>3, <1>4, <1>5, <1>7, <1>8, <1>9, <1>11, Zenon DEF RenderLog
<1>13. /\ document \in Seq(Blocks) /\ document # <<>> /\ Len(document) = 3 /\ DOMAIN document = {1, 2, 3}
       /\ document[1] = a /\ document[2] = b /\ document[3] = c
  BY <1>10, <1>12
<1>14. ASSUME Roomy PROVE 2 \in Serialize(document).kept
  <2>1. /\ Budget.lines > Limit.overheadLines /\ Budget.bytes >= Limit.envelope + 2 * Limit.overheadBytes
        /\ Budget.lines \in Nat /\ Budget.bytes \in Nat
    BY <1>14, PageBudgetIs
  <2>2. /\ Limit.envelope \in Nat /\ Limit.overheadBytes \in Nat /\ Limit.overheadLines \in Nat
        /\ Limit.overheadLines >= 13 /\ e + f + 2 * Limit.pageMax <= Limit.envelope + Limit.overheadBytes
        /\ Limit.pageMax \in Nat /\ Limit.noteBytes \in Nat /\ Limit.noteBytes <= Limit.overheadBytes
    BY <1>1, <1>2, InspectionAssumption, OutputAssumption
  <2>3. 1 + few + 1 + 2 * 1 <= Budget.lines /\ e + f + 1 * Limit.noteBytes <= Budget.bytes
    BY <1>6, <2>1, <2>2
  <2>4. /\ \A i \in DOMAIN document \ {1} : Precedes(document, 1, i)
        /\ \A i \in DOMAIN document \ {1, 2} : Precedes(document, 2, i)
    BY <1>10, <1>13 DEF Precedes
  <2>5. document[1].lines > 0 /\ document[2].lines > 0
    BY <1>6, <1>10, <1>13
  <2>6. /\ document[1].lines + document[2].lines + 1 + 2 * 1 <= Budget.lines
        /\ document[1].bytes + document[2].bytes + 1 * Limit.noteBytes <= Budget.bytes
    BY <1>10, <1>13, <2>3
  <2>7. {1, 2} \subseteq Serialize(document).kept
    <3>1. 1 = IF Len(document) = 2 THEN 0 ELSE 1
      BY <1>13
    <3>2. 1 \in DOMAIN document /\ 2 \in DOMAIN document /\ 1 # 2
      BY <1>13
    <3>3. QED
      BY <1>13, <2>4, <2>5, <2>6, <3>1, <3>2, TwoAreKept
  <2>8. QED
    BY <2>7
<1>15. QED
  BY <1>11, <1>13, <1>14

\* A section is a block, of the diagnostics.
LEMMA SectionIs ==
  ASSUME Sized, NEW records, IsSequence(records), NEW cap \in Nat, NEW each \in Nat
  PROVE  Section(records, cap, each) \in Blocks /\ Section(records, cap, each).priority = 3
<1>1. PICK shown : shown = SubSeq(records, 1, Min({Len(records), cap}))
  OBVIOUS
<1>2. IsSequence(shown) /\ Len(shown) \in Nat /\ DOMAIN shown = 1 .. Len(shown)
  <2>1. PICK m : m = Min({Len(records), cap})
    OBVIOUS
  <2>2. Len(records) \in Nat
    BY IsList
  <2>3. m \in {Len(records), cap} /\ m <= Len(records)
    BY <2>1, <2>2, MinOfTwo, Len(records) \in Int, cap \in Int
  <2>4. 1 \in 1 .. Len(records) + 1 /\ m \in 1 - 1 .. Len(records)
    BY <2>2, <2>3
  <2>5. IsSequence(shown)
    BY <1>1, <2>1, <2>4, PartOfList
  <2>6. QED
    BY <2>5, IsList
<1>3. PICK sizes : sizes = [i \in DOMAIN shown |-> Bytes(shown[i])]
  OBVIOUS
<1>4. Total(sizes) \in Nat
  <2>1. DOMAIN sizes = 1 .. Len(shown) /\ \A i \in 1 .. Len(shown) : sizes[i] \in Nat
    BY <1>2, <1>3 DEF Sized
  <2>2. QED
    BY <1>2, <2>1, ListTotal
<1>5. PICK lines : lines = 1 + each * Len(shown)
  OBVIOUS
<1>6. PICK bytes : bytes = TextBytes("section") + Total(sizes)
  OBVIOUS
<1>7. lines \in Nat /\ bytes \in Nat /\ 0 \in Nat /\ "diagnostics" \in Kinds
  <2>1. each * Len(shown) \in Nat
    BY <1>2
  <2>2. TextBytes("section") \in Nat
    BY DEF Sized
  <2>3. QED
    BY <1>4, <1>5, <1>6, <2>1, <2>2 DEF Kinds
<1>8. Section(records, cap, each) = IF records = <<>> THEN Block("diagnostics", 0, 0) ELSE Block("diagnostics", lines, bytes)
  BY <1>1, <1>3, <1>5, <1>6, Zenon DEF Section
<1>9. /\ Block("diagnostics", 0, 0) \in Blocks /\ Block("diagnostics", 0, 0).priority = 3
  BY <1>7, BlockIs, Priorities
<1>10. Block("diagnostics", lines, bytes) \in Blocks /\ Block("diagnostics", lines, bytes).priority = 3
  BY <1>7, BlockIs, Priorities
<1>11. QED
  BY <1>8, <1>9, <1>10

-----------------------------------------------------------------------------
(* The lists of a report. *)

\* A finite set has finitely many images.
LEMMA ImageIsFinite ==
  ASSUME NEW S, IsFiniteSet(S), NEW f, DOMAIN f = S
  PROVE  IsFiniteSet({f[x] : x \in S})
<1>1. PICK T : T = {f[x] : x \in S}
  OBVIOUS
<1>2. PICK g : g = [x \in S |-> f[x]]
  OBVIOUS
<1>3. g \in [S -> T] /\ \A t \in T : \E s \in S : g[s] = t
  BY <1>1, <1>2
<1>4. g \in Surjection(S, T)
  BY <1>3 DEF Surjection
<1>5. IsFiniteSet(T)
  BY <1>4, FS_Surjection, Zenon
<1>6. QED
  BY <1>1, <1>5

\* The places of what is said of the tests, in their order.
LEMMA OrderIsListed ==
  ASSUME NEW places, IsFiniteSet(places)
  PROVE  IsSequence(InOrder(places)) /\ Len(InOrder(places)) = Cardinality(places)
<1>1. Cardinality(places) \in Nat
  BY FS_CardinalityType
<1>2. PICK s : s = InOrder(places)
  OBVIOUS
<1>3. s = [n \in 1 .. Cardinality(places) |-> s[n]]
  <2> DEFINE entry(n) == CHOOSE p \in places : Cardinality({q \in places : Earlier(q, p)}) = n - 1
  <2>1. s = [n \in 1 .. Cardinality(places) |-> entry(n)]
    BY <1>2 DEF InOrder
  <2> HIDE DEF entry
  <2>2. QED
    BY <2>1
<1>4. IsSequence(s) /\ Len(s) = Cardinality(places)
  BY <1>1, <1>3, ListIs
<1>5. QED
  BY <1>2, <1>4

\* The failures of tests are a list, and those reported are one.
LEMMA FailuresAreListed ==
  ASSUME NEW occurrences, IsSequence(occurrences), Countable(occurrences), NEW supplemental, IsSequence(supplemental)
  PROVE  IsSequence(BuildTestFailures(occurrences, supplemental))
<1>1. IsFiniteSet(DOMAIN occurrences) /\ IsFiniteSet(DOMAIN supplemental)
  <2>1. /\ Len(occurrences) \in Nat /\ DOMAIN occurrences = 1 .. Len(occurrences)
        /\ Len(supplemental) \in Nat /\ DOMAIN supplemental = 1 .. Len(supplemental)
    BY IsList
  <2>2. IsFiniteSet(1 .. Len(occurrences)) /\ IsFiniteSet(1 .. Len(supplemental))
    BY <2>1, FS_Interval
  <2>3. QED
    BY <2>1, <2>2
<1>2. PICK each : each = [i \in DOMAIN occurrences |-> {i} \X DOMAIN occurrences[i].failures]
  OBVIOUS
<1>3. \A i \in DOMAIN occurrences : IsFiniteSet(each[i])
  <2>1. SUFFICES ASSUME NEW i \in DOMAIN occurrences PROVE IsFiniteSet({i} \X DOMAIN occurrences[i].failures)
    BY <1>2
  <2>2. IsSequence(occurrences[i].failures)
    BY DEF Countable, ToSet
  <2>3. Len(occurrences[i].failures) \in Nat /\ DOMAIN occurrences[i].failures = 1 .. Len(occurrences[i].failures)
    BY <2>2, IsList
  <2>4. PICK n \in Nat : DOMAIN occurrences[i].failures = 1 .. n
    BY <2>3
  <2>5. IsFiniteSet(1 .. n)
    BY FS_Interval
  <2>6. IsFiniteSet({i})
    BY FS_Singleton
  <2>7. QED
    BY <2>4, <2>5, <2>6, FS_Product
<1> DEFINE all == {{i} \X DOMAIN occurrences[i].failures : i \in DOMAIN occurrences}
           besides == {Len(occurrences) + 1} \X {k \in DOMAIN supplemental : supplemental[k].text # NoName}
           said == (UNION all) \cup besides
<1>4. IsFiniteSet(UNION all)
  <2>1. IsFiniteSet(all)
    <3>1. DOMAIN each = DOMAIN occurrences /\ all = {each[i] : i \in DOMAIN occurrences}
      BY <1>2
    <3>2. QED
      BY <1>1, <3>1, ImageIsFinite
  <2>2. \A T \in all : IsFiniteSet(T)
    BY <1>2, <1>3
  <2> HIDE DEF all
  <2>3. QED
    BY <2>1, <2>2, FS_UNION
<1>5. IsFiniteSet(besides)
  <2>1. PICK told : told = {k \in DOMAIN supplemental : supplemental[k].text # NoName}
    OBVIOUS
  <2>2. IsFiniteSet(told) /\ IsFiniteSet({Len(occurrences) + 1})
    BY <1>1, <2>1, FS_Subset, FS_Singleton
  <2>3. QED
    BY <2>1, <2>2, FS_Product
<1>8. IsFiniteSet(said)
  <2> HIDE DEF all, besides
  <2>1. QED
    BY <1>4, <1>5, FS_Union, Zenon
<1>10. \E places \in SUBSET said : DOMAIN BuildTestFailures(occurrences, supplemental) = DOMAIN InOrder(places)
  BY Zenon DEF BuildTestFailures
<1> HIDE DEF said
<1>9. ASSUME NEW places \in SUBSET said
      PROVE  IsSequence(InOrder(places)) /\ Len(InOrder(places)) \in Nat
                /\ DOMAIN InOrder(places) = 1 .. Len(InOrder(places))
  <2>1. IsFiniteSet(places)
    BY <1>8, FS_Subset
  <2>2. QED
    BY <2>1, OrderIsListed, IsList
<1>11. PICK list : list = BuildTestFailures(occurrences, supplemental)
  OBVIOUS
<1>12. PICK n \in Nat : DOMAIN list = 1 .. n
  BY <1>9, <1>10, <1>11
<1>13. list = [i \in DOMAIN list |-> list[i]]
  BY <1>11, Zenon DEF BuildTestFailures
<1>14. list = [i \in 1 .. n |-> list[i]]
  BY <1>12, <1>13
<1>15. IsSequence(list)
  BY <1>14, ListIs
<1>16. QED
  BY <1>11, <1>15

\* Each selection has an attestation.
LEMMA AttestationsAreListed ==
  ASSUME NEW scope, IsFiniteSet(scope.tests), NEW occurrences, NEW reached, NEW unnameable
  PROVE  IsSequence(AttestScope(scope, occurrences, reached, unnameable).attestations)
<1>1. PICK order : order = SetToSeq(scope.tests)
  OBVIOUS
<1>2. PICK n \in Nat : DOMAIN order = 1 .. n
  <2>1. Cardinality(scope.tests) \in Nat
    BY FS_CardinalityType
  <2>2. DOMAIN order = 1 .. Cardinality(scope.tests)
    BY <1>1, SetIsListed
  <2>3. QED
    BY <2>1, <2>2
<1>3. PICK list : list = AttestScope(scope, occurrences, reached, unnameable).attestations
  OBVIOUS
<1>4. DOMAIN list = DOMAIN order /\ list = [i \in DOMAIN list |-> list[i]]
  BY <1>1, <1>3 DEF AttestScope
<1>5. list = [i \in 1 .. n |-> list[i]]
  BY <1>2, <1>4
<1>6. IsSequence(list)
  BY <1>5, ListIs
<1>7. QED
  BY <1>3, <1>6

\* What is published are lists.
LEMMA ReportIsListed ==
  ASSUME InterpretationInv, pc = "published"
  PROVE  /\ IsSequence(report.index.occurrences) /\ Countable(report.index.occurrences)
         /\ IsSequence(report.index.attestations) /\ IsSequence(report.index.buildErrors)
         /\ IsSequence(report.index.testFailures) /\ IsSequence(ReportedFailures(report.index))
         /\ report.verdict.outcome \in
              {"none", "passed", "testFailed", "buildFailed", "infrastructureFailed", "cancelled", "timedOut"}
<1>1. PICK f : Sound(f) /\ report = Report(f)
  BY DEF InterpretationInv
<1>2. request \in Request /\ IsFiniteSet(request.scope.tests)
  BY RequestAssumption DEF InterpretationInv
<1>3. /\ IsSequence(f.occurrences) /\ Countable(f.occurrences) /\ IsSequence(f.errors) /\ IsSequence(f.supplemental)
  BY <1>1 DEF Sound
<1>4. /\ report.index.occurrences = f.occurrences /\ report.index.buildErrors = f.errors
      /\ report.index.attestations
           = AttestScope(request.scope, f.occurrences, f.reached, f.unnameable).attestations
      /\ report.index.testFailures = BuildTestFailures(f.occurrences, f.supplemental)
  BY <1>1 DEF Report, Index
<1>5. IsSequence(report.index.attestations)
  BY <1>2, <1>4, AttestationsAreListed
<1>6. IsSequence(report.index.testFailures)
  BY <1>3, <1>4, FailuresAreListed
<1>7. IsSequence(ReportedFailures(report.index))
  BY <1>6, KeepingIsList DEF ReportedFailures
<1>8. InterpretationTypeOK
  BY InterpretationIsTyped
<1>9. QED
  BY <1>3, <1>4, <1>5, <1>6, <1>7, <1>8 DEF InterpretationTypeOK

\* The tests that failed are some of the occurrences.
LEMMA FailedTestsAreFew ==
  ASSUME NEW index, IsSequence(index.occurrences)
  PROVE  IsFiniteSet(DOMAIN FailedTestsOf(index))
<1>1. PICK failed : failed = {i \in DOMAIN index.occurrences : index.occurrences[i].status = "failed"}
  OBVIOUS
<1>2. PICK name : name = [i \in failed |-> Canonical(index.occurrences[i].identity)]
  OBVIOUS
<1>3. IsFiniteSet(failed)
  <2>1. Len(index.occurrences) \in Nat /\ DOMAIN index.occurrences = 1 .. Len(index.occurrences)
    BY IsList
  <2>2. IsFiniteSet(1 .. Len(index.occurrences))
    BY <2>1, FS_Interval
  <2>3. QED
    BY <1>1, <2>1, <2>2, FS_Subset
<1>4. DOMAIN name = failed
  BY <1>2
<1>5. IsFiniteSet({name[i] : i \in failed})
  BY <1>3, <1>4, ImageIsFinite
<1>6. DOMAIN FailedTestsOf(index) = {name[i] : i \in failed}
  BY <1>1, <1>2 DEF FailedTestsOf
<1>7. QED
  BY <1>5, <1>6

\* A block of another priority, and one with more lines, is a block.
LEMMA BlockChanged ==
  ASSUME NEW block \in Blocks, NEW more \in Nat
  PROVE  /\ [block EXCEPT !.lines = @ + more] \in Blocks
         /\ [block EXCEPT !.lines = @ + more].priority = block.priority
         /\ [block EXCEPT !.priority = PRIORITY.sample] \in Blocks
         /\ [block EXCEPT !.priority = PRIORITY.sample].priority = 5
<1>1. PRIORITY.sample = 5
  BY DEF PRIORITY
<1>2. block.lines + more \in Nat /\ 5 \in Nat
  BY DEF Blocks
<1>3. QED
  BY <1>1, <1>2 DEF Blocks

\* What the summary says of the run is shown whole where there is room.
LEMMA SummaryIsShown ==
  ASSUME Sized, host \in Host, InterpretationInv, pc = "published"
  PROVE  /\ RenderTestRun \in Seq(Blocks) /\ RenderTestRun # <<>>
         /\ Roomy => {1, 3} \subseteq Serialize(RenderTestRun).kept /\ ~Serialize(RenderTestRun).cut
<1>1. PICK index : index = report.index
  OBVIOUS
<1>2. /\ IsSequence(index.occurrences) /\ IsSequence(index.attestations) /\ IsSequence(index.buildErrors)
      /\ IsSequence(ReportedFailures(index))
  BY <1>1, ReportIsListed
<1>3. PICK failed : failed = SetToSeq({[canonical |-> n] : n \in DOMAIN FailedTestsOf(index)})
  OBVIOUS
<1>4. IsSequence(failed)
  <2>1. PICK names : names = DOMAIN FailedTestsOf(index)
    OBVIOUS
  <2>2. PICK record : record = [n \in names |-> [canonical |-> n]]
    OBVIOUS
  <2>3. IsFiniteSet(names) /\ DOMAIN record = names
    BY <1>2, <2>1, <2>2, FailedTestsAreFew
  <2>4. IsFiniteSet({record[n] : n \in names})
    BY <2>3, ImageIsFinite
  <2>5. {record[n] : n \in names} = {[canonical |-> n] : n \in names}
    BY <2>2
  <2>6. IsSequence(SetToSeq({[canonical |-> n] : n \in names}))
    BY <2>4, <2>5, SetIsListed
  <2>7. QED
    BY <1>3, <2>1, <2>6
<1>5. PICK rest : rest = IF Len(failed) > Limit.failedTests THEN 1 ELSE 0
  OBVIOUS
<1>6. rest \in Nat
  BY <1>5
<1>7. PICK identities : identities = [i \in DOMAIN index.occurrences |-> index.occurrences[i].identity]
  OBVIOUS
<1>8. IsSequence(identities)
  <2>1. Len(index.occurrences) \in Nat /\ DOMAIN index.occurrences = 1 .. Len(index.occurrences)
    BY <1>2, IsList
  <2>2. PICK n \in Nat : DOMAIN index.occurrences = 1 .. n
    BY <2>1
  <2>3. identities = [i \in 1 .. n |-> identities[i]]
    BY <1>7, <2>2
  <2>4. QED
    BY <2>3, ListIs
<1>9. PICK h : h = TextBytes("headline")
  OBVIOUS
<1>10. PICK r : r = TextBytes("resolved")
  OBVIOUS
<1>11. PICK why : why = IF ReasonLines = 0 THEN 0 ELSE TextBytes("reason")
  OBVIOUS
<1>12. PICK around : around = TextBytes("context")
  OBVIOUS
<1>13. h \in Nat /\ r \in Nat /\ why \in Nat /\ around \in Nat
  BY <1>9, <1>10, <1>11, <1>12 DEF Sized
<1>14. ReasonLines \in Nat
  BY DEF ReasonLines
<1>15. /\ {Limit.attestations, Limit.failedTests, Limit.testFailures, Limit.buildErrors, Limit.observedTests} \subseteq Nat
       /\ 1 \in Nat /\ 3 \in Nat /\ 7 \in Nat
  BY InspectionAssumption
<1>16. PICK a : a = Block("envelope", 3, h)
  OBVIOUS
<1>17. PICK b : b = Block("reason", ReasonLines, why)
  OBVIOUS
<1>18. PICK c : c = Block("facts", 7, r)
  OBVIOUS
<1>19. PICK d : d = Section(index.attestations, Limit.attestations, 1)
  OBVIOUS
<1>20. PICK e : e = [Section(failed, Limit.failedTests, 1) EXCEPT !.lines = @ + rest]
  OBVIOUS
<1>21. PICK f : f = Section(ReportedFailures(index), Limit.testFailures, 3)
  OBVIOUS
<1>22. PICK g : g = Section(index.buildErrors, Limit.buildErrors, 3)
  OBVIOUS
<1>23. PICK i : i = Block("context", 3, around)
  OBVIOUS
<1>24. PICK j : j = [Section(identities, Limit.observedTests, 1) EXCEPT !.priority = PRIORITY.sample]
  OBVIOUS
<1>25. /\ a \in Blocks /\ a.lines = 3 /\ a.bytes = h /\ a.priority = 0
       /\ b \in Blocks /\ b.priority = 2
       /\ c \in Blocks /\ c.lines = 7 /\ c.bytes = r /\ c.priority = 1
       /\ i \in Blocks /\ i.priority = 4
  <2>1. "envelope" \in Kinds /\ "facts" \in Kinds /\ "reason" \in Kinds /\ "context" \in Kinds
    BY DEF Kinds
  <2>2. a \in Blocks /\ a.lines = 3 /\ a.bytes = h /\ a.priority = 0
    <3>1. PICK n : n = 3
      OBVIOUS
    <3>2. a = Block("envelope", n, h) /\ n \in Nat
      BY <1>16, <3>1
    <3>3. a \in Blocks /\ a.lines = n /\ a.bytes = h /\ a.priority = PRIORITY["envelope"]
      BY <1>13, <2>1, <3>2, BlockIs
    <3>4. QED
      BY <3>1, <3>3, Priorities
  <2>3. b \in Blocks /\ b.priority = 2
    BY <1>13, <1>14, <1>17, <2>1, BlockIs, Priorities
  <2>4. c \in Blocks /\ c.lines = 7 /\ c.bytes = r /\ c.priority = 1
    <3>1. PICK n : n = 7
      OBVIOUS
    <3>2. c = Block("facts", n, r) /\ n \in Nat
      BY <1>18, <3>1
    <3>3. c \in Blocks /\ c.lines = n /\ c.bytes = r /\ c.priority = PRIORITY["facts"]
      BY <1>13, <2>1, <3>2, BlockIs
    <3>4. QED
      BY <3>1, <3>3, Priorities
  <2>5. i \in Blocks /\ i.priority = 4
    <3>1. PICK n : n = 3
      OBVIOUS
    <3>2. i = Block("context", n, around) /\ n \in Nat
      BY <1>23, <3>1
    <3>3. i \in Blocks /\ i.lines = n /\ i.bytes = around /\ i.priority = PRIORITY["context"]
      BY <1>13, <2>1, <3>2, BlockIs
    <3>4. QED
      BY <3>1, <3>3, Priorities
  <2>6. QED
    BY <2>2, <2>3, <2>4, <2>5
<1>26. d \in Blocks /\ d.priority = 3
  BY <1>2, <1>15, <1>19, SectionIs
<1>27. e \in Blocks /\ e.priority = 3
  <2>1. PICK s : s = Section(failed, Limit.failedTests, 1)
    OBVIOUS
  <2>2. s \in Blocks /\ s.priority = 3
    BY <1>4, <1>15, <2>1, SectionIs
  <2>3. e = [s EXCEPT !.lines = @ + rest]
    BY <1>20, <2>1
  <2>4. QED
    BY <1>6, <2>2, <2>3, BlockChanged
<1>28. f \in Blocks /\ f.priority = 3
  BY <1>2, <1>15, <1>21, SectionIs
<1>29. g \in Blocks /\ g.priority = 3
  BY <1>2, <1>15, <1>22, SectionIs
<1>30. j \in Blocks /\ j.priority = 5
  <2>1. PICK s : s = Section(identities, Limit.observedTests, 1)
    OBVIOUS
  <2>2. s \in Blocks /\ s.priority = 3
    BY <1>8, <1>15, <2>1, SectionIs
  <2>3. j = [s EXCEPT !.priority = PRIORITY.sample]
    BY <1>24, <2>1
  <2>4. QED
    BY <2>2, <2>3, BlockChanged
<1>31. PICK document : document = RenderTestRun
  OBVIOUS
<1>32. document = <<a, b, c, d, e, f, g, i, j>>
  BY <1>1, <1>3, <1>5, <1>7, <1>9, <1>10, <1>11, <1>12, <1>16, <1>17, <1>18, <1>19, <1>20, <1>21, <1>22, <1>23,
     <1>24, <1>31, Zenon DEF RenderTestRun
<1>33. /\ document \in Seq(Blocks) /\ document # <<>> /\ Len(document) = 9 /\ DOMAIN document = 1 .. 9
       /\ document[1] = a /\ document[3] = c
  BY <1>25, <1>26, <1>27, <1>28, <1>29, <1>30, <1>32
<1>34. ASSUME Roomy PROVE {1, 3} \subseteq Serialize(document).kept /\ ~Serialize(document).cut
  <2>1. /\ Budget.lines > Limit.overheadLines /\ Budget.bytes >= Limit.envelope + 2 * Limit.overheadBytes
        /\ Budget.lines \in Nat /\ Budget.bytes \in Nat
    BY <1>34, PageBudgetIs
  <2>2. /\ Limit.envelope \in Nat /\ Limit.overheadBytes \in Nat /\ Limit.overheadLines \in Nat
        /\ Limit.overheadLines >= 13 /\ h + r <= Limit.envelope + Limit.overheadBytes
        /\ Limit.noteBytes \in Nat /\ Limit.noteBytes <= Limit.overheadBytes
    BY <1>9, <1>10, InspectionAssumption, OutputAssumption
  <2>3. 3 + 7 + 1 + 2 * 1 <= Budget.lines /\ h + r + 1 * Limit.noteBytes <= Budget.bytes
    BY <1>13, <2>1, <2>2
  <2>4. ASSUME NEW k \in DOMAIN document \ {1, 3} PROVE document[k].priority >= 2 /\ document[k].priority \in Nat
    BY <1>25, <1>26, <1>27, <1>28, <1>29, <1>30, <1>32, <1>33
  <2>5. /\ \A k \in DOMAIN document \ {1} : Precedes(document, 1, k)
        /\ \A k \in DOMAIN document \ {1, 3} : Precedes(document, 3, k)
    BY <1>25, <1>33, <2>4 DEF Precedes
  <2>6. 1 \in DOMAIN document /\ 3 \in DOMAIN document /\ 1 # 3 /\ 1 = IF Len(document) = 2 THEN 0 ELSE 1
    BY <1>33
  <2>7. document[1].lines > 0 /\ document[3].lines > 0
    BY <1>25, <1>33
  <2>8. /\ document[1].lines + document[3].lines + 1 + 2 * 1 <= Budget.lines
        /\ document[1].bytes + document[3].bytes + 1 * Limit.noteBytes <= Budget.bytes
    BY <1>25, <1>33, <2>3
  <2>9. QED
    BY <1>33, <2>5, <2>6, <2>7, <2>8, TwoAreKept
<1>35. QED
  BY <1>31, <1>33, <1>34

-----------------------------------------------------------------------------
(* How much is kept of a list. *)

\* What is not so for no number, and never begins to be, is so for none.
LEMMA NoneIsFirst ==
  ASSUME NEW top \in Nat, NEW wrong, wrong \subseteq 0 .. top, 0 \notin wrong,
         \A n \in 1 .. top : n - 1 \notin wrong => n \notin wrong
  PROVE  wrong = {}
<1>1. SUFFICES ASSUME wrong # {} PROVE FALSE
  OBVIOUS
<1>2. PICK n \in wrong : \A j \in wrong : n <= j
  <2>1. wrong \subseteq Nat
    OBVIOUS
  <2>2. QED
    BY <1>1, <2>1, LeastExists
<1>3. n \in 1 .. top /\ n - 1 \in 0 .. top /\ ~(n <= n - 1)
  OBVIOUS
<1>4. n - 1 \notin wrong
  BY <1>2, <1>3
<1>5. QED
  BY <1>2, <1>3, <1>4

\* As many elements are kept as there are in the set, and where all are, they
\* are the list.
LEMMA KeepingCounts ==
  ASSUME NEW s, IsSequence(s), NEW kept
  PROVE  /\ Len(Keeping(s, kept)) = Cardinality({i \in DOMAIN s : s[i] \in kept})
         /\ (\A i \in DOMAIN s : s[i] \in kept) => Keeping(s, kept) = s
<1>1. PICK f : Keeping(s, kept) = f[Len(s)] /\ Steps(f, s, kept)
  BY KeepingSteps, Zenon
<1>2. PICK top : top = Len(s)
  OBVIOUS
<1>3. top \in Nat /\ s \in Seq(ToSet(s)) /\ DOMAIN s = 1 .. top
  BY <1>2, IsList
<1>4. /\ Keeping(s, kept) = f[top] /\ f[0] = <<>>
      /\ \A n \in 1 .. top : f[n] = IF s[n] \in kept THEN Append(f[n - 1], s[n]) ELSE f[n - 1]
  BY <1>1, <1>2 DEF Steps
<1> DEFINE Of_(n) == {i \in 1 .. n : s[i] \in kept}
           Right(q, n) == /\ q \in Seq(ToSet(s)) /\ Len(q) = Cardinality(Of_(n)) /\ IsFiniteSet(Of_(n))
                          /\ Of_(n) = 1 .. n => Len(q) = n /\ \A i \in 1 .. n : q[i] = s[i]
           Wrong == {n \in 0 .. top : ~Right(f[n], n)}
<1>5. 0 \notin Wrong
  <2>1. Of_(0) = {}
    OBVIOUS
  <2> HIDE DEF Of_
  <2>2. Right(f[0], 0)
    BY <1>4, <2>1, FS_EmptySet
  <2>3. QED
    BY <2>2
<1>6. ASSUME NEW n \in 1 .. top, n - 1 \notin Wrong PROVE n \notin Wrong
  <2>1. n - 1 \in 0 .. top /\ Right(f[n - 1], n - 1)
    <3>1. n - 1 \in 0 .. top
      BY <1>3
    <3> HIDE DEF Right
    <3>2. QED
      BY <1>6, <3>1
  <2>2. PICK q : q = f[n - 1]
    OBVIOUS
  <2>3. PICK m : m = n - 1
    OBVIOUS
  <2>4. m \in Nat /\ n = m + 1 /\ n \notin Of_(m) /\ s[n] \in ToSet(s)
    BY <1>3, <2>3 DEF ToSet
  <2>5. /\ q \in Seq(ToSet(s)) /\ Len(q) = Cardinality(Of_(m)) /\ IsFiniteSet(Of_(m))
        /\ Of_(m) = 1 .. m => Len(q) = m /\ \A i \in 1 .. m : q[i] = s[i]
    BY <2>1, <2>2, <2>3
  <2>6. CASE s[n] \in kept
    <3>1. PICK p : p = Append(q, s[n])
      OBVIOUS
    <3>2. f[n] = p
      BY <1>4, <2>2, <2>6, <3>1
    <3>3. Of_(n) = Of_(m) \cup {n}
      BY <2>4, <2>6
    <3>4. Of_(n) = 1 .. n => Of_(m) = 1 .. m
      BY <2>4
    <3> HIDE DEF Of_
    <3>5. IsFiniteSet(Of_(n)) /\ Cardinality(Of_(n)) = Cardinality(Of_(m)) + 1
      BY <2>4, <2>5, <3>3, FS_AddElement
    <3>6. /\ p \in Seq(ToSet(s)) /\ Len(p) = Len(q) + 1 /\ p[Len(q) + 1] = s[n]
          /\ Len(q) \in Nat /\ \A i \in 1 .. Len(q) : p[i] = q[i]
      BY <2>4, <2>5, <3>1
    <3>7. ASSUME Of_(n) = 1 .. n PROVE Len(p) = n /\ \A i \in 1 .. n : p[i] = s[i]
      <4>1. Len(q) = m /\ \A i \in 1 .. m : q[i] = s[i]
        BY <2>5, <3>4, <3>7
      <4>2. QED
        BY <2>4, <3>6, <4>1
    <3>8. Right(p, n)
      BY <2>5, <3>5, <3>6, <3>7
    <3>9. QED
      BY <3>2, <3>8
  <2>7. CASE s[n] \notin kept
    <3>1. f[n] = q
      BY <1>4, <2>2, <2>7
    <3>2. Of_(n) = Of_(m) /\ n \notin Of_(n) /\ n \in 1 .. n
      BY <2>4, <2>7
    <3> HIDE DEF Of_
    <3>3. Of_(n) # 1 .. n
      BY <3>2
    <3>4. Right(q, n)
      BY <2>5, <3>2, <3>3
    <3>5. QED
      BY <3>1, <3>4
  <2>8. QED
    BY <2>6, <2>7
<1>7. Wrong = {}
  <2>1. Wrong \subseteq 0 .. top
    OBVIOUS
  <2> HIDE DEF Wrong
  <2>2. QED
    BY <1>3, <1>5, <1>6, <2>1, NoneIsFirst
<1>8. Right(f[top], top)
  <2> HIDE DEF Right
  <2>1. top \in 0 .. top
    BY <1>3
  <2>2. QED
    BY <1>7, <2>1
<1>9. PICK q : q = Keeping(s, kept)
  OBVIOUS
<1>10. Of_(top) = {i \in DOMAIN s : s[i] \in kept}
  BY <1>3
<1>11. Len(q) = Cardinality(Of_(top))
  BY <1>4, <1>8, <1>9
<1>12. ASSUME \A i \in DOMAIN s : s[i] \in kept PROVE q = s
  <2>1. Of_(top) = 1 .. top
    BY <1>3, <1>12
  <2> HIDE DEF Of_
  <2>2. q \in Seq(ToSet(s)) /\ Len(q) = top /\ \A i \in 1 .. top : q[i] = s[i]
    BY <1>4, <1>8, <1>9, <2>1
  <2>3. QED
    BY <1>2, <1>3, <2>2
<1>13. QED
  BY <1>9, <1>10, <1>11, <1>12

\* Where as many are kept as there are, nothing is left out.
LEMMA KeepingAll ==
  ASSUME NEW s, IsSequence(s), NEW kept, Len(Keeping(s, kept)) >= Len(s)
  PROVE  Keeping(s, kept) = s /\ \A i \in DOMAIN s : s[i] \in kept
<1>1. PICK those : those = {i \in DOMAIN s : s[i] \in kept}
  OBVIOUS
<1>2. PICK n : n = Len(s)
  OBVIOUS
<1>3. n \in Nat /\ DOMAIN s = 1 .. n
  BY <1>2, IsList
<1>4. IsFiniteSet(1 .. n) /\ Cardinality(1 .. n) = n
  BY <1>3, FS_Interval
<1>5. those \in SUBSET (1 .. n)
  BY <1>1, <1>3
<1>6. Cardinality(those) <= n /\ (Cardinality(those) = n => those = 1 .. n) /\ Cardinality(those) \in Nat
  <2>1. PICK all : all = 1 .. n
    OBVIOUS
  <2>2. IsFiniteSet(all) /\ Cardinality(all) = n /\ those \in SUBSET all
    BY <1>4, <1>5, <2>1
  <2>3. /\ IsFiniteSet(those) /\ Cardinality(those) <= Cardinality(all)
        /\ Cardinality(all) = Cardinality(those) => all = those
    BY <2>2, FS_Subset
  <2>4. Cardinality(those) \in Nat
    BY <2>3, FS_CardinalityType
  <2>5. QED
    BY <2>1, <2>2, <2>3, <2>4
<1>7. Cardinality(those) = Len(Keeping(s, kept))
  BY <1>1, KeepingCounts
<1>8. those = 1 .. n
  BY <1>2, <1>3, <1>6, <1>7
<1>9. \A i \in DOMAIN s : s[i] \in kept
  BY <1>1, <1>3, <1>8
<1>10. QED
  BY <1>9, KeepingCounts

-----------------------------------------------------------------------------
(* Caps. *)

\* A list of numbers.
LEMMA NumbersAre ==
  ASSUME NEW n \in Nat, NEW s, s = [i \in 1 .. n |-> s[i]], \A i \in 1 .. n : s[i] \in Nat
  PROVE  s \in Seq(Nat) /\ Len(s) = n
<1>1. s \in [1 .. n -> Nat]
  OBVIOUS
<1>2. QED
  BY <1>1

\* A number that is not cut is the number.
LEMMA CapToIs ==
  ASSUME NEW length \in Nat, NEW cap \in Nat
  PROVE  /\ CapTo(length, cap).value \in Nat /\ CapTo(length, cap).truncated = (length > cap)
         /\ CapTo(length, cap).truncated \in BOOLEAN
         /\ ~(length > cap) => CapTo(length, cap).value = length
         /\ ~CapTo(length, cap).truncated => CapTo(length, cap).value = length
<1>1. PICK m : m = Min({length, cap})
  OBVIOUS
<1>2. m \in {length, cap} /\ m <= length /\ m <= cap
  BY <1>1, MinOfTwo, length \in Int, cap \in Int
<1>3. CapTo(length, cap).value = m /\ CapTo(length, cap).truncated = (length > cap)
  BY <1>1 DEF CapTo
<1>4. CapTo(length, cap).truncated \in BOOLEAN
  BY <1>3
<1>5. ~(length > cap) => m = length
  BY <1>2
<1>6. ~CapTo(length, cap).truncated => m = length
  BY <1>3, <1>5
<1>7. QED
  BY <1>2, <1>3, <1>4, <1>5, <1>6, Zenon

\* A list that is not cut is the list.
LEMMA CapCollectionIs ==
  ASSUME NEW S, NEW items \in Seq(S), NEW cap \in Nat
  PROVE  /\ CapCollection(items, cap).value \in Seq(S) /\ CapCollection(items, cap).truncated \in BOOLEAN
         /\ ~CapCollection(items, cap).truncated => CapCollection(items, cap).value = items
<1>1. PICK n : n = Len(items)
  OBVIOUS
<1>2. PICK m : m = Min({n, cap})
  OBVIOUS
<1>3. n \in Nat /\ m \in {n, cap} /\ m <= n /\ m <= cap
  <2>1. n \in Nat
    BY <1>1
  <2>2. QED
    BY <1>2, <2>1, MinOfTwo, n \in Int, cap \in Int
<1>5. SubSeq(items, 1, m) \in Seq(S)
  <2>1. \A i \in 1 .. m : items[i] \in S
    BY <1>1, <1>3
  <2>2. QED
    BY <1>3, <2>1, SubSeqProperties
<1>6. ~(n > cap) => SubSeq(items, 1, m) = items
  <2>1. ~(n > cap) => m = n
    BY <1>3
  <2>2. SubSeq(items, 1, n) = items
    BY <1>1, SubSeqFull
  <2>3. QED
    BY <2>1, <2>2
<1>7. PICK c : c = CapCollection(items, cap)
  OBVIOUS
<1>8. c = [value |-> SubSeq(items, 1, m), truncated |-> n > cap]
  BY <1>1, <1>2, <1>7 DEF CapCollection
<1>9. c.value = SubSeq(items, 1, m) /\ (c.truncated <=> n > cap)
  BY <1>8
<1>10. c.truncated \in BOOLEAN
  BY <1>8
<1>11. QED
  BY <1>5, <1>6, <1>7, <1>9, <1>10

-----------------------------------------------------------------------------
(* Views. *)

Item == [list : {"stackFrames", "activities", "attachments", "attempts", "diagnostics"}, size : Nat]
View == [fixed : Nat, message : Nat, items : Seq(Item)]

\* Every size makes an item.
LEMMA OfIs ==
  ASSUME NEW list \in {"stackFrames", "activities", "attachments", "attempts", "diagnostics"}, NEW sizes \in Seq(Nat)
  PROVE  Of(list, sizes) \in Seq(Item)
<1>1. PICK n \in Nat : DOMAIN sizes = 1 .. n /\ \A i \in 1 .. n : sizes[i] \in Nat
  OBVIOUS
<1>2. PICK s : s = Of(list, sizes)
  OBVIOUS
<1>3. s = [i \in 1 .. n |-> [list |-> list, size |-> sizes[i]]]
  BY <1>1, <1>2 DEF Of
<1>4. s \in [1 .. n -> Item]
  BY <1>1, <1>3 DEF Item
<1>5. s \in Seq(Item)
  BY <1>4
<1>6. QED
  BY <1>2, <1>5

\* The size of a view is a number.
LEMMA ViewHasSize ==
  ASSUME NEW view \in View
  PROVE  ViewBytes(view) \in Nat
<1>1. PICK sizes : sizes = [i \in DOMAIN view.items |-> view.items[i].size]
  OBVIOUS
<1>2. PICK n \in Nat : DOMAIN view.items = 1 .. n /\ \A i \in 1 .. n : view.items[i] \in Item
  BY DEF View
<1>3. DOMAIN sizes = 1 .. n /\ \A i \in 1 .. n : sizes[i] \in Nat
  BY <1>1, <1>2 DEF Item
<1>4. Total(sizes) \in Nat
  BY <1>3, ListTotal
<1>5. ViewBytes(view) = view.fixed + view.message + Total(sizes)
  BY <1>1 DEF ViewBytes
<1>6. QED
  BY <1>4, <1>5 DEF View

\* A view that is fitted to the cap fits, and is the view where no mark says
\* otherwise; or it is omitted.
LEMMA FitIs ==
  ASSUME NEW view \in View, NEW truncation, truncation.field \in BOOLEAN, truncation.collection \in BOOLEAN,
         NEW fitted, fitted = Fit(view, truncation), NEW cut, cut = fitted.truncation
  PROVE  /\ cut.omitted \in {0, 1} /\ {cut.field, cut.collection, cut.response} \subseteq BOOLEAN
         /\ cut.omitted = 0 => fitted.view \in View /\ FitsCap(fitted.view)
         /\ cut.omitted = 0 /\ ~cut.field /\ ~cut.collection =>
              fitted.view = view /\ ~truncation.field /\ ~truncation.collection
<1> DEFINE shed(k) == [view EXCEPT !.items = SubSeq(@, 1, Len(@) - k)]
<1>1. PICK n : n = Len(view.items)
  OBVIOUS
<1>2. PICK enough : enough = {k \in 0 .. n : FitsCap(shed(k))}
  OBVIOUS
<1>3. PICK bare : bare = shed(n)
  OBVIOUS
<1>4. PICK short : short = {c \in Halves(view.message) : FitsCap([bare EXCEPT !.message = c])}
  OBVIOUS
<1> DEFINE marks(field, collection, omitted) ==
             [field |-> truncation.field \/ field, collection |-> truncation.collection \/ collection,
              response |-> field \/ collection \/ omitted = 1, omitted |-> omitted]
<1>5. fitted = CASE enough # {} -> [view |-> shed(Min(enough)), truncation |-> marks(FALSE, Min(enough) > 0, 0)]
                 [] enough = {} /\ short # {} -> [view |-> [bare EXCEPT !.message = Max(short)],
                                                truncation |-> marks(TRUE, view.items # <<>>, 0)]
                 [] OTHER -> [view |-> NoView, truncation |-> marks(view.message > 1, view.items # <<>>, 1)]
  BY <1>1, <1>2, <1>3, <1>4, Zenon DEF Fit
<1>6. n \in Nat /\ view.items \in Seq(Item) /\ view.message \in Nat /\ view.fixed \in Nat
  BY <1>1 DEF View
<1>7. \A k \in 0 .. n : shed(k) \in View /\ shed(k).fixed = view.fixed /\ shed(k).message = view.message
  <2>1. SUFFICES ASSUME NEW k \in 0 .. n PROVE SubSeq(view.items, 1, n - k) \in Seq(Item)
    BY <1>1 DEF View
  <2>2. n - k \in Nat /\ \A i \in 1 .. n - k : view.items[i] \in Item
    BY <1>1, <1>6
  <2>3. QED
    BY <1>6, <2>2, SubSeqProperties
<1>8. shed(0) = view
  <2>1. SubSeq(view.items, 1, n - 0) = view.items
    <3>1. n - 0 = n
      BY <1>6
    <3>2. SubSeq(view.items, 1, n) = view.items
      BY <1>1, <1>6, SubSeqFull
    <3>3. QED
      BY <3>1, <3>2
  <2>2. QED
    BY <1>1, <2>1 DEF View
<1>9. ASSUME NEW field \in BOOLEAN, NEW collection \in BOOLEAN, NEW omitted \in {0, 1},
             NEW m, m = marks(field, collection, omitted)
      PROVE  /\ m.omitted = omitted /\ {m.field, m.collection, m.response} \subseteq BOOLEAN
             /\ ~m.field => ~truncation.field /\ ~field
             /\ ~m.collection => ~truncation.collection /\ ~collection
  BY <1>9
<1> HIDE DEF shed, marks
<1>10. CASE enough # {}
  <2>1. PICK k : k = Min(enough)
    OBVIOUS
  <2>2. k \in enough
    <3>1. enough \subseteq Nat
      BY <1>2
    <3>2. QED
      BY <1>10, <2>1, <3>1, MinIs
  <2>3. fitted = [view |-> shed(k), truncation |-> marks(FALSE, k > 0, 0)]
    BY <1>5, <1>10, <2>1, Zenon
  <2>4. fitted.view = shed(k) /\ cut = marks(FALSE, k > 0, 0)
    BY <2>3
  <2>5. k \in 0 .. n /\ FitsCap(shed(k)) /\ (k > 0) \in BOOLEAN
    BY <1>2, <2>2
  <2>6. /\ cut.omitted = 0 /\ {cut.field, cut.collection, cut.response} \subseteq BOOLEAN
        /\ ~cut.field => ~truncation.field
        /\ ~cut.collection => ~truncation.collection /\ ~(k > 0)
    <3>1. PICK more : more = (k > 0)
      OBVIOUS
    <3>2. more \in BOOLEAN /\ cut = marks(FALSE, more, 0) /\ FALSE \in BOOLEAN /\ 0 \in {0, 1}
      BY <2>4, <2>5, <3>1
    <3>3. QED
      BY <1>9, <3>1, <3>2, ZenonT(60)
  <2>7. fitted.view \in View /\ FitsCap(fitted.view)
    BY <1>7, <2>4, <2>5
  <2>8. ~(k > 0) => fitted.view = view
    <3>1. ~(k > 0) => k = 0
      BY <2>5
    <3>2. QED
      BY <1>8, <2>4, <3>1
  <2>9. QED
    BY <2>6, <2>7, <2>8
<1>11. CASE enough = {} /\ short # {}
  <2>1. PICK c : c = Max(short)
    OBVIOUS
  <2>2. c \in short
    <3>1. short \subseteq 0 .. view.message
      BY <1>4, <1>6 DEF Halves
    <3>2. QED
      BY <1>6, <1>11, <2>1, <3>1, GreatestExists
  <2>3. fitted = [view |-> [bare EXCEPT !.message = c], truncation |-> marks(TRUE, view.items # <<>>, 0)]
    BY <1>5, <1>11, <2>1, Zenon
  <2>4. fitted.view = [bare EXCEPT !.message = c] /\ cut = marks(TRUE, view.items # <<>>, 0)
    BY <2>3
  <2>5. c \in Nat /\ FitsCap([bare EXCEPT !.message = c])
    BY <1>4, <1>6, <2>2 DEF Halves
  <2>6. bare \in View
    <3>1. n \in 0 .. n
      BY <1>6
    <3>2. QED
      BY <1>3, <1>7, <3>1
  <2>7. [bare EXCEPT !.message = c] \in View
    BY <2>5, <2>6 DEF View
  <2>9. cut.omitted = 0 /\ {cut.field, cut.collection, cut.response} \subseteq BOOLEAN /\ cut.field
    <3>1. cut = [field |-> truncation.field \/ TRUE, collection |-> truncation.collection \/ view.items # <<>>,
                 response |-> TRUE \/ view.items # <<>> \/ 0 = 1, omitted |-> 0]
      BY <2>4 DEF marks
    <3>2. cut.omitted = 0 /\ cut.field
      <4>1. cut.omitted = 0
        BY <3>1
      <4>2. cut.field = (truncation.field \/ TRUE)
        BY <3>1
      <4>3. (truncation.field \/ TRUE) = TRUE
        OBVIOUS
      <4>4. QED
        BY <4>1, <4>2, <4>3
    <3>3. cut.field \in BOOLEAN /\ cut.collection \in BOOLEAN
      BY <3>1
    <3>4. cut.response \in BOOLEAN
      BY <3>1
    <3>5. QED
      BY <3>2, <3>3, <3>4
  <2>10. QED
    BY <2>4, <2>5, <2>7, <2>9
<1>12. CASE enough = {} /\ short = {}
  <2>1. fitted = [view |-> NoView, truncation |-> marks(view.message > 1, view.items # <<>>, 1)]
    BY <1>5, <1>12, Zenon
  <2>2. cut = marks(view.message > 1, view.items # <<>>, 1)
    BY <2>1
  <2>3. cut.omitted = 1 /\ {cut.field, cut.collection, cut.response} \subseteq BOOLEAN
    <3>1. cut = [field |-> truncation.field \/ view.message > 1,
                 collection |-> truncation.collection \/ view.items # <<>>,
                 response |-> view.message > 1 \/ view.items # <<>> \/ 1 = 1, omitted |-> 1]
      BY <2>2 DEF marks
    <3>2. cut.omitted = 1
      BY <3>1
    <3>3. cut.field \in BOOLEAN
      BY <3>1
    <3>4. cut.collection \in BOOLEAN
      BY <3>1
    <3>5. cut.response \in BOOLEAN
      BY <3>1
    <3>6. QED
      BY <3>2, <3>3, <3>4, <3>5
  <2>4. QED
    BY <2>3
<1>13. QED
  BY <1>10, <1>11, <1>12

-----------------------------------------------------------------------------
(* Frames. *)

\* A message with a backtrace that can be read in part only names no source.
Readable(lines) ==
  (\E l \in ToSet(lines) : l.kind = "unreadable") => \A l \in ToSet(lines) : l.kind # "source"

SizedLines(lines) == IsSequence(lines) /\ \A l \in ToSet(lines) : l.path \in Nat /\ l.text \in Nat

\* A backtrace is read whole only where each of its lines could be.
LEMMA FramesAreWhole ==
  ASSUME NEW lines, IsSequence(lines), Readable(lines), NEW extracted, extracted = ExtractFrames(lines),
         ~extracted.partial
  PROVE  extracted.frames = Keeping(lines, {l \in ToSet(lines) : l.kind \in {"frame", "source", "unreadable"}})
<1>1. PICK K : K = {l \in ToSet(lines) : l.kind \in {"frame", "source"}}
  OBVIOUS
<1>2. PICK shaped : shaped = {i \in DOMAIN lines : lines[i].kind \in {"frame", "unreadable"}}
  OBVIOUS
<1>3. PICK read : read = {i \in DOMAIN lines : lines[i] \in K}
  OBVIOUS
<1>4. extracted.frames = Keeping(lines, K) /\ (extracted.partial <=> Len(extracted.frames) < Cardinality(shaped))
  BY <1>1, <1>2 DEF ExtractFrames, Number
<1>5. Len(Keeping(lines, K)) = Cardinality(read)
  BY <1>3, KeepingCounts
<1>6. IsFiniteSet(DOMAIN lines)
  <2>1. PICK n \in Nat : DOMAIN lines = 1 .. n
    BY IsList
  <2>2. QED
    BY <2>1, FS_Interval
<1>7. ASSUME NEW i \in DOMAIN lines, lines[i].kind = "unreadable" PROVE FALSE
  <2>1. \A j \in DOMAIN lines : lines[j] \in ToSet(lines)
    BY DEF ToSet
  <2>2. \A j \in DOMAIN lines : lines[j].kind # "source"
    BY <1>7, <2>1 DEF Readable
  <2>3. read \subseteq shaped /\ i \in shaped /\ i \notin read
    BY <1>1, <1>2, <1>3, <1>7, <2>2
  <2>4. IsFiniteSet(shaped)
    BY <1>2, <1>6, FS_Subset
  <2>5. /\ Cardinality(read) <= Cardinality(shaped) /\ Cardinality(read) # Cardinality(shaped)
        /\ Cardinality(read) \in Nat /\ Cardinality(shaped) \in Nat
    <3>1. read \in SUBSET shaped /\ shaped # read
      BY <2>3
    <3>2. /\ IsFiniteSet(read) /\ Cardinality(read) <= Cardinality(shaped)
          /\ Cardinality(shaped) = Cardinality(read) => shaped = read
      BY <2>4, <3>1, FS_Subset
    <3>3. Cardinality(read) \in Nat /\ Cardinality(shaped) \in Nat
      BY <2>4, <3>2, FS_CardinalityType
    <3>4. QED
      BY <3>1, <3>2, <3>3
  <2>6. QED
    BY <1>4, <1>5, <2>5
<1>8. K = {l \in ToSet(lines) : l.kind \in {"frame", "source", "unreadable"}}
  BY <1>1, <1>7 DEF ToSet
<1>9. QED
  BY <1>4, <1>8

\* The frames that are returned are all there are, unless a mark says otherwise.
LEMMA CapFramesIs ==
  ASSUME NEW lines, SizedLines(lines), NEW capped, capped = CapFrames(lines),
         NEW frames, frames = Keeping(lines, {l \in ToSet(lines) : l.kind \in {"frame", "source", "unreadable"}})
  PROVE  /\ capped.value \in Seq(Nat) /\ capped.collection \in BOOLEAN /\ capped.field \in BOOLEAN
         /\ Readable(lines) /\ ~capped.collection /\ ~capped.field =>
              capped.value = [i \in DOMAIN frames |-> frames[i].path + frames[i].text]
<1>1. PICK extracted : extracted = ExtractFrames(lines)
  OBVIOUS
<1>2. PICK placed : placed = Keeping(extracted.frames, {f \in ToSet(extracted.frames) : f.path <= Limit.framePath})
  OBVIOUS
<1>3. PICK sizes : sizes = [i \in DOMAIN placed |-> placed[i].path + CapTo(placed[i].text, Limit.frameText).value]
  OBVIOUS
<1>4. PICK kept : kept = CapCollection(sizes, Limit.frames)
  OBVIOUS
<1>5. capped = [value |-> kept.value,
                collection |-> kept.truncated \/ extracted.partial \/ Len(placed) < Len(extracted.frames),
                field |-> \E f \in ToSet(placed) : f.text > Limit.frameText]
  BY <1>1, <1>2, <1>3, <1>4, Zenon DEF CapFrames
<1>6. Limit.frameText \in Nat /\ Limit.frames \in Nat
  BY InspectionAssumption
<1>7. IsSequence(lines) /\ \A l \in ToSet(lines) : l.path \in Nat /\ l.text \in Nat
  BY DEF SizedLines
<1>8. IsSequence(extracted.frames) /\ ToSet(extracted.frames) \subseteq ToSet(lines)
  <2>1. extracted.frames = Keeping(lines, {l \in ToSet(lines) : l.kind \in {"frame", "source"}})
    BY <1>1 DEF ExtractFrames
  <2>2. PICK some : some = {l \in ToSet(lines) : l.kind \in {"frame", "source"}}
    OBVIOUS
  <2>3. extracted.frames = Keeping(lines, some)
    BY <2>1, <2>2
  <2>4. IsSequence(Keeping(lines, some)) /\ ToSet(Keeping(lines, some)) = ToSet(lines) \cap some
    BY <1>7, KeepingIsList, KeepingKeeps
  <2>5. QED
    BY <2>3, <2>4
<1>9. IsSequence(placed) /\ ToSet(placed) \subseteq ToSet(lines)
  <2>1. PICK F : F = extracted.frames
    OBVIOUS
  <2>2. PICK short : short = {f \in ToSet(F) : f.path <= Limit.framePath}
    OBVIOUS
  <2>3. placed = Keeping(F, short) /\ IsSequence(F) /\ ToSet(F) \subseteq ToSet(lines)
    BY <1>2, <1>8, <2>1, <2>2
  <2>4. IsSequence(placed) /\ ToSet(placed) = ToSet(F) \cap short
    BY <2>3, KeepingIsList, KeepingKeeps
  <2>5. QED
    BY <2>3, <2>4
<1>10. PICK n \in Nat : DOMAIN placed = 1 .. n /\ n = Len(placed)
  BY <1>9, IsList
<1>11. \A i \in 1 .. n : placed[i] \in ToSet(placed) /\ placed[i].path \in Nat /\ placed[i].text \in Nat
  <2>1. \A i \in 1 .. n : placed[i] \in ToSet(placed)
    BY <1>10 DEF ToSet
  <2>2. QED
    BY <1>7, <1>9, <2>1
<1>12. sizes \in Seq(Nat)
  <2>1. \A i \in 1 .. n : sizes[i] \in Nat
    <3>1. SUFFICES ASSUME NEW i \in 1 .. n PROVE sizes[i] \in Nat
      OBVIOUS
    <3>2. CapTo(placed[i].text, Limit.frameText).value \in Nat /\ placed[i].path \in Nat
      BY <1>6, <1>11, CapToIs
    <3>3. sizes[i] = placed[i].path + CapTo(placed[i].text, Limit.frameText).value
      BY <1>3, <1>10
    <3>4. QED
      BY <3>2, <3>3
  <2>2. sizes = [i \in 1 .. n |-> sizes[i]]
    BY <1>3, <1>10
  <2>3. QED
    BY <2>1, <2>2, NumbersAre
<1>13. kept.value \in Seq(Nat) /\ kept.truncated \in BOOLEAN /\ (~kept.truncated => kept.value = sizes)
  BY <1>4, <1>6, <1>12, CapCollectionIs
<1>14. capped.value = kept.value
  BY <1>5
<1>15. capped.collection \in BOOLEAN
  BY <1>5
<1>16. capped.field \in BOOLEAN
  BY <1>5
<1>17. ASSUME Readable(lines), ~capped.collection, ~capped.field
       PROVE  capped.value = [i \in DOMAIN frames |-> frames[i].path + frames[i].text]
  <2>1. ~(kept.truncated \/ extracted.partial \/ Len(placed) < Len(extracted.frames))
    <3>1. capped.collection = (kept.truncated \/ extracted.partial \/ Len(placed) < Len(extracted.frames))
      BY <1>5
    <3>2. QED
      BY <1>17, <3>1
  <2>2. ~\E f \in ToSet(placed) : f.text > Limit.frameText
    BY <1>5, <1>17
  <2>3. extracted.frames = frames
    BY <1>1, <1>7, <1>17, <2>1, FramesAreWhole, Zenon
  <2>4. placed = frames
    <3>1. Len(placed) \in Nat /\ Len(extracted.frames) \in Nat
      BY <1>8, <1>9, IsList
    <3>2. Len(placed) >= Len(extracted.frames)
      BY <2>1, <3>1
    <3>3. placed = extracted.frames
      BY <1>2, <1>8, <3>2, KeepingAll
    <3>4. QED
      BY <2>3, <3>3
  <2>5. ASSUME NEW i \in DOMAIN placed PROVE CapTo(placed[i].text, Limit.frameText).value = placed[i].text
    <3>1. placed[i].text \in Nat /\ ~(placed[i].text > Limit.frameText)
      BY <1>10, <1>11, <2>2, <2>5
    <3>2. QED
      BY <1>6, <3>1, CapToIs
  <2>6. sizes = [i \in DOMAIN placed |-> placed[i].path + placed[i].text]
    BY <1>3, <2>5
  <2>7. QED
    <3>1. ~kept.truncated
      BY <1>13, <2>1
    <3>2. capped.value = sizes
      BY <1>13, <1>14, <3>1
    <3>3. QED
      BY <2>4, <2>6, <3>2
<1>18. QED
  BY <1>13, <1>14, <1>15, <1>16, <1>17

-----------------------------------------------------------------------------
(* Activities. *)

\* A list of trees, each with something in it.
Trees(trees) ==
  /\ IsSequence(trees)
  /\ \A t \in DOMAIN trees : /\ trees[t] # <<>> /\ IsSequence(trees[t])
                             /\ \A n \in DOMAIN trees[t] : trees[t][n].title \in Nat

\* A list of lists.
LEMMA TreesAre ==
  ASSUME NEW trees, Trees(trees)
  PROVE  \E all \in Nat : /\ DOMAIN trees = 1 .. all
                          /\ \A t \in 1 .. all : \E n \in Nat : n >= 1 /\ DOMAIN trees[t] = 1 .. n
<1>1. PICK all \in Nat : DOMAIN trees = 1 .. all
  BY IsList DEF Trees
<1>2. ASSUME NEW t \in 1 .. all PROVE \E n \in Nat : n >= 1 /\ DOMAIN trees[t] = 1 .. n
  <2>1. IsSequence(trees[t]) /\ trees[t] # <<>>
    BY <1>1 DEF Trees
  <2>2. PICK tree : tree = trees[t]
    OBVIOUS
  <2>3. Len(tree) \in Nat /\ DOMAIN tree = 1 .. Len(tree) /\ tree \in Seq(ToSet(tree)) /\ tree # <<>>
    BY <2>1, <2>2, IsList
  <2>4. Len(tree) >= 1
    BY <2>3
  <2>5. QED
    BY <2>2, <2>3, <2>4
<1>3. QED
  BY <1>1, <1>2

\* The activities that are returned are all there are, unless a mark says
\* otherwise.
LEMMA CapActivitiesIs ==
  ASSUME NEW trees, Trees(trees), NEW capped, capped = CapActivities(trees)
  PROVE  /\ capped.value \in Seq(Nat) /\ capped.truncated \in BOOLEAN
         /\ ~capped.truncated => capped.value = TreeSizes(trees)
<1>1. PICK shallow : shallow = UNION {{t} \X {n \in DOMAIN trees[t] : Len(trees[t][n].above) < Limit.activityDepth} :
                                        t \in DOMAIN trees}
  OBVIOUS
<1>2. PICK kept : kept = {p \in shallow : Cardinality({q \in shallow : Earlier(q, p)}) < Limit.activities}
  OBVIOUS
<1>3. PICK shown : shown = {t \in DOMAIN trees : <<t, 1>> \in kept}
  OBVIOUS
<1> DEFINE title(t, n) == CapTo(trees[t][n].title, Limit.activityText).value
           size(t) == Total([n \in {n \in DOMAIN trees[t] : <<t, n>> \in kept} |-> title(t, n)])
<1>4. capped = [value |-> [t \in 1 .. Cardinality(shown) |-> size(t)],
                truncated |-> \E t \in DOMAIN trees : \E n \in DOMAIN trees[t] :
                                <<t, n>> \notin kept \/ trees[t][n].title > Limit.activityText]
  BY <1>1, <1>2, <1>3, Zenon DEF CapActivities
<1>5. PICK all \in Nat : /\ DOMAIN trees = 1 .. all
                         /\ \A t \in 1 .. all : \E n \in Nat : n >= 1 /\ DOMAIN trees[t] = 1 .. n
  BY TreesAre
<1>6. Limit.activityText \in Nat
  BY InspectionAssumption
<1>7. IsFiniteSet(shown) /\ Cardinality(shown) \in 0 .. all /\ shown \subseteq 1 .. all
  <2>1. IsFiniteSet(1 .. all) /\ Cardinality(1 .. all) = all
    BY FS_Interval
  <2>2. PICK every : every = 1 .. all
    OBVIOUS
  <2>3. IsFiniteSet(every) /\ Cardinality(every) = all /\ shown \in SUBSET every
    BY <1>3, <1>5, <2>1, <2>2
  <2>4. IsFiniteSet(shown) /\ Cardinality(shown) <= Cardinality(every)
    BY <2>3, FS_Subset
  <2>5. Cardinality(shown) \in Nat
    BY <2>4, FS_CardinalityType
  <2>6. QED
    BY <2>2, <2>3, <2>4, <2>5
<1>8. ASSUME NEW t \in 1 .. all, NEW n \in DOMAIN trees[t]
      PROVE  /\ trees[t][n].title \in Nat /\ title(t, n) \in Nat
             /\ ~(trees[t][n].title > Limit.activityText) => title(t, n) = trees[t][n].title
  <2>1. trees[t][n].title \in Nat
    BY <1>5 DEF Trees
  <2>2. QED
    BY <1>6, <2>1, CapToIs
<1>9. ASSUME NEW t \in 1 .. all PROVE size(t) \in Nat
  <2>1. PICK some : some = {n \in DOMAIN trees[t] : <<t, n>> \in kept}
    OBVIOUS
  <2>2. PICK titles : titles = [n \in some |-> title(t, n)]
    OBVIOUS
  <2>3. PICK m \in Nat : DOMAIN trees[t] = 1 .. m
    BY <1>5
  <2>4. IsFiniteSet(some)
    <3>1. IsFiniteSet(1 .. m)
      BY FS_Interval
    <3>2. some \in SUBSET (1 .. m)
      BY <2>1, <2>3
    <3>3. QED
      BY <3>1, <3>2, FS_Subset
  <2>5. \A n \in some : titles[n] \in Nat
    <3>1. SUFFICES ASSUME NEW n \in some PROVE title(t, n) \in Nat
      BY <2>2
    <3>2. n \in DOMAIN trees[t]
      BY <2>1
    <3>3. QED
      BY <1>8, <3>2
  <2>6. DOMAIN titles = some
    BY <2>2
  <2>7. Total(titles) \in Nat
    BY <2>4, <2>5, <2>6, TotalIsNat
  <2>8. size(t) = Total(titles)
    BY <2>1, <2>2
  <2>9. QED
    BY <2>7, <2>8
<1>10. capped.value \in Seq(Nat)
  <2>1. PICK value : value = capped.value
    OBVIOUS
  <2>2. PICK few : few = Cardinality(shown)
    OBVIOUS
  <2> HIDE DEF size
  <2>3. few \in Nat /\ few <= all /\ value = [t \in 1 .. few |-> size(t)]
    BY <1>4, <1>7, <2>1, <2>2
  <2>4. \A t \in 1 .. few : value[t] \in Nat
    BY <1>9, <2>3
  <2>5. value = [t \in 1 .. few |-> value[t]]
    BY <2>3
  <2>6. QED
    BY <2>1, <2>3, <2>4, <2>5, NumbersAre
<1>11. capped.truncated \in BOOLEAN
  <2> HIDE DEF size
  <2>1. QED
    BY <1>4
<1>12. ASSUME ~capped.truncated PROVE capped.value = TreeSizes(trees)
  <2>1. \A t \in DOMAIN trees : \A n \in DOMAIN trees[t] :
          <<t, n>> \in kept /\ ~(trees[t][n].title > Limit.activityText)
    <3> HIDE DEF size
    <3>1. capped.truncated = (\E t \in DOMAIN trees : \E n \in DOMAIN trees[t] :
                                <<t, n>> \notin kept \/ trees[t][n].title > Limit.activityText)
      BY <1>4
    <3>2. QED
      BY <1>12, <3>1
  <2>2. shown = 1 .. all
    <3>1. \A t \in 1 .. all : 1 \in DOMAIN trees[t]
      BY <1>5
    <3>2. QED
      BY <1>3, <1>5, <2>1, <3>1
  <2>3. Cardinality(shown) = all
    BY <2>2, FS_Interval
  <2>4. ASSUME NEW t \in 1 .. all PROVE size(t) = Total([n \in DOMAIN trees[t] |-> trees[t][n].title])
    <3>1. {n \in DOMAIN trees[t] : <<t, n>> \in kept} = DOMAIN trees[t]
      BY <1>5, <2>1
    <3>2. \A n \in DOMAIN trees[t] : title(t, n) = trees[t][n].title
      BY <1>5, <1>8, <2>1
    <3> HIDE DEF title
    <3>3. [n \in {n \in DOMAIN trees[t] : <<t, n>> \in kept} |-> title(t, n)] = [n \in DOMAIN trees[t] |-> trees[t][n].title]
      BY <3>1, <3>2
    <3>4. QED
      BY <3>3
  <2> HIDE DEF size
  <2>5. capped.value = [t \in 1 .. all |-> size(t)]
    BY <1>4, <2>3
  <2>6. TreeSizes(trees) = [t \in 1 .. all |-> Total([n \in DOMAIN trees[t] |-> trees[t][n].title])]
    BY <1>5 DEF TreeSizes
  <2>7. QED
    BY <2>4, <2>5, <2>6
<1>13. QED
  BY <1>10, <1>11, <1>12

\* What a test leaves in the bundle about itself.
LeftDetail(detail) ==
  /\ IsSequence(detail.activities) /\ IsSequence(detail.attachments) /\ ToSet(detail.attachments) \subseteq Nat
  /\ \A tree \in ToSet(detail.activities) : IsSequence(tree) /\ \A a \in ToSet(tree) : a.title \in Nat

\* What is decoded of it are trees, and the names of attachments.
LEMMA DecodedIs ==
  ASSUME NEW detail, LeftDetail(detail), NEW decoded, decoded = DecodeTestDetails(detail)
  PROVE  Trees(decoded.activities) /\ decoded.attachments \in Seq(Nat)
<1>1. PICK trees : trees = detail.activities
  OBVIOUS
<1>2. PICK all \in Nat : DOMAIN trees = 1 .. all
  BY <1>1, IsList DEF LeftDetail
<1>3. \A t \in 1 .. all : trees[t] \in ToSet(trees)
  BY <1>2 DEF ToSet
<1> DEFINE some(t) == {a \in ToSet(trees[t]) : 0 \notin {a.title} \cup ToSet(a.above)}
<1>4. PICK named : named = [t \in DOMAIN trees |-> Keeping(trees[t], some(t))]
  OBVIOUS
<1>5. decoded.activities = Keeping(named, ToSet(named) \ {<<>>}) /\ decoded.attachments = Keeping(detail.attachments, Nat \ {0})
  BY <1>1, <1>4 DEF DecodeTestDetails, NamedActivities
<1>6. IsSequence(named)
  <2>1. named = [t \in 1 .. all |-> named[t]]
    BY <1>2, <1>4
  <2>2. QED
    BY <2>1, ListIs
<1>7. ASSUME NEW tree \in ToSet(named)
      PROVE  IsSequence(tree) /\ \A n \in DOMAIN tree : tree[n].title \in Nat
  <2>1. PICK t \in 1 .. all : tree = Keeping(trees[t], some(t))
    BY <1>2, <1>4 DEF ToSet
  <2>2. IsSequence(trees[t]) /\ \A a \in ToSet(trees[t]) : a.title \in Nat
    BY <1>1, <1>3 DEF LeftDetail
  <2> HIDE DEF some
  <2>3. IsSequence(tree) /\ ToSet(tree) = ToSet(trees[t]) \cap some(t)
    BY <2>1, <2>2, KeepingIsList, KeepingKeeps
  <2>4. \A n \in DOMAIN tree : tree[n] \in ToSet(tree)
    BY DEF ToSet
  <2>5. QED
    BY <2>2, <2>3, <2>4
<1>8. PICK list : list = decoded.activities
  OBVIOUS
<1>9. IsSequence(list) /\ ToSet(list) = ToSet(named) \cap (ToSet(named) \ {<<>>})
  <2>1. PICK full : full = ToSet(named) \ {<<>>}
    OBVIOUS
  <2>2. list = Keeping(named, full)
    BY <1>5, <1>8, <2>1
  <2>3. IsSequence(list) /\ ToSet(list) = ToSet(named) \cap full
    BY <1>6, <2>2, KeepingIsList, KeepingKeeps
  <2>4. QED
    BY <2>1, <2>3
<1>10. Trees(list)
  <2>1. SUFFICES ASSUME NEW t \in DOMAIN list
                 PROVE  list[t] # <<>> /\ IsSequence(list[t]) /\ \A n \in DOMAIN list[t] : list[t][n].title \in Nat
    BY <1>9 DEF Trees
  <2>2. list[t] \in ToSet(list)
    BY DEF ToSet
  <2>3. list[t] \in ToSet(named) /\ list[t] # <<>>
    BY <1>9, <2>2
  <2>4. QED
    BY <1>7, <2>3
<1>11. decoded.attachments \in Seq(Nat)
  <2>1. PICK marks : marks = detail.attachments
    OBVIOUS
  <2>2. IsSequence(marks) /\ ToSet(marks) \subseteq Nat
    BY <2>1 DEF LeftDetail
  <2>3. PICK real : real = Nat \ {0}
    OBVIOUS
  <2>4. Keeping(marks, real) \in Seq(ToSet(marks) \cap real)
    BY <2>2, KeepingKeeps
  <2>5. ToSet(marks) \cap real \subseteq Nat
    BY <2>2
  <2>6. Keeping(marks, real) \in Seq(Nat)
    BY <2>4, <2>5
  <2>7. QED
    BY <1>5, <2>1, <2>3, <2>6
<1>12. QED
  BY <1>8, <1>10, <1>11

-----------------------------------------------------------------------------
(* The two kinds of closer look. *)

Lists == {"stackFrames", "activities", "attachments", "attempts", "diagnostics"}

\* What three lists make up.
LEMMA ViewOfThree ==
  ASSUME NEW fixed \in Nat, NEW message \in Nat, NEW x \in Lists, NEW y \in Lists, NEW z \in Lists,
         NEW a \in Seq(Nat), NEW b \in Seq(Nat), NEW c \in Seq(Nat)
  PROVE  [fixed |-> fixed, message |-> message, items |-> Of(x, a) \o Of(y, b) \o Of(z, c)] \in View
<1>1. Of(x, a) \in Seq(Item) /\ Of(y, b) \in Seq(Item) /\ Of(z, c) \in Seq(Item)
  BY OfIs DEF Lists
<1>2. Of(x, a) \o Of(y, b) \o Of(z, c) \in Seq(Item)
  BY <1>1
<1>3. QED
  BY <1>2 DEF View

\* Names that are not cut are the names.
LEMMA NamesAre ==
  ASSUME NEW list \in Seq(Nat), NEW cap \in Nat, NEW names, DOMAIN names = DOMAIN list,
         \A i \in DOMAIN list : names[i] = CapTo(list[i], cap),
         NEW values, values = [i \in DOMAIN list |-> values[i]],
         \A i \in DOMAIN list : values[i] = names[i].value
  PROVE  values \in Seq(Nat) /\ ((\A n \in ToSet(names) : ~n.truncated) => values = list)
<1>1. PICK n \in Nat : DOMAIN list = 1 .. n /\ list = [i \in 1 .. n |-> list[i]] /\ \A i \in 1 .. n : list[i] \in Nat
  <2>1. /\ Len(list) \in Nat /\ DOMAIN list = 1 .. Len(list) /\ list = [i \in 1 .. Len(list) |-> list[i]]
        /\ \A i \in 1 .. Len(list) : list[i] \in Nat
    OBVIOUS
  <2>2. QED
    BY <2>1
<1>2. ASSUME NEW i \in 1 .. n
      PROVE  /\ values[i] \in Nat /\ names[i] \in ToSet(names)
             /\ ~names[i].truncated => values[i] = list[i]
  <2>1. names[i] = CapTo(list[i], cap) /\ values[i] = names[i].value /\ i \in DOMAIN names
    BY <1>1
  <2>2. /\ CapTo(list[i], cap).value \in Nat /\ CapTo(list[i], cap).truncated = (list[i] > cap)
        /\ ~(list[i] > cap) => CapTo(list[i], cap).value = list[i]
    BY <1>1, CapToIs
  <2>3. names[i] \in ToSet(names)
    BY <2>1 DEF ToSet
  <2>4. QED
    BY <2>1, <2>2, <2>3
<1>3. values = [i \in 1 .. n |-> values[i]]
  BY <1>1
<1>4. values \in Seq(Nat)
  <2>1. \A i \in 1 .. n : values[i] \in Nat
    BY <1>2
  <2>2. QED
    BY <1>3, <2>1, NumbersAre
<1>5. ASSUME \A m \in ToSet(names) : ~m.truncated PROVE values = list
  <2>1. \A i \in 1 .. n : values[i] = list[i]
    BY <1>2, <1>5
  <2>2. QED
    BY <1>1, <1>3, <2>1
<1>6. QED
  BY <1>4, <1>5

\* All there is about a diagnostic, and about a test.
WholeDiagnostic(record, detail) ==
  LET lines == Written(record).lines
      frames == Keeping(lines, {l \in ToSet(lines) : l.kind \in {"frame", "source", "unreadable"}})
  IN [fixed |-> Fixed(record), message |-> Written(record).chars,
      items |-> Of("stackFrames", [i \in DOMAIN frames |-> frames[i].path + frames[i].text])
                  \o Of("activities", TreeSizes(detail.activities)) \o Of("attachments", detail.attachments)]

WholeTest(i, detail) ==
  LET record == report.index.occurrences[i]
  IN [fixed |-> Fixed(record), message |-> 0,
      items |-> Of("attempts", [k \in 1 .. record.attempts |-> 1]) \o Of("diagnostics", FailureSizes(i))
                  \o Of("activities", TreeSizes(detail.activities))]

\* A diagnostic is returned with all there is about it, unless a mark says
\* otherwise.
LEMMA DiagnosticIsWhole ==
  ASSUME Sized, NEW record, NEW detail, Trees(detail.activities), detail.attachments \in Seq(Nat),
         NEW fitted, fitted = FocusedDiagnostic(record, detail), NEW cut, cut = fitted.truncation
  PROVE  /\ cut.omitted \in {0, 1} /\ {cut.field, cut.collection, cut.response} \subseteq BOOLEAN
         /\ cut.omitted = 0 => fitted.view \in View /\ FitsCap(fitted.view)
         /\ Readable(Written(record).lines) /\ cut.omitted = 0 /\ ~cut.field /\ ~cut.collection =>
              fitted.view = WholeDiagnostic(record, detail)
<1>1. PICK lines : lines = Written(record).lines
  OBVIOUS
<1>2. PICK frames : frames = Keeping(lines, {l \in ToSet(lines) : l.kind \in {"frame", "source", "unreadable"}})
  OBVIOUS
<1>3. PICK whole : whole = [fixed |-> Fixed(record), message |-> Written(record).chars,
                          items |-> Of("stackFrames", [i \in DOMAIN frames |-> frames[i].path + frames[i].text])
                                      \o Of("activities", TreeSizes(detail.activities))
                                      \o Of("attachments", detail.attachments)]
  OBVIOUS
<1>4. whole = WholeDiagnostic(record, detail)
  BY <1>1, <1>2, <1>3, Zenon DEF WholeDiagnostic
<1>5. PICK chars : chars = Written(record).chars
  OBVIOUS
<1>6. PICK message : message = CapTo(chars, Limit.message)
  OBVIOUS
<1>7. PICK stack : stack = CapFrames(lines)
  OBVIOUS
<1>8. PICK activities : activities = CapActivities(detail.activities)
  OBVIOUS
<1>9. PICK marks : marks = detail.attachments
  OBVIOUS
<1>10. PICK names : names = [i \in DOMAIN marks |-> CapTo(marks[i], Limit.attachmentText)]
  OBVIOUS
<1>11. PICK values : values = [i \in DOMAIN names |-> names[i].value]
  OBVIOUS
<1>12. PICK attachments : attachments = CapCollection(values, Limit.attachments)
  OBVIOUS
<1>13. PICK view : view = [fixed |-> Fixed(record), message |-> message.value,
                          items |-> Of("stackFrames", stack.value) \o Of("activities", activities.value)
                                      \o Of("attachments", attachments.value)]
  OBVIOUS
<1>14. PICK field : field = (message.truncated \/ stack.field \/ \E n \in ToSet(names) : n.truncated)
  OBVIOUS
<1>15. PICK collection : collection = (stack.collection \/ activities.truncated \/ attachments.truncated)
  OBVIOUS
<1>16. fitted = Fit(view, Truncation(field, collection))
  BY <1>1, <1>5, <1>6, <1>7, <1>8, <1>9, <1>10, <1>11, <1>12, <1>13, <1>14, <1>15, Zenon DEF FocusedDiagnostic
<1>17. /\ Limit.message \in Nat /\ Limit.attachmentText \in Nat /\ Limit.attachments \in Nat
  BY InspectionAssumption
<1>18. Fixed(record) \in Nat /\ chars \in Nat /\ SizedLines(lines)
  BY <1>1, <1>5 DEF Sized, SizedLines
<1>19. message.value \in Nat /\ message.truncated \in BOOLEAN /\ (~message.truncated => message.value = chars)
  BY <1>6, <1>17, <1>18, CapToIs
<1>20. /\ stack.value \in Seq(Nat) /\ stack.collection \in BOOLEAN /\ stack.field \in BOOLEAN
       /\ Readable(lines) /\ ~stack.collection /\ ~stack.field =>
            stack.value = [i \in DOMAIN frames |-> frames[i].path + frames[i].text]
  BY <1>2, <1>7, <1>18, CapFramesIs
<1>21. /\ activities.value \in Seq(Nat) /\ activities.truncated \in BOOLEAN
       /\ ~activities.truncated => activities.value = TreeSizes(detail.activities)
  BY <1>8, CapActivitiesIs
<1>22. values \in Seq(Nat) /\ ((\A n \in ToSet(names) : ~n.truncated) => values = marks)
  <2>1. PICK cap : cap = Limit.attachmentText
    OBVIOUS
  <2>2. /\ marks \in Seq(Nat) /\ cap \in Nat /\ DOMAIN names = DOMAIN marks
        /\ \A i \in DOMAIN marks : names[i] = CapTo(marks[i], cap)
    BY <1>9, <1>10, <1>17, <2>1
  <2>3. values = [i \in DOMAIN marks |-> values[i]] /\ \A i \in DOMAIN marks : values[i] = names[i].value
    BY <1>10, <1>11
  <2>4. QED
    BY <2>2, <2>3, NamesAre
<1>23. /\ attachments.value \in Seq(Nat) /\ attachments.truncated \in BOOLEAN
       /\ ~attachments.truncated => attachments.value = values
  BY <1>12, <1>17, <1>22, CapCollectionIs
<1>24. view \in View
  <2>1. {"stackFrames", "activities", "attachments"} \subseteq Lists
    BY DEF Lists
  <2>2. QED
    BY <1>13, <1>18, <1>19, <1>20, <1>21, <1>23, <2>1, ViewOfThree
<1>25. field \in BOOLEAN /\ collection \in BOOLEAN
  BY <1>14, <1>15
<1>26. PICK truncation : truncation = Truncation(field, collection)
  OBVIOUS
<1>27. truncation.field = field /\ truncation.collection = collection
  BY <1>26 DEF Truncation
<1>28. /\ cut.omitted \in {0, 1} /\ {cut.field, cut.collection, cut.response} \subseteq BOOLEAN
       /\ cut.omitted = 0 => fitted.view \in View /\ FitsCap(fitted.view)
       /\ cut.omitted = 0 /\ ~cut.field /\ ~cut.collection =>
            fitted.view = view /\ ~truncation.field /\ ~truncation.collection
  <2>1. truncation.field \in BOOLEAN /\ truncation.collection \in BOOLEAN /\ fitted = Fit(view, truncation)
    BY <1>16, <1>25, <1>26, <1>27
  <2>2. QED
    BY <1>24, <2>1, FitIs
<1>29. ASSUME Readable(lines), cut.omitted = 0, ~cut.field, ~cut.collection PROVE fitted.view = whole
  <2>1. fitted.view = view /\ ~field /\ ~collection
    BY <1>27, <1>28, <1>29
  <2>2. ~message.truncated /\ ~stack.field /\ \A n \in ToSet(names) : ~n.truncated
    BY <1>14, <2>1
  <2>3. ~stack.collection /\ ~activities.truncated /\ ~attachments.truncated
    BY <1>15, <2>1
  <2>4. message.value = chars
    BY <1>19, <2>2
  <2>5. stack.value = [i \in DOMAIN frames |-> frames[i].path + frames[i].text]
    BY <1>20, <1>29, <2>2, <2>3
  <2>6. activities.value = TreeSizes(detail.activities)
    BY <1>21, <2>3
  <2>7. attachments.value = detail.attachments
    BY <1>9, <1>22, <1>23, <2>2, <2>3
  <2>8. view = whole
    BY <1>3, <1>5, <1>13, <2>4, <2>5, <2>6, <2>7, Zenon
  <2>9. QED
    BY <2>1, <2>8
<1>30. QED
  BY <1>1, <1>4, <1>28, <1>29

\* The failures of a test, and their sizes.
LEMMA FailureSizesAre ==
  ASSUME Sized, IsSequence(report.index.testFailures), NEW i
  PROVE  FailureSizes(i) \in Seq(Nat)
<1>1. PICK all : all = report.index.testFailures
  OBVIOUS
<1>2. PICK own : own = {e \in ToSet(all) : e.test = i}
  OBVIOUS
<1>3. PICK failures : failures = Keeping(all, own)
  OBVIOUS
<1>4. IsSequence(all)
  BY <1>1
<1>5. IsSequence(failures)
  BY <1>3, <1>4, KeepingIsList
<1>6. PICK n \in Nat : DOMAIN failures = 1 .. n
  BY <1>5, IsList
<1>7. PICK sizes : sizes = FailureSizes(i)
  OBVIOUS
<1>8. failures = FailuresOf(i)
  BY <1>1, <1>2, <1>3 DEF FailuresOf
<1>9. sizes = [k \in 1 .. n |-> SummarySize(failures[k])]
  BY <1>6, <1>7, <1>8 DEF FailureSizes
<1>10. \A k \in 1 .. n : sizes[k] \in Nat
  <2>1. SUFFICES ASSUME NEW k \in 1 .. n PROVE sizes[k] \in Nat
    OBVIOUS
  <2>2. PICK record : record = failures[k]
    OBVIOUS
  <2>3. Fixed(record) \in Nat /\ Written(record).chars \in Nat /\ Limit.summaryMessage \in Nat
    BY InspectionAssumption DEF Sized
  <2>4. PICK chars \in Nat, cap \in Nat : chars = Written(record).chars /\ cap = Limit.summaryMessage
    BY <2>3
  <2>5. Min({chars, cap}) \in Nat
    BY MinOfTwo, chars \in Int, cap \in Int
  <2>6. SummarySize(record) = Fixed(record) + Min({chars, cap})
    BY <2>4, Zenon DEF SummarySize
  <2>7. SummarySize(record) \in Nat
    BY <2>3, <2>5, <2>6
  <2>8. QED
    BY <1>9, <2>2, <2>7
<1>11. sizes = [k \in 1 .. n |-> sizes[k]]
  BY <1>9
<1>12. sizes \in Seq(Nat)
  BY <1>10, <1>11, NumbersAre
<1>13. QED
  BY <1>7, <1>12

\* A test is returned with all there is about it, unless a mark says otherwise.
LEMMA TestIsWhole ==
  ASSUME Sized, IsSequence(report.index.testFailures), NEW i, report.index.occurrences[i].attempts \in Nat,
         NEW detail, Trees(detail.activities),
         NEW fitted, fitted = FocusedTest(i, detail), NEW cut, cut = fitted.truncation
  PROVE  /\ cut.omitted \in {0, 1} /\ {cut.field, cut.collection, cut.response} \subseteq BOOLEAN
         /\ cut.omitted = 0 => fitted.view \in View /\ FitsCap(fitted.view)
         /\ cut.omitted = 0 /\ ~cut.field /\ ~cut.collection => fitted.view = WholeTest(i, detail)
<1>1. PICK record : record = report.index.occurrences[i]
  OBVIOUS
<1>2. PICK whole : whole = [fixed |-> Fixed(record), message |-> 0,
                          items |-> Of("attempts", [k \in 1 .. record.attempts |-> 1])
                                      \o Of("diagnostics", FailureSizes(i))
                                      \o Of("activities", TreeSizes(detail.activities))]
  OBVIOUS
<1>3. whole = WholeTest(i, detail)
  BY <1>1, <1>2, Zenon DEF WholeTest
<1>4. PICK sizes : sizes = FailureSizes(i)
  OBVIOUS
<1>5. PICK diagnostics : diagnostics = CapCollection(sizes, Limit.testFailures)
  OBVIOUS
<1>6. PICK each : each = [k \in 1 .. record.attempts |-> 1]
  OBVIOUS
<1>7. PICK attempts : attempts = CapCollection(each, Limit.attempts)
  OBVIOUS
<1>8. PICK activities : activities = CapActivities(detail.activities)
  OBVIOUS
<1>9. PICK view : view = [fixed |-> Fixed(record), message |-> 0,
                          items |-> Of("attempts", attempts.value) \o Of("diagnostics", diagnostics.value)
                                      \o Of("activities", activities.value)]
  OBVIOUS
<1>10. PICK collection : collection = (diagnostics.truncated \/ attempts.truncated \/ activities.truncated)
  OBVIOUS
<1>11. fitted = Fit(view, Truncation(FALSE, collection))
  BY <1>1, <1>4, <1>5, <1>6, <1>7, <1>8, <1>9, <1>10, Zenon DEF FocusedTest
<1>12. Limit.testFailures \in Nat /\ Limit.attempts \in Nat
  BY InspectionAssumption
<1>13. Fixed(record) \in Nat /\ sizes \in Seq(Nat)
  BY <1>4, FailureSizesAre DEF Sized
<1>14. each \in Seq(Nat)
  <2>1. PICK n \in Nat : n = record.attempts
    BY <1>1
  <2>2. each = [k \in 1 .. n |-> each[k]] /\ \A k \in 1 .. n : each[k] \in Nat
    BY <1>6, <2>1
  <2>3. QED
    BY <2>2, NumbersAre
<1>15. /\ diagnostics.value \in Seq(Nat) /\ diagnostics.truncated \in BOOLEAN
       /\ ~diagnostics.truncated => diagnostics.value = sizes
  BY <1>5, <1>12, <1>13, CapCollectionIs
<1>16. /\ attempts.value \in Seq(Nat) /\ attempts.truncated \in BOOLEAN
       /\ ~attempts.truncated => attempts.value = each
  BY <1>7, <1>12, <1>14, CapCollectionIs
<1>17. /\ activities.value \in Seq(Nat) /\ activities.truncated \in BOOLEAN
       /\ ~activities.truncated => activities.value = TreeSizes(detail.activities)
  BY <1>8, CapActivitiesIs
<1>18. view \in View
  <2>1. {"attempts", "diagnostics", "activities"} \subseteq Lists /\ 0 \in Nat
    BY DEF Lists
  <2>2. PICK zero : zero = 0
    OBVIOUS
  <2>3. zero \in Nat /\ view = [fixed |-> Fixed(record), message |-> zero,
                                items |-> Of("attempts", attempts.value) \o Of("diagnostics", diagnostics.value)
                                            \o Of("activities", activities.value)]
    BY <1>9, <2>2
  <2>4. QED
    BY <1>13, <1>15, <1>16, <1>17, <2>1, <2>3, ViewOfThree
<1>19. PICK truncation : truncation = Truncation(FALSE, collection)
  OBVIOUS
<1>20. truncation.field = FALSE /\ truncation.collection = collection /\ collection \in BOOLEAN
  BY <1>10, <1>19 DEF Truncation
<1>21. /\ cut.omitted \in {0, 1} /\ {cut.field, cut.collection, cut.response} \subseteq BOOLEAN
       /\ cut.omitted = 0 => fitted.view \in View /\ FitsCap(fitted.view)
       /\ cut.omitted = 0 /\ ~cut.field /\ ~cut.collection =>
            fitted.view = view /\ ~truncation.field /\ ~truncation.collection
  <2>1. truncation.field \in BOOLEAN /\ truncation.collection \in BOOLEAN /\ fitted = Fit(view, truncation)
    BY <1>11, <1>19, <1>20
  <2>2. QED
    BY <1>18, <2>1, FitIs
<1>22. ASSUME cut.omitted = 0, ~cut.field, ~cut.collection PROVE fitted.view = whole
  <2>1. fitted.view = view /\ ~collection
    BY <1>20, <1>21, <1>22
  <2>2. ~diagnostics.truncated /\ ~attempts.truncated /\ ~activities.truncated
    BY <1>10, <2>1
  <2>3. /\ diagnostics.value = FailureSizes(i) /\ attempts.value = [k \in 1 .. record.attempts |-> 1]
        /\ activities.value = TreeSizes(detail.activities)
    BY <1>4, <1>6, <1>15, <1>16, <1>17, <2>2
  <2>4. view = whole
    BY <1>2, <1>9, <2>3, Zenon
  <2>5. QED
    BY <2>1, <2>4
<1>23. QED
  BY <1>3, <1>21, <1>22

-----------------------------------------------------------------------------
(* What is paged and what is shown. *)

\* Every facet but the log is a list of records.
LEMMA RecordsAreListed ==
  ASSUME InterpretationInv, pc = "published", NEW facet \in Facet \ {"log"}, NEW status
  PROVE  IsSequence(RecordsFor(facet, status))
<1>1. /\ IsSequence(report.index.occurrences) /\ IsSequence(report.index.attestations)
      /\ IsSequence(report.index.buildErrors) /\ IsSequence(ReportedFailures(report.index))
  BY ReportIsListed
<1>2. CASE facet = "scope"
  BY <1>1, <1>2 DEF RecordsFor
<1>3. CASE facet = "failures"
  BY <1>1, <1>3 DEF RecordsFor
<1>4. CASE facet = "buildErrors"
  BY <1>1, <1>4 DEF RecordsFor
<1>5. CASE facet = "tests"
  <2>1. PICK all : all = report.index.occurrences
    OBVIOUS
  <2>2. PICK some : some = {o \in ToSet(all) : status \in {AnyStatus, o.status}}
    OBVIOUS
  <2>3. RecordsFor(facet, status) = Keeping(all, some)
    BY <1>5, <2>1, <2>2 DEF RecordsFor
  <2>4. IsSequence(Keeping(all, some))
    BY <1>1, <2>1, KeepingIsList
  <2>5. QED
    BY <2>3, <2>4
<1>6. QED
  BY <1>2, <1>3, <1>4, <1>5 DEF Facet

\* One block, or two, are a document.
LEMMA UnsupportedIsText ==
  ASSUME Sized
  PROVE  RenderUnsupported \in Seq(Blocks) /\ RenderUnsupported # <<>>
<1>1. PICK e : e = TextBytes("envelope")
  OBVIOUS
<1>2. PICK n : n = 3
  OBVIOUS
<1>3. PICK block : block = Block("envelope", n, e)
  OBVIOUS
<1>4. e \in Nat /\ n \in Nat /\ "envelope" \in Kinds
  BY <1>1, <1>2 DEF Sized, Kinds
<1>5. block \in Blocks
  BY <1>3, <1>4, BlockIs
<1>6. RenderUnsupported = <<block>>
  BY <1>1, <1>2, <1>3 DEF RenderUnsupported
<1>7. QED
  BY <1>5, <1>6

\* The answer of a look has what its text is made of.
Answerable(answer) ==
  /\ answer.status \in {"available", "incomplete", "unsupported"}
  /\ answer.status # "unsupported" =>
       /\ answer.truncation.response \in BOOLEAN /\ answer.truncation.omitted \in {0, 1}
       /\ answer.truncation.omitted = 0 => answer.view \in View

\* A closer look is a document, whatever its answer.
LEMMA FocusIsText ==
  ASSUME Sized, Answerable(focus.answer)
  PROVE  RenderFocus \in Seq(Blocks) /\ RenderFocus # <<>>
<1>1. PICK answer : answer = focus.answer
  OBVIOUS
<1>2. CASE answer.status = "unsupported"
  <2>1. RenderFocus = RenderUnsupported
    BY <1>1, <1>2 DEF RenderFocus
  <2>2. QED
    BY <2>1, UnsupportedIsText
<1>3. CASE answer.status # "unsupported"
  <2>1. /\ answer.truncation.response \in BOOLEAN /\ answer.truncation.omitted \in {0, 1}
        /\ answer.truncation.omitted = 0 => answer.view \in View
    BY <1>1, <1>3 DEF Answerable
  <2>2. PICK marks : marks = TruncationLines(FALSE, answer.truncation.response, answer.truncation.omitted)
    OBVIOUS
  <2>3. marks \in Nat
    <3>1. FALSE \in BOOLEAN /\ answer.truncation.omitted \in Nat
      BY <2>1
    <3>2. PICK more : more = FALSE
      OBVIOUS
    <3>3. more \in BOOLEAN /\ marks = TruncationLines(more, answer.truncation.response, answer.truncation.omitted)
      BY <2>2, <3>2
    <3>4. marks \in 0 .. 5
      BY <2>1, <3>1, <3>3, TruncationLinesAreFew
    <3>5. QED
      BY <3>4
  <2>4. PICK size : size = IF answer.truncation.omitted > 0 THEN 0 ELSE ViewBytes(answer.view)
    OBVIOUS
  <2>5. size \in Nat
    <3>1. CASE answer.truncation.omitted = 0
      <4>1. ViewBytes(answer.view) \in Nat
        BY <2>1, <3>1, ViewHasSize
      <4>2. size = ViewBytes(answer.view)
        BY <2>4, <3>1
      <4>3. QED
        BY <4>1, <4>2
    <3>2. CASE answer.truncation.omitted = 1
      BY <2>4, <3>2
    <3>3. QED
      BY <2>1, <3>1, <3>2
  <2>6. PICK lines : lines = IF answer.status = "available" THEN 1 ELSE 5
    OBVIOUS
  <2>7. PICK e : e = TextBytes("envelope")
    OBVIOUS
  <2>8. PICK f : f = TextBytes("facts")
    OBVIOUS
  <2>9. PICK head : head = Block("envelope", lines, e)
    OBVIOUS
  <2>10. PICK body : body = Block("facts", 2 + marks, f + size)
    OBVIOUS
  <2>11. RenderFocus = <<head, body>>
    BY <1>1, <1>3, <2>2, <2>4, <2>6, <2>7, <2>8, <2>9, <2>10, Zenon DEF RenderFocus
  <2>12. head \in Blocks
    <3>1. lines \in Nat /\ e \in Nat /\ "envelope" \in Kinds
      BY <2>6, <2>7 DEF Sized, Kinds
    <3>2. QED
      BY <2>9, <3>1, BlockIs
  <2>13. body \in Blocks
    <3>1. f \in Nat /\ "facts" \in Kinds
      BY <2>8 DEF Sized, Kinds
    <3>2. 2 + marks \in Nat /\ f + size \in Nat
      BY <2>3, <2>5, <3>1
    <3>3. QED
      BY <2>10, <3>1, <3>2, BlockIs
  <2>14. QED
    BY <2>11, <2>12, <2>13
<1>4. QED
  BY <1>2, <1>3

-----------------------------------------------------------------------------
(* The bundle a look reads. *)

\* Where the digest is the one recorded, the bundle is the one the index was
\* made from.
LEMMA BundleIs ==
  ASSUME NEW bundle \in Bundles
  PROVE  /\ bundle.recorded \in {NoDigest, 0, 1} /\ bundle.version \in 0 .. 2 /\ bundle.indexed \in {0, 1}
         /\ {bundle.kept, bundle.readable, bundle.tool} \subseteq BOOLEAN
         /\ bundle.recorded = bundle.version => bundle.version = bundle.indexed
         /\ DOMAIN bundle = {"version", "indexed", "recorded", "kept", "readable", "tool"}
<1>1. bundle \in [version : 0 .. 2, indexed : {0, 1}, recorded : {NoDigest, 0, 1}, kept : BOOLEAN, readable : BOOLEAN,
                  tool : BOOLEAN]
  BY DEF Bundles
<1>2. ASSUME bundle.recorded = bundle.version PROVE bundle.version = bundle.indexed
  <2>1. CASE \E what \in {"kept", "readable", "tool"} : bundle = [Untouched EXCEPT ![what] = FALSE, !.recorded = 0]
    BY <2>1 DEF Untouched
  <2>2. CASE /\ bundle.version = bundle.indexed \/ bundle.version = bundle.indexed + 1
             /\ \E first \in {NoDigest, 0}, digested \in BOOLEAN : bundle.recorded = Stabilize(first, bundle.indexed, digested)
    BY <1>1, <1>2, <2>2 DEF Stabilize, NoDigest
  <2>3. QED
    BY <2>1, <2>2 DEF Bundles
<1>3. QED
  BY <1>1, <1>2

-----------------------------------------------------------------------------
(* The closer look. *)

\* All there is about the subject of a look.
About(look) ==
  IF look.kind = "test" THEN WholeTest(look.subject, look.detail)
  ELSE WholeDiagnostic(RecordsOf(look.kind)[look.subject], look.detail)

Looking(look) ==
  /\ DOMAIN look = DOMAIN NoLook
  /\ look.kind \in Subjects /\ look.subject \in DOMAIN RecordsOf(look.kind)

\* What a look is answered with: a view that fits, and where no mark says
\* otherwise all there is.
LEMMA FittedIs ==
  ASSUME Sized, InterpretationInv, pc = "published", NEW look, Looking(look), NEW detail, look.detail = detail,
         Trees(detail.activities), detail.attachments \in Seq(Nat),
         NEW fitted, fitted = IF look.kind = "test" THEN FocusedTest(look.subject, detail)
                              ELSE FocusedDiagnostic(RecordsOf(look.kind)[look.subject], detail),
         NEW cut, cut = fitted.truncation
  PROVE  /\ cut.omitted \in {0, 1} /\ {cut.field, cut.collection, cut.response} \subseteq BOOLEAN
         /\ cut.omitted = 0 => fitted.view \in View /\ FitsCap(fitted.view)
         /\ (\A record : Readable(Written(record).lines)) /\ cut.omitted = 0 /\ ~cut.field /\ ~cut.collection =>
              fitted.view = About(look)
<1>1. /\ IsSequence(report.index.testFailures) /\ Countable(report.index.occurrences)
  BY ReportIsListed
<1>3. CASE look.kind = "test"
  <2>1. PICK i : i = look.subject
    OBVIOUS
  <2>2. i \in DOMAIN report.index.occurrences
    BY <1>3, <2>1 DEF RecordsOf, Looking
  <2>3. report.index.occurrences[i].attempts \in Nat
    BY <1>1, <2>2 DEF Countable, ToSet
  <2>4. fitted = FocusedTest(i, detail)
    BY <1>3, <2>1
  <2>5. About(look) = WholeTest(i, detail)
    BY <1>3, <2>1 DEF About
  <2>6. /\ cut.omitted \in {0, 1} /\ {cut.field, cut.collection, cut.response} \subseteq BOOLEAN
        /\ cut.omitted = 0 => fitted.view \in View /\ FitsCap(fitted.view)
        /\ cut.omitted = 0 /\ ~cut.field /\ ~cut.collection => fitted.view = WholeTest(i, detail)
    BY <1>1, <2>3, <2>4, TestIsWhole
  <2>7. QED
    BY <2>5, <2>6
<1>4. CASE look.kind # "test"
  <2>1. PICK record : record = RecordsOf(look.kind)[look.subject]
    OBVIOUS
  <2>2. fitted = FocusedDiagnostic(record, detail)
    BY <1>4, <2>1
  <2>3. About(look) = WholeDiagnostic(record, detail)
    BY <1>4, <2>1 DEF About
  <2>4. /\ cut.omitted \in {0, 1} /\ {cut.field, cut.collection, cut.response} \subseteq BOOLEAN
        /\ cut.omitted = 0 => fitted.view \in View /\ FitsCap(fitted.view)
        /\ Readable(Written(record).lines) /\ cut.omitted = 0 /\ ~cut.field /\ ~cut.collection =>
             fitted.view = WholeDiagnostic(record, detail)
    BY <2>2, DiagnosticIsWhole
  <2>5. QED
    BY <2>3, <2>4
<1>5. QED
  BY <1>3, <1>4

\* An answer is available only if what was asked for was.
LEMMA RespondIs ==
  ASSUME Sized, InterpretationInv, pc = "published", NEW look, Looking(look),
         NEW lazy \in {"available", "incomplete", "unsupported"},
         NEW detail, Trees(detail.activities), detail.attachments \in Seq(Nat),
         NEW answered, answered = Respond(look, lazy, detail)
  PROVE  /\ DOMAIN answered = DOMAIN NoLook
         /\ answered.step = "answered" /\ answered.kind = look.kind /\ answered.subject = look.subject
         /\ answered.late = look.late /\ answered.served = look.served
         /\ Answerable(answered.answer) /\ (answered.answer.status = "available" => lazy = "available")
         /\ answered.answer.status # "unsupported" /\ answered.answer.truncation.omitted = 0 =>
              /\ FitsCap(answered.answer.view)
              /\ (\A record : Readable(Written(record).lines)) =>
                   \/ answered.answer.truncation.field \/ answered.answer.truncation.collection
                   \/ answered.answer.view = About(answered)
<1>1. PICK fitted : fitted = IF look.kind = "test" THEN FocusedTest(look.subject, detail)
                             ELSE FocusedDiagnostic(RecordsOf(look.kind)[look.subject], detail)
  OBVIOUS
<1>2. PICK cut : cut = fitted.truncation
  OBVIOUS
<1>3. PICK seen : seen = [look EXCEPT !.detail = detail]
  OBVIOUS
<1>4. /\ DOMAIN look = {"step", "kind", "subject", "late", "served", "detail", "answer"}
      /\ DOMAIN NoLook = {"step", "kind", "subject", "late", "served", "detail", "answer"}
  BY DEF Looking, NoLook
<1>5. Looking(seen) /\ seen.detail = detail /\ seen.kind = look.kind /\ seen.subject = look.subject
  <2>1. seen.detail = detail /\ seen.kind = look.kind /\ seen.subject = look.subject /\ DOMAIN seen = DOMAIN look
    BY <1>3, <1>4
  <2>2. QED
    BY <2>1 DEF Looking
<1>6. /\ cut.omitted \in {0, 1} /\ {cut.field, cut.collection, cut.response} \subseteq BOOLEAN
      /\ cut.omitted = 0 => fitted.view \in View /\ FitsCap(fitted.view)
      /\ (\A record : Readable(Written(record).lines)) /\ cut.omitted = 0 /\ ~cut.field /\ ~cut.collection =>
           fitted.view = About(seen)
  <2>1. fitted = IF seen.kind = "test" THEN FocusedTest(seen.subject, detail)
                 ELSE FocusedDiagnostic(RecordsOf(seen.kind)[seen.subject], detail)
    BY <1>1, <1>5
  <2>2. QED
    BY <1>2, <1>5, <2>1, FittedIs
<1>7. PICK answer : answer = IF lazy = "unsupported" THEN [status |-> "unsupported"]
                             ELSE [status |-> IF cut.omitted > 0 \/ lazy = "incomplete" THEN "incomplete" ELSE "available",
                                   view |-> fitted.view, truncation |-> cut]
  OBVIOUS
<1>8. answered = [look EXCEPT !.step = "answered", !.detail = detail, !.answer = answer]
  BY <1>1, <1>2, <1>7, Zenon DEF Respond
<1>9. /\ DOMAIN answered = DOMAIN look /\ answered.step = "answered" /\ answered.kind = look.kind
      /\ answered.subject = look.subject /\ answered.late = look.late /\ answered.served = look.served
      /\ answered.detail = detail /\ answered.answer = answer
  BY <1>4, <1>8
<1>10. About(answered) = About(seen)
  BY <1>5, <1>9 DEF About
<1>11. CASE lazy = "unsupported"
  <2>1. answer.status = "unsupported"
    BY <1>7, <1>11
  <2>2. QED
    BY <1>4, <1>9, <1>11, <2>1 DEF Answerable
<1>12. CASE lazy # "unsupported"
  <2>1. /\ answer.view = fitted.view /\ answer.truncation = cut
        /\ answer.status = IF cut.omitted > 0 \/ lazy = "incomplete" THEN "incomplete" ELSE "available"
    BY <1>7, <1>12
  <2>2. answer.status \in {"available", "incomplete"} /\ (answer.status = "available" => lazy = "available")
    BY <1>12, <2>1
  <2>3. Answerable(answered.answer)
    BY <1>6, <1>9, <2>1, <2>2 DEF Answerable
  <2>4. QED
    BY <1>4, <1>6, <1>9, <1>10, <2>1, <2>2, <2>3
<1>13. QED
  BY <1>11, <1>12

-----------------------------------------------------------------------------
(* The steps of a look. *)

\* What a look rests on where its answer is to be trusted: messages that can
\* be read whole or not at all, and a bundle nobody changes once it was
\* digested.
Undisturbed == (\A record : Readable(Written(record).lines)) /\ "after" \notin Disturbed

\* What an answer says.
Answering ==
  LET answer == focus.answer
  IN /\ Answerable(answer)
     /\ answer.status # "unsupported" /\ answer.truncation.omitted = 0 =>
          /\ FitsCap(answer.view)
          /\ Undisturbed => answer.truncation.field \/ answer.truncation.collection \/ answer.view = About(focus)
     /\ answer.status = "available" =>
          /\ ~focus.late /\ OccurrenceFor(focus.kind, focus.subject) # 0
          /\ Undisturbed => store.kept /\ store.tool /\ focus.served = store.indexed

LookInv ==
  /\ focus.step \in {"none", "digest", "read", "answered"}
  /\ focus.kind \in Subjects \cup {"none"} /\ focus.answer.status \in {"none", "available", "incomplete", "unsupported"}
  /\ store.recorded \in {NoDigest, 0, 1} /\ store.version \in 0 .. 3
  /\ focus.step = "none" => focus = NoLook
  /\ focus.step \in {"digest", "read"} =>
       /\ Looking(focus) /\ OccurrenceFor(focus.kind, focus.subject) # 0
       /\ store \in Bundles /\ store.kept /\ store.tool
  /\ focus.step = "read" => store.recorded = store.version
  /\ focus.step = "answered" => Answering

\* All there is about a subject, a step later.
LEMMA SameAbout ==
  ASSUME NEW look, focus' = look, report' = report
  PROVE  /\ About(focus)' = About(look) /\ Looking(focus)' = Looking(look)
         /\ OccurrenceFor(focus.kind, focus.subject)' = OccurrenceFor(look.kind, look.subject)
<1>1. \A i : FailureSizes(i)' = FailureSizes(i)
  BY DEF FailureSizes, FailuresOf, SummarySize
<1>2. \A kind : RecordsOf(kind)' = RecordsOf(kind)
  BY DEF RecordsOf
<1>3. \A record, detail : WholeDiagnostic(record, detail)' = WholeDiagnostic(record, detail)
  BY DEF WholeDiagnostic
<1>4. \A i, detail : WholeTest(i, detail)' = WholeTest(i, detail)
  BY <1>1 DEF WholeTest
<1>5. About(focus)' = About(look)
  BY <1>2, <1>3, <1>4 DEF About
<1>6. Looking(focus)' = Looking(look)
  BY <1>2 DEF Looking, NoLook
<1>7. OccurrenceFor(focus.kind, focus.subject)' = OccurrenceFor(look.kind, look.subject)
  BY DEF OccurrenceFor
<1>8. QED
  BY <1>5, <1>6, <1>7

\* What is decoded of nothing.
LEMMA NothingIsLeft ==
  Trees(NoLook.detail.activities) /\ NoLook.detail.attachments \in Seq(Nat)
<1>1. NoLook.detail.activities = <<>> /\ NoLook.detail.attachments = <<>>
  BY DEF NoLook
<1>2. IsSequence(<<>>) /\ DOMAIN <<>> = {}
  BY EmptyIsSequence
<1>3. QED
  BY <1>1, <1>2 DEF Trees

\* What is said when nothing was read.
LEMMA UnreadKeeps ==
  ASSUME Sized, InterpretationInv, pc = "published", NEW look, Looking(look), NEW lazy \in {"incomplete", "unsupported"},
         focus' = Respond(look, lazy, NoLook.detail), report' = report,
         store'.recorded \in {NoDigest, 0, 1}, store'.version \in 0 .. 3
  PROVE  LookInv'
<1>1. PICK answered : answered = Respond(look, lazy, NoLook.detail)
  OBVIOUS
<1>2. PICK detail : detail = NoLook.detail
  OBVIOUS
<1>3. /\ Trees(detail.activities) /\ detail.attachments \in Seq(Nat) /\ answered = Respond(look, lazy, detail)
      /\ lazy \in {"available", "incomplete", "unsupported"}
  BY <1>1, <1>2, NothingIsLeft
<1>4. /\ DOMAIN answered = DOMAIN NoLook
      /\ answered.step = "answered" /\ answered.kind = look.kind /\ answered.subject = look.subject
      /\ answered.late = look.late /\ answered.served = look.served
      /\ Answerable(answered.answer) /\ (answered.answer.status = "available" => lazy = "available")
      /\ answered.answer.status # "unsupported" /\ answered.answer.truncation.omitted = 0 =>
           /\ FitsCap(answered.answer.view)
           /\ (\A record : Readable(Written(record).lines)) =>
                \/ answered.answer.truncation.field \/ answered.answer.truncation.collection
                \/ answered.answer.view = About(answered)
  BY <1>3, RespondIs
<1>5. focus' = answered /\ About(focus)' = About(answered)
  <2>1. focus' = answered
    BY <1>1
  <2>2. QED
    BY <2>1, SameAbout
<1>6. Answering'
  <2>1. answered.answer.status # "available"
    BY <1>4
  <2>2. Answerable(focus.answer)' = Answerable(answered.answer)
    BY <1>5 DEF Answerable, View, Item
  <2>3. \A view : FitsCap(view)' = FitsCap(view)
    BY DEF FitsCap, ViewBytes
  <2>4. QED
    BY <1>4, <1>5, <2>1, <2>2, <2>3 DEF Answering, Undisturbed, Readable
<1>7. look.kind \in Subjects /\ answered.answer.status \in {"none", "available", "incomplete", "unsupported"}
  BY <1>4 DEF Looking, Answerable
<1>8. QED
  BY <1>4, <1>5, <1>6, <1>7 DEF LookInv

\* The look begins.
LEMMA LookKeeps ==
  ASSUME Sized, InterpretationInv, pc = "published", report' = report,
         NEW kind \in Subjects, NEW subject \in DOMAIN RecordsOf(kind), NEW retained \in Bundles,
         Look(kind, subject, retained)
  PROVE  LookInv'
<1>1. PICK look : look = [NoLook EXCEPT !.kind = kind, !.subject = subject]
  OBVIOUS
<1>2. Looking(look) /\ look.kind = kind /\ look.subject = subject /\ look.answer.status = "none"
  <2>1. DOMAIN look = DOMAIN NoLook /\ look.kind = kind /\ look.subject = subject /\ look.answer.status = "none"
    BY <1>1 DEF NoLook
  <2>2. QED
    BY <2>1 DEF Looking
<1>3. store' = retained /\ retained.recorded \in {NoDigest, 0, 1} /\ retained.version \in 0 .. 3
  <2>1. retained.recorded \in {NoDigest, 0, 1} /\ retained.version \in 0 .. 2
    BY BundleIs
  <2>2. store' = retained
    BY DEF Look
  <2>3. QED
    BY <2>1, <2>2
<1>4. focus' = CASE OccurrenceFor(kind, subject) = 0 \/ ~retained.kept -> Respond(look, "incomplete", NoLook.detail)
                 [] OccurrenceFor(kind, subject) # 0 /\ retained.kept /\ ~retained.tool
                      -> Respond(look, "unsupported", NoLook.detail)
                 [] OTHER -> [look EXCEPT !.step = "digest"]
  BY <1>1, Zenon DEF Look
<1>5. CASE OccurrenceFor(kind, subject) = 0 \/ ~retained.kept
  <2>1. focus' = Respond(look, "incomplete", NoLook.detail)
    BY <1>4, <1>5
  <2>2. QED
    BY <1>2, <1>3, <2>1, UnreadKeeps
<1>6. CASE OccurrenceFor(kind, subject) # 0 /\ retained.kept /\ ~retained.tool
  <2>1. focus' = Respond(look, "unsupported", NoLook.detail)
    BY <1>4, <1>6
  <2>2. QED
    BY <1>2, <1>3, <2>1, UnreadKeeps
<1>7. CASE OccurrenceFor(kind, subject) # 0 /\ retained.kept /\ retained.tool
  <2>1. focus' = [look EXCEPT !.step = "digest"]
    BY <1>4, <1>7
  <2>2. PICK next : next = [look EXCEPT !.step = "digest"]
    OBVIOUS
  <2>3. Looking(next) /\ next.step = "digest" /\ next.kind = kind /\ next.subject = subject /\ next.answer.status = "none"
    <3>1. DOMAIN look = {"step", "kind", "subject", "late", "served", "detail", "answer"}
      BY <1>1 DEF NoLook
    <3>2. /\ next.step = "digest" /\ next.kind = kind /\ next.subject = subject /\ next.answer = look.answer
          /\ DOMAIN next = DOMAIN look
      BY <1>2, <2>2, <3>1
    <3>3. QED
      BY <1>2, <3>2 DEF Looking
  <2>4. /\ Looking(focus)' = Looking(next) /\ focus' = next
        /\ OccurrenceFor(focus.kind, focus.subject)' = OccurrenceFor(next.kind, next.subject)
    <3>1. focus' = next
      BY <2>1, <2>2
    <3>2. QED
      BY <3>1, SameAbout
  <2>5. (store \in Bundles)'
    BY <1>3 DEF Bundles, Untouched, NoDigest, Stabilize
  <2>6. QED
    BY <1>3, <1>7, <2>3, <2>4, <2>5 DEF LookInv
<1>8. QED
  BY <1>5, <1>6, <1>7

\* The digest is compared with its record.
LEMMA VerifyKeeps ==
  ASSUME Sized, InterpretationInv, pc = "published", LookInv, report' = report, Verify
  PROVE  LookInv'
<1>1. /\ focus.step = "digest" /\ Looking(focus) /\ OccurrenceFor(focus.kind, focus.subject) # 0
      /\ store \in Bundles /\ store.kept /\ store.tool /\ store' = store
      /\ store.recorded \in {NoDigest, 0, 1} /\ store.version \in 0 .. 3
  BY DEF Verify, LookInv
<1>2. CASE focus.late \/ ~store.readable \/ store.recorded # store.version
  <2>1. focus' = Respond(focus, "incomplete", NoLook.detail)
    BY <1>2 DEF Verify, Answer
  <2>2. QED
    BY <1>1, <2>1, UnreadKeeps
<1>3. CASE ~(focus.late \/ ~store.readable \/ store.recorded # store.version)
  <2>1. PICK next : next = [focus EXCEPT !.step = "read"]
    OBVIOUS
  <2>2. focus' = next
    BY <1>3, <2>1 DEF Verify
  <2>3. Looking(next) /\ next.step = "read" /\ next.kind = focus.kind /\ next.subject = focus.subject
        /\ next.answer = focus.answer
    <3>1. DOMAIN focus = {"step", "kind", "subject", "late", "served", "detail", "answer"}
      BY <1>1 DEF Looking, NoLook
    <3>2. /\ next.step = "read" /\ next.kind = focus.kind /\ next.subject = focus.subject /\ next.answer = focus.answer
          /\ DOMAIN next = DOMAIN focus
      BY <2>1, <3>1
    <3>3. QED
      BY <1>1, <3>2 DEF Looking
  <2>4. /\ Looking(focus)' = Looking(next)
        /\ OccurrenceFor(focus.kind, focus.subject)' = OccurrenceFor(next.kind, next.subject)
    BY <2>2, SameAbout
  <2>5. (store \in Bundles)'
    BY <1>1 DEF Bundles, Untouched, NoDigest, Stabilize
  <2>6. focus.kind \in Subjects /\ focus.answer.status \in {"none", "available", "incomplete", "unsupported"}
    BY <1>1 DEF LookInv, Looking
  <2>7. store.recorded = store.version
    BY <1>3
  <2>8. QED
    BY <1>1, <2>2, <2>3, <2>4, <2>5, <2>6, <2>7 DEF LookInv
<1>4. QED
  BY <1>2, <1>3

\* The detail is read; where nobody writes into the bundle after its digest,
\* it is the run's.
LEMMA ReadKeeps ==
  ASSUME Sized, \A detail \in Detail : LeftDetail(detail),
         InterpretationInv, pc = "published", LookInv, report' = report, ReadDetail
  PROVE  LookInv'
<1>1. /\ focus.step = "read" /\ Looking(focus) /\ OccurrenceFor(focus.kind, focus.subject) # 0
      /\ store \in Bundles /\ store.kept /\ store.tool /\ store.recorded = store.version
  BY DEF ReadDetail, LookInv
<1>2. /\ store.recorded \in {NoDigest, 0, 1} /\ store.version \in 0 .. 2 /\ store.version = store.indexed
      /\ DOMAIN store = {"version", "indexed", "recorded", "kept", "readable", "tool"}
  BY <1>1, BundleIs
<1>3. store'.recorded \in {NoDigest, 0, 1} /\ store'.version \in 0 .. 3 /\ ("after" \notin Disturbed => store' = store)
  <2>1. CASE store' = store
    BY <1>2, <2>1
  <2>2. CASE store' = [store EXCEPT !.version = @ + 1] /\ "after" \in Disturbed
    BY <1>2, <2>2
  <2>3. store' \in {store} \cup {[store EXCEPT !.version = @ + 1] : when \in Disturbed \cap {"after"}}
    BY DEF ReadDetail
  <2>4. QED
    BY <2>1, <2>2, <2>3
<1>4. CASE Answer("incomplete", NoLook.detail)
  <2>1. focus' = Respond(focus, "incomplete", NoLook.detail)
    BY <1>4 DEF Answer
  <2>2. QED
    BY <1>1, <1>3, <2>1, UnreadKeeps
<1>5. ASSUME NEW left \in Detail, ~focus.late,
             focus' = [Respond(focus, "available", DecodeTestDetails(left)) EXCEPT !.served = store'.version]
      PROVE  LookInv'
  <2>1. PICK detail : detail = DecodeTestDetails(left)
    OBVIOUS
  <2>2. LeftDetail(left)
    BY <1>5
  <2>3. Trees(detail.activities) /\ detail.attachments \in Seq(Nat)
    BY <2>1, <2>2, DecodedIs
  <2>4. PICK answered : answered = Respond(focus, "available", detail)
    OBVIOUS
  <2>5. /\ DOMAIN answered = DOMAIN NoLook
        /\ answered.step = "answered" /\ answered.kind = focus.kind /\ answered.subject = focus.subject
        /\ answered.late = focus.late /\ Answerable(answered.answer)
        /\ answered.answer.status # "unsupported" /\ answered.answer.truncation.omitted = 0 =>
             /\ FitsCap(answered.answer.view)
             /\ (\A record : Readable(Written(record).lines)) =>
                  \/ answered.answer.truncation.field \/ answered.answer.truncation.collection
                  \/ answered.answer.view = About(answered)
    BY <1>1, <2>3, <2>4, RespondIs
  <2>6. PICK v : v = store'.version
    OBVIOUS
  <2>7. PICK next : next = [answered EXCEPT !.served = v]
    OBVIOUS
  <2>8. focus' = next
    BY <1>5, <2>1, <2>4, <2>6, <2>7
  <2>9. /\ next.step = "answered" /\ next.kind = focus.kind /\ next.subject = focus.subject /\ next.late = focus.late
        /\ next.answer = answered.answer /\ next.detail = answered.detail /\ next.served = v
    <3>1. DOMAIN answered = {"step", "kind", "subject", "late", "served", "detail", "answer"}
      BY <2>5 DEF NoLook
    <3>2. QED
      BY <2>5, <2>7, <3>1
  <2>10. About(next) = About(answered)
    BY <2>5, <2>9 DEF About
  <2>11. /\ About(focus)' = About(next)
         /\ OccurrenceFor(focus.kind, focus.subject)' = OccurrenceFor(next.kind, next.subject)
    BY <2>8, SameAbout
  <2>12. "after" \notin Disturbed => store'.kept /\ store'.tool /\ v = store'.indexed
    BY <1>1, <1>2, <1>3, <2>6
  <2>13. Answering'
    <3>1. Answerable(focus.answer)' = Answerable(answered.answer)
      BY <2>8, <2>9 DEF Answerable, View, Item
    <3>2. \A view : FitsCap(view)' = FitsCap(view)
      BY DEF FitsCap, ViewBytes
    <3>3. /\ Answerable(focus.answer)'
          /\ (focus.answer.status # "unsupported" /\ focus.answer.truncation.omitted = 0 =>
                /\ FitsCap(focus.answer.view)
                /\ Undisturbed =>
                     focus.answer.truncation.field \/ focus.answer.truncation.collection \/ focus.answer.view = About(focus))'
      BY <2>5, <2>8, <2>9, <2>10, <2>11, <3>1, <3>2 DEF Undisturbed, Readable
    <3>4. (/\ ~focus.late /\ OccurrenceFor(focus.kind, focus.subject) # 0
           /\ Undisturbed => store.kept /\ store.tool /\ focus.served = store.indexed)'
      BY <1>1, <1>5, <2>8, <2>9, <2>11, <2>12 DEF Undisturbed
    <3>5. QED
      BY <3>3, <3>4 DEF Answering
  <2>14. focus.kind \in Subjects /\ answered.answer.status \in {"none", "available", "incomplete", "unsupported"}
    BY <1>1, <2>5 DEF Looking, Answerable
  <2>15. QED
    BY <1>3, <2>8, <2>9, <2>13, <2>14 DEF LookInv
<1>6. QED
  BY <1>4, <1>5 DEF ReadDetail

\* Nothing else changes.
LEMMA LateKeeps ==
  ASSUME LookInv, report' = report, LookIsLate
  PROVE  LookInv'
<1>1. PICK next : next = [focus EXCEPT !.late = TRUE]
  OBVIOUS
<1>2. focus' = next /\ store' = store /\ focus.step \in {"digest", "read"}
  BY <1>1 DEF LookIsLate
<1>3. /\ Looking(focus) /\ OccurrenceFor(focus.kind, focus.subject) # 0
      /\ store \in Bundles /\ store.kept /\ store.tool
  BY <1>2 DEF LookInv
<1>4. Looking(next) /\ next.step = focus.step /\ next.kind = focus.kind /\ next.subject = focus.subject
      /\ next.answer = focus.answer
  <2>1. DOMAIN focus = {"step", "kind", "subject", "late", "served", "detail", "answer"}
    BY <1>3 DEF Looking, NoLook
  <2>2. /\ next.step = focus.step /\ next.kind = focus.kind /\ next.subject = focus.subject
        /\ next.answer = focus.answer /\ DOMAIN next = DOMAIN focus
    BY <1>1, <2>1
  <2>3. QED
    BY <1>3, <2>2 DEF Looking
<1>5. /\ Looking(focus)' = Looking(next)
      /\ OccurrenceFor(focus.kind, focus.subject)' = OccurrenceFor(next.kind, next.subject)
  BY <1>2, SameAbout
<1>6. (store \in Bundles)'
  BY <1>2, <1>3 DEF Bundles, Untouched, NoDigest, Stabilize
<1>7. QED
  BY <1>2, <1>3, <1>4, <1>5, <1>6 DEF LookInv

\* And what does not touch the look leaves it as it is.
LEMMA LookStays ==
  ASSUME LookInv, report' = report, UNCHANGED focusing
  PROVE  LookInv'
<1>1. focus' = focus /\ store' = store
  BY DEF focusing
<1>2. /\ About(focus)' = About(focus) /\ Looking(focus)' = Looking(focus)
      /\ OccurrenceFor(focus.kind, focus.subject)' = OccurrenceFor(focus.kind, focus.subject)
  BY <1>1, SameAbout
<1>3. (store \in Bundles)' <=> store \in Bundles
  BY <1>1 DEF Bundles, Untouched, NoDigest, Stabilize
<1>4. Answering' <=> Answering
  <2>1. Answerable(focus.answer)' = Answerable(focus.answer)
    BY <1>1 DEF Answerable, View, Item
  <2>2. \A view : FitsCap(view)' = FitsCap(view)
    BY DEF FitsCap, ViewBytes
  <2>3. QED
    BY <1>1, <1>2, <2>1, <2>2 DEF Answering, Undisturbed, Readable
<1>5. QED
  BY <1>1, <1>2, <1>3, <1>4 DEF LookInv, NoLook

\* What the invariant says of the answers.
LEMMA DetailIsRun ==
  ASSUME LookInv, Undisturbed
  PROVE  DetailIsTheRuns
<1>1. Everything = About(focus)
  BY Zenon DEF Everything, About, WholeTest, WholeDiagnostic, RecordsOf
<1>2. QED
  BY <1>1 DEF DetailIsTheRuns, LookInv, Answering, Answerable

\* A look of which the invariant holds is well typed.
LEMMA LookIsTyped ==
  ASSUME LookInv
  PROVE  FocusTypeOK
BY DEF LookInv, FocusTypeOK

-----------------------------------------------------------------------------
(* The pages a caller has seen. *)

\* A page is of a facet, ends in it and moves on; its cursor is where it ends.
PageOk(p) ==
  LET end == p.first + Consumed(p)
      length == Length(p.facet, p.status)
  IN /\ p.facet \in Facet /\ p.first \in Nat /\ p.kept \in Nat /\ p.omitted \in {0, 1}
     /\ p.answer \in {"available", "incomplete"}
     /\ length \in Nat /\ end <= length /\ (p.first < length => end > p.first)
     /\ p.cursor = NextCursor(p.facet, p.status, end, length)
     /\ p.facet = "log" /\ p.cursor # NoCursor => Log[p.first + p.kept + 1] # 0

\* One page goes on where the other ended.
Continues(p, q) == p.facet = q.facet /\ p.status = q.status /\ q.first = p.first + Consumed(p)

Paged(pages) ==
  /\ IsSequence(pages) /\ \A i \in DOMAIN pages : PageOk(pages[i])
  /\ \A i \in DOMAIN pages : /\ i = 1 => pages[i].first = 0
                             /\ i > 1 => Continues(pages[i - 1], pages[i])

\* A cursor is of a facet, or none.
LEMMA NextCursorIs ==
  ASSUME NEW facet \in Facet, NEW status, NEW position \in Nat, NEW total \in Nat,
         NEW cursor, cursor = NextCursor(facet, status, position, total)
  PROVE  /\ cursor # NoCursor <=> position < total
         /\ cursor # NoCursor => cursor.facet = facet /\ cursor.status = status /\ cursor.position = position
         /\ cursor.facet \in Facet \cup {"none"} /\ cursor.position \in Nat
<1>1. facet # "none"
  BY DEF Facet
<1>2. CASE position < total
  <2>1. cursor = [facet |-> facet, status |-> status, position |-> position]
    BY <1>2 DEF NextCursor
  <2>2. cursor.facet = facet /\ cursor.status = status /\ cursor.position = position
    BY <2>1
  <2>3. NoCursor.facet = "none"
    BY DEF NoCursor
  <2>4. QED
    BY <1>1, <1>2, <2>2, <2>3
<1>3. CASE ~(position < total)
  <2>1. cursor = NoCursor
    BY <1>3 DEF NextCursor
  <2>2. QED
    BY <1>3, <2>1 DEF NoCursor
<1>4. QED
  BY <1>2, <1>3

\* A page more, that goes on where the last one ended.
LEMMA PageFollows ==
  ASSUME NEW pages, Paged(pages), NEW p, PageOk(p), pages = <<>> => p.first = 0,
         pages # <<>> => Continues(pages[Len(pages)], p), NEW more, more = Append(pages, p)
  PROVE  Paged(more) /\ more # <<>> /\ more[Len(more)] = p
<1>1. PICK n \in Nat : n = Len(pages) /\ DOMAIN pages = 1 .. n /\ pages \in Seq(ToSet(pages))
  <2>1. IsSequence(pages)
    BY DEF Paged
  <2>2. QED
    BY <2>1, IsList
<1>2. PICK S : S = ToSet(pages) \cup {p}
  OBVIOUS
<1>3. pages \in Seq(S) /\ p \in S
  BY <1>1, <1>2
<1>4. /\ more \in Seq(S) /\ Len(more) = n + 1 /\ DOMAIN more = 1 .. n + 1 /\ more[n + 1] = p
      /\ \A i \in 1 .. n : more[i] = pages[i]
  BY <1>1, <1>3
<1>5. IsSequence(more)
  BY <1>4, SeqIsList
<1>6. ASSUME NEW i \in 1 .. n + 1
      PROVE  PageOk(more[i]) /\ (i = 1 => more[i].first = 0) /\ (i > 1 => Continues(more[i - 1], more[i]))
  <2>1. CASE i \in 1 .. n
    <3>1. more[i] = pages[i] /\ (i > 1 => more[i - 1] = pages[i - 1])
      BY <1>4, <2>1
    <3>2. PageOk(pages[i]) /\ (i = 1 => pages[i].first = 0) /\ (i > 1 => Continues(pages[i - 1], pages[i]))
      BY <1>1, <2>1 DEF Paged
    <3>3. QED
      BY <3>1, <3>2
  <2>2. CASE i = n + 1
    <3>1. more[i] = p /\ (i > 1 => more[i - 1] = pages[n] /\ n >= 1)
      BY <1>1, <1>4, <2>2
    <3>2. i = 1 => pages = <<>>
      BY <1>1, <2>2
    <3>3. i > 1 => pages # <<>>
      BY <1>1, <2>2
    <3>4. QED
      BY <1>1, <3>1, <3>2, <3>3
  <2>3. QED
    BY <1>1, <2>1, <2>2
<1>7. Paged(more)
  BY <1>4, <1>5, <1>6 DEF Paged
<1>8. more # <<>> /\ more[Len(more)] = p
  BY <1>1, <1>4
<1>9. QED
  BY <1>7, <1>8

\* What a facet holds does not change.
LEMMA SamePages ==
  ASSUME report' = report, NEW pages
  PROVE  Paged(pages)' <=> Paged(pages)
<1>1. \A facet, status : Length(facet, status)' = Length(facet, status)
  BY DEF Length, RecordsFor
<1>2. \A p : PageOk(p)' <=> PageOk(p)
  BY <1>1 DEF PageOk
<1>3. QED
  BY <1>2 DEF Paged

\* The pages tile what they are of, and end between characters.
LEMMA PagedTile ==
  ASSUME Paged(reader.pages)
  PROVE  /\ PagesTile /\ WindowsKeepCharacters
         /\ \A p \in ToSet(reader.pages) : p.kept \in Nat /\ p.omitted \in {0, 1} /\ p.answer \in {"available", "incomplete"}
<1>1. ASSUME NEW i \in DOMAIN reader.pages, NEW p, p = reader.pages[i], NEW end, end = p.first + Consumed(p)
      PROVE  /\ i = 1 => p.first = 0
             /\ i > 1 => Continues(reader.pages[i - 1], p)
             /\ p.cursor # NoCursor => end > p.first
             /\ p.cursor = NoCursor => end = Length(p.facet, p.status)
             /\ p.facet = "log" /\ p.cursor # NoCursor => Log[p.first + p.kept + 1] # 0
             /\ p.kept \in Nat /\ p.omitted \in {0, 1} /\ p.answer \in {"available", "incomplete"}
  <2>1. PageOk(p) /\ (i = 1 => p.first = 0) /\ (i > 1 => Continues(reader.pages[i - 1], p))
    BY <1>1 DEF Paged
  <2>2. PICK length : length = Length(p.facet, p.status)
    OBVIOUS
  <2>3. /\ p.facet \in Facet /\ p.first \in Nat /\ p.kept \in Nat /\ p.omitted \in {0, 1}
        /\ length \in Nat /\ end <= length /\ (p.first < length => end > p.first)
        /\ p.cursor = NextCursor(p.facet, p.status, end, length)
    BY <1>1, <2>1, <2>2 DEF PageOk
  <2>4. end \in Nat /\ end >= p.first
    BY <1>1, <2>3 DEF Consumed
  <2>5. p.cursor # NoCursor <=> end < length
    BY <2>3, <2>4, NextCursorIs
  <2>6. (p.cursor # NoCursor => end > p.first) /\ (p.cursor = NoCursor => end = length)
    BY <2>3, <2>4, <2>5
  <2>7. QED
    BY <2>1, <2>2, <2>6 DEF PageOk
<1>2. PagesTile
  BY <1>1 DEF PagesTile, Continues
<1>3. ASSUME NEW p \in ToSet(reader.pages)
      PROVE  /\ p.facet = "log" /\ p.cursor # NoCursor => Log[p.first + p.kept + 1] # 0
             /\ p.kept \in Nat /\ p.omitted \in {0, 1} /\ p.answer \in {"available", "incomplete"}
  <2>1. PICK i \in DOMAIN reader.pages : p = reader.pages[i]
    BY DEF ToSet
  <2>2. QED
    BY <1>1, <2>1
<1>4. WindowsKeepCharacters
  BY <1>3 DEF WindowsKeepCharacters
<1>5. QED
  BY <1>2, <1>3, <1>4

-----------------------------------------------------------------------------
(* The caller. *)

States == {"idle", "told", "reading", "done", "lost", "unsupported", "focusing", "shown"}
Waiting == [state |-> "idle", cursor |-> NoCursor, pages |-> <<>>, text |-> NoText]

\* Who reads has the cursor of the last page he has seen.
ReaderInv ==
  /\ DOMAIN reader = {"state", "cursor", "pages", "text"} /\ reader.state \in States
  /\ reader.state = "idle" => host = NoHost /\ reader = Waiting
  /\ reader.state # "idle" => pc = "published" /\ host \in Host
  /\ Paged(reader.pages)
  /\ reader.pages = <<>> => reader.cursor = NoCursor
  /\ reader.pages # <<>> => reader.cursor = reader.pages[Len(reader.pages)].cursor
  /\ reader.state = "reading" /\ reader.pages # <<>> => reader.cursor # NoCursor
  /\ (NoteFits => HostNeverCuts) /\ FactsReachCaller

\* The cursor of a caller is one that was given out, or none.
LEMMA CursorIsTyped ==
  ASSUME ReaderInv
  PROVE  reader.cursor.facet \in Facet \cup {"none"} /\ reader.cursor.position \in Nat
<1>1. CASE reader.pages = <<>>
  BY <1>1 DEF ReaderInv, NoCursor
<1>2. CASE reader.pages # <<>>
  <2>1. IsSequence(reader.pages)
    BY DEF ReaderInv, Paged
  <2>2. PICK n \in Nat : n = Len(reader.pages) /\ DOMAIN reader.pages = 1 .. n /\ reader.pages \in Seq(ToSet(reader.pages))
    BY <2>1, IsList
  <2>3. n \in DOMAIN reader.pages
    BY <1>2, <2>2
  <2>4. PICK p : p = reader.pages[n]
    OBVIOUS
  <2>5. PageOk(p) /\ reader.cursor = p.cursor
    BY <1>2, <2>2, <2>3, <2>4 DEF ReaderInv, Paged
  <2>6. PICK end : end = p.first + Consumed(p)
    OBVIOUS
  <2>7. PICK length : length = Length(p.facet, p.status)
    OBVIOUS
  <2>8. /\ p.facet \in Facet /\ p.first \in Nat /\ p.kept \in Nat /\ p.omitted \in {0, 1} /\ length \in Nat
        /\ p.cursor = NextCursor(p.facet, p.status, end, length)
    BY <2>5, <2>6, <2>7 DEF PageOk
  <2>9. end \in Nat
    BY <2>6, <2>8 DEF Consumed
  <2>10. QED
    BY <2>5, <2>8, <2>9, NextCursorIs
<1>3. QED
  BY <1>1, <1>2

\* A cursor that is good for a facet stands where the last page of it ended.
LEMMA CursorStands ==
  ASSUME InterpretationInv, ReaderInv, reader.state = "reading", NEW facet \in Facet, NEW status,
         ResolveCursor(facet, status), NEW length, length = Length(facet, status), NEW from, from = reader.cursor.position
  PROVE  /\ length \in Nat /\ from \in 0 .. length
         /\ reader.pages = <<>> => from = 0
         /\ reader.pages # <<>> =>
              LET last == reader.pages[Len(reader.pages)]
              IN last.facet = facet /\ last.status = status /\ from = last.first + Consumed(last)
<1>1. length \in Nat
  <2>1. CASE facet = "log"
    BY <2>1, BytesOfLog DEF Length
  <2>2. CASE facet # "log"
    <3>1. pc = "published" /\ facet \in Facet \ {"log"}
      BY <2>2 DEF ReaderInv
    <3>2. IsSequence(RecordsFor(facet, status))
      BY <3>1, RecordsAreListed
    <3>3. Len(RecordsFor(facet, status)) \in Nat
      BY <3>2, IsList
    <3>4. QED
      BY <2>2, <3>3 DEF Length
  <2>3. QED
    BY <2>1, <2>2
<1>2. CASE reader.pages = <<>>
  <2>1. from = 0
    BY <1>2 DEF ReaderInv, NoCursor
  <2>2. QED
    BY <1>1, <1>2, <2>1
<1>3. CASE reader.pages # <<>>
  <2>1. IsSequence(reader.pages)
    BY DEF ReaderInv, Paged
  <2>2. PICK n \in Nat : n = Len(reader.pages) /\ DOMAIN reader.pages = 1 .. n /\ reader.pages \in Seq(ToSet(reader.pages))
    BY <2>1, IsList
  <2>3. n \in DOMAIN reader.pages
    BY <1>3, <2>2
  <2>4. PICK p : p = reader.pages[n]
    OBVIOUS
  <2>5. PageOk(p) /\ reader.cursor = p.cursor /\ reader.cursor # NoCursor
    BY <1>3, <2>2, <2>3, <2>4 DEF ReaderInv, Paged
  <2>6. PICK end : end = p.first + Consumed(p)
    OBVIOUS
  <2>7. PICK total : total = Length(p.facet, p.status)
    OBVIOUS
  <2>8. /\ p.facet \in Facet /\ p.first \in Nat /\ p.kept \in Nat /\ p.omitted \in {0, 1} /\ total \in Nat
        /\ p.cursor = NextCursor(p.facet, p.status, end, total)
    BY <2>5, <2>6, <2>7 DEF PageOk
  <2>9. end \in Nat
    BY <2>6, <2>8 DEF Consumed
  <2>10. /\ end < total
         /\ p.cursor.facet = p.facet /\ p.cursor.status = p.status /\ p.cursor.position = end
    BY <2>5, <2>8, <2>9, NextCursorIs
  <2>11. p.facet = facet /\ p.status = status /\ from = end
    BY <2>5, <2>10 DEF ResolveCursor
  <2>12. total = length
    BY <2>7, <2>11
  <2>13. QED
    BY <1>1, <1>3, <2>2, <2>4, <2>6, <2>9, <2>10, <2>11, <2>12
<1>4. QED
  BY <1>2, <1>3

\* What the caller knows of the host and of the report stays.
LEMMA SameHost ==
  ASSUME host' = host, NEW text, text = reader'.text, NEW document \in Seq(Blocks), document # <<>>,
         text = Serialize(document), host \in Host
  PROVE  (NoteFits => HostNeverCuts') /\ (Roomy' <=> Roomy)
<1>1. NoteFits => /\ Serialize(document).lines <= Ceiling.lines
                  /\ Serialize(document).bytes <= Ceiling.bytes
  BY TextFitsTheHost
<1>2. Ceiling' = Ceiling
  BY DEF Ceiling
<1>3. NoteFits => HostNeverCuts'
  BY <1>1, <1>2 DEF HostNeverCuts
<1>4. Roomy' <=> Roomy
  BY <1>2 DEF Roomy, Budget, NoHost
<1>5. QED
  BY <1>3, <1>4

\* So it is with the pages that he who reads has seen.
LEMMA SameSeen ==
  ASSUME report' = report, NEW pages, Paged(pages), reader'.pages = pages
  PROVE  Paged(reader.pages)'
<1>1. Paged(pages)'
  BY SamePages
<1>2. \A facet, status : Length(facet, status)' = Length(facet, status)
  BY DEF Length, RecordsFor
<1>3. Paged(reader.pages)' <=> Paged(pages)'
  BY <1>2 DEF Paged, PageOk
<1>4. QED
  BY <1>1, <1>3

\* A text is shown, of a page or not.
LEMMA TextKeeps ==
  ASSUME ReaderInv, reader.state \in {"reading", "focusing"}, UNCHANGED <<interpreting, host>>,
         NEW state \in States \ {"idle"}, state = "reading" => reader.state = "reading",
         NEW document \in Seq(Blocks), document # <<>>,
         Roomy => state # "lost",
         Roomy /\ state = "told" => {1, 3} \subseteq Serialize(document).kept /\ ~Serialize(document).cut,
         reader' = [reader EXCEPT !.state = state, !.text = Serialize(document)]
  PROVE  ReaderInv'
<1>1. PICK text : text = Serialize(document)
  OBVIOUS
<1>2. /\ reader'.state = state /\ reader'.text = text /\ reader'.cursor = reader.cursor /\ reader'.pages = reader.pages
      /\ DOMAIN reader' = {"state", "cursor", "pages", "text"}
  BY <1>1 DEF ReaderInv
<1>3. pc' = pc /\ report' = report /\ host' = host /\ host \in Host /\ pc = "published"
  BY DEF interpreting, ReaderInv
<1>4. (NoteFits => HostNeverCuts') /\ (Roomy' <=> Roomy)
  BY <1>1, <1>2, <1>3, SameHost
<1>5. FactsReachCaller'
  BY <1>1, <1>2, <1>4 DEF FactsReachCaller
<1>6. Paged(reader.pages)'
  <2>1. Paged(reader.pages)
    BY DEF ReaderInv
  <2>2. PICK pages : pages = reader.pages
    OBVIOUS
  <2>3. report' = report /\ Paged(pages) /\ reader'.pages = pages
    BY <1>2, <1>3, <2>1, <2>2
  <2>4. QED
    BY <2>3, SameSeen
<1>7. QED
  BY <1>2, <1>3, <1>4, <1>5, <1>6 DEF ReaderInv

\* A page is shown.
LEMMA PageKeeps ==
  ASSUME ReaderInv, reader.state = "reading", UNCHANGED <<interpreting, host>>,
         NEW p, PageOk(p), reader.pages = <<>> => p.first = 0,
         reader.pages # <<>> => Continues(reader.pages[Len(reader.pages)], p),
         NEW document \in Seq(Blocks), document # <<>>,
         reader' = [state |-> IF p.cursor = NoCursor THEN "done" ELSE "reading", cursor |-> p.cursor,
                    pages |-> Append(reader.pages, p), text |-> Serialize(document)]
  PROVE  ReaderInv'
<1>1. PICK text : text = Serialize(document)
  OBVIOUS
<1>2. PICK more : more = Append(reader.pages, p)
  OBVIOUS
<1>3. /\ reader'.state = (IF p.cursor = NoCursor THEN "done" ELSE "reading") /\ reader'.text = text
      /\ reader'.cursor = p.cursor /\ reader'.pages = more
      /\ DOMAIN reader' = {"state", "cursor", "pages", "text"}
  BY <1>1, <1>2
<1>4. pc' = pc /\ report' = report /\ host' = host /\ host \in Host /\ pc = "published"
  BY DEF interpreting, ReaderInv
<1>5. (NoteFits => HostNeverCuts') /\ (Roomy' <=> Roomy)
  BY <1>1, <1>3, <1>4, SameHost
<1>6. reader'.state \in {"done", "reading"}
  BY <1>3
<1>7. FactsReachCaller'
  BY <1>6 DEF FactsReachCaller
<1>8. Paged(more) /\ more # <<>> /\ more[Len(more)] = p
  <2>1. PICK pages : pages = reader.pages
    OBVIOUS
  <2>2. Paged(pages)
    BY <2>1 DEF ReaderInv
  <2>3. /\ (pages = <<>> => p.first = 0) /\ (pages # <<>> => Continues(pages[Len(pages)], p))
        /\ more = Append(pages, p)
    BY <1>2, <2>1
  <2>4. QED
    BY <2>2, <2>3, PageFollows
<1>9. Paged(reader.pages)'
  BY <1>3, <1>4, <1>8, SameSeen
<1>10. QED
  BY <1>3, <1>4, <1>5, <1>6, <1>7, <1>8, <1>9 DEF ReaderInv, States

-----------------------------------------------------------------------------
(* The steps of who reads. *)

\* What an answer is about does not matter to who has yet to look.
NotLooking == reader.state \notin {"focusing", "shown"} => focus = NoLook

ReadingInv == InterpretationInv /\ LookInv /\ ReaderInv /\ NotLooking

\* Whether there was no look.
LEMMA NoLookStays ==
  ASSUME LookInv, focus' = NoLook, store' = store
  PROVE  LookInv'
<1>1. NoLook.step = "none" /\ NoLook.kind = "none" /\ NoLook.answer.status = "none"
  BY DEF NoLook
<1>2. store'.recorded \in {NoDigest, 0, 1} /\ store'.version \in 0 .. 3
  BY DEF LookInv
<1>3. NoLook' = NoLook
  BY DEF NoLook, NoDigest
<1>4. (focus.step \notin {"digest", "read", "answered"})'
  BY <1>1
<1>5. QED
  BY <1>1, <1>2, <1>3, <1>4 DEF LookInv

\* Nobody reads before there is a report.
LEMMA IdleStays ==
  ASSUME ReaderInv, reader.state = "idle", UNCHANGED <<host, reader>>
  PROVE  ReaderInv'
<1>1. reader = Waiting /\ host = NoHost /\ reader' = Waiting /\ host' = NoHost
  BY DEF ReaderInv
<1>2. /\ Waiting.state = "idle" /\ Waiting.pages = <<>> /\ Waiting.cursor = NoCursor /\ Waiting.text = NoText
      /\ DOMAIN Waiting = {"state", "cursor", "pages", "text"}
  BY DEF Waiting
<1>3. Paged(reader.pages)'
  <2>1. reader'.pages = <<>>
    BY <1>1, <1>2
  <2>2. IsSequence(<<>>) /\ DOMAIN <<>> = {}
    BY EmptyIsSequence
  <2>3. QED
    BY <2>1, <2>2 DEF Paged
<1>4. (NoteFits => HostNeverCuts') /\ FactsReachCaller'
  BY <1>1, <1>2 DEF HostNeverCuts, FactsReachCaller
<1>5. QED
  BY <1>1, <1>2, <1>3, <1>4 DEF ReaderInv, States, Waiting, NoCursor, NoText

\* Nor while he waits for an answer.
LEMMA ReaderStays ==
  ASSUME ReaderInv, report' = report, pc' = pc, UNCHANGED <<host, reader>>
  PROVE  ReaderInv'
<1>1. PICK pages : pages = reader.pages
  OBVIOUS
<1>2. Paged(pages) /\ reader'.pages = pages
  BY <1>1 DEF ReaderInv
<1>3. Paged(reader.pages)'
  BY <1>2, SameSeen
<1>4. (NoteFits => HostNeverCuts') /\ FactsReachCaller'
  <2>1. Ceiling' = Ceiling
    BY DEF Ceiling
  <2>2. Roomy' <=> Roomy
    BY <2>1 DEF Roomy, Budget, NoHost
  <2>3. (NoteFits => HostNeverCuts) /\ FactsReachCaller
    BY DEF ReaderInv
  <2>4. QED
    BY <2>1, <2>2, <2>3 DEF HostNeverCuts, FactsReachCaller
<1>5. QED
  BY <1>3, <1>4 DEF ReaderInv, States, Waiting, NoCursor, NoText, NoHost

\* A caller turns to the run.
LEMMA OpenKeeps ==
  ASSUME ReaderInv, Open
  PROVE  ReaderInv'
<1>1. reader = Waiting /\ host' \in Host /\ pc' = "published"
  BY DEF Open, ReaderInv, interpreting
<1>2. /\ reader'.state = "reading" /\ reader'.pages = <<>> /\ reader'.cursor = NoCursor /\ reader'.text = NoText
      /\ DOMAIN reader' = {"state", "cursor", "pages", "text"}
  BY <1>1 DEF Open, Waiting
<1>3. Paged(reader.pages)'
  <2>1. IsSequence(<<>>) /\ DOMAIN <<>> = {}
    BY EmptyIsSequence
  <2>2. QED
    BY <1>2, <2>1 DEF Paged
<1>4. (NoteFits => HostNeverCuts') /\ FactsReachCaller'
  BY <1>2 DEF HostNeverCuts, FactsReachCaller
<1>5. QED
  BY <1>1, <1>2, <1>3, <1>4 DEF ReaderInv, States, NoCursor

\* The summary is told.
LEMMA TellKeeps ==
  ASSUME Sized, InterpretationInv, ReaderInv, Tell
  PROVE  ReaderInv'
<1>1. PICK document : document = RenderTestRun
  OBVIOUS
<1>2. PICK state : state = "told"
  OBVIOUS
<1>3. host \in Host /\ pc = "published" /\ reader.state = "reading" /\ UNCHANGED <<interpreting, host>>
  BY DEF Tell, Fresh, ReaderInv
<1>4. /\ document \in Seq(Blocks) /\ document # <<>>
      /\ Roomy => {1, 3} \subseteq Serialize(document).kept /\ ~Serialize(document).cut
  BY <1>1, <1>3, SummaryIsShown
<1>5. reader' = [reader EXCEPT !.state = state, !.text = Serialize(document)]
  BY <1>1, <1>2 DEF Tell
<1>6. state \in States \ {"idle"} /\ (state = "reading" => reader.state = "reading") /\ (Roomy => state # "lost")
      /\ (Roomy /\ state = "told" => {1, 3} \subseteq Serialize(document).kept /\ ~Serialize(document).cut)
  BY <1>2, <1>4 DEF States
<1>7. reader.state \in {"reading", "focusing"}
  BY <1>3
<1>8. QED
  BY <1>3, <1>4, <1>5, <1>6, <1>7, TextKeeps

\* A closer look is begun.
LEMMA OpenFocusKeeps ==
  ASSUME ReaderInv, Fresh, reader' = [reader EXCEPT !.state = "focusing"]
  PROVE  ReaderInv'
<1>1. /\ reader'.state = "focusing" /\ reader'.pages = <<>> /\ reader'.cursor = NoCursor /\ reader'.text = reader.text
      /\ DOMAIN reader' = {"state", "cursor", "pages", "text"}
  BY DEF Fresh, ReaderInv
<1>2. host' = host /\ host \in Host /\ pc' = pc /\ pc = "published"
  BY DEF Fresh, ReaderInv, interpreting
<1>3. Paged(reader.pages)'
  <2>1. IsSequence(<<>>) /\ DOMAIN <<>> = {}
    BY EmptyIsSequence
  <2>2. QED
    BY <1>1, <2>1 DEF Paged
<1>4. (NoteFits => HostNeverCuts') /\ FactsReachCaller'
  <2>1. Ceiling' = Ceiling
    BY <1>2 DEF Ceiling
  <2>2. NoteFits => HostNeverCuts
    BY DEF ReaderInv
  <2>3. QED
    BY <1>1, <2>1, <2>2 DEF HostNeverCuts, FactsReachCaller, NoText
<1>5. QED
  BY <1>1, <1>2, <1>3, <1>4 DEF ReaderInv, States, NoCursor

\* Its answer is shown.
LEMMA ShowFocusKeeps ==
  ASSUME Sized, LookInv, ReaderInv, ShowFocus
  PROVE  ReaderInv'
<1>1. PICK document : document = RenderFocus
  OBVIOUS
<1>2. PICK state : state = "shown"
  OBVIOUS
<1>3. Answerable(focus.answer)
  BY DEF ShowFocus, LookInv, Answering
<1>4. document \in Seq(Blocks) /\ document # <<>>
  BY <1>1, <1>3, FocusIsText
<1>5. /\ reader' = [reader EXCEPT !.state = state, !.text = Serialize(document)]
      /\ UNCHANGED <<interpreting, host>> /\ reader.state = "focusing"
  BY <1>1, <1>2 DEF ShowFocus
<1>6. state \in States \ {"idle"} /\ (state = "reading" => reader.state = "reading") /\ (Roomy => state # "lost")
      /\ (Roomy /\ state = "told" => {1, 3} \subseteq Serialize(document).kept /\ ~Serialize(document).cut)
  BY <1>2 DEF States
<1>7. reader.state \in {"reading", "focusing"}
  BY <1>5
<1>8. QED
  BY <1>4, <1>5, <1>6, <1>7, TextKeeps

\* A page of the index, whichever way it goes.
LEMMA InspectIndexKeeps ==
  ASSUME Sized, InterpretationInv, ReaderInv,
         NEW facet \in Facet, NEW status \in AskedStatus, NEW limit \in Asked, InspectIndex(facet, status, limit)
  PROVE  ReaderInv'
<1>1. /\ host \in Host /\ pc = "published" /\ reader.state = "reading" /\ UNCHANGED <<interpreting, host>>
      /\ facet \in Facet \ {"log"} /\ ResolveCursor(facet, status)
  BY DEF InspectIndex, ReaderInv
<1>2. PICK list : list = RecordsFor(facet, status)
  OBVIOUS
<1>3. PICK length : length = Length(facet, status)
  OBVIOUS
<1>4. PICK from : from = reader.cursor.position
  OBVIOUS
<1>5. IsSequence(list) /\ length = Len(list)
  BY <1>1, <1>2, <1>3, RecordsAreListed DEF Length
<1>6. /\ length \in Nat /\ from \in 0 .. length
      /\ reader.pages = <<>> => from = 0
      /\ reader.pages # <<>> =>
           LET last == reader.pages[Len(reader.pages)]
           IN last.facet = facet /\ last.status = status /\ from = last.first + Consumed(last)
  BY <1>1, <1>3, <1>4, CursorStands
<1>7. PICK page : page = Page(facet, status, limit)
  OBVIOUS
<1>8. reader.cursor.position \in 0 .. Len(list)
  BY <1>4, <1>5, <1>6
<1>9. /\ page.facet = facet /\ page.status = status /\ page.first = reader.cursor.position
      /\ page.kept \in Nat /\ page.omitted \in {0, 1} /\ page.marked \in BOOLEAN
      /\ page.answer \in {"available", "incomplete"}
      /\ Consumed(page) \in Nat /\ page.first + Consumed(page) <= Len(list)
      /\ (page.first < Len(list) => Consumed(page) >= 1)
      /\ page.cursor = NextCursor(facet, status, page.first + Consumed(page), Len(list))
      /\ page.kept <= limit /\ page.kept <= PageBudget.records
      /\ page.bytes \in Int /\ page.bytes + 3 * page.kept \in Nat
      /\ IF page.kept = 0 THEN page.bytes = 0 ELSE Limit.envelope + page.bytes + page.kept <= PageBudget.bytes
  BY <1>1, <1>2, <1>5, <1>7, <1>8, PageTiles
<1>10. PICK document : document = RenderPage(page)
  OBVIOUS
<1>11. /\ document \in Seq(Blocks) /\ document # <<>>
       /\ Roomy => 2 \in Serialize(document).kept
  BY <1>1, <1>9, <1>10, PageIsShown
<1>12. PageOk(page)
  <2>1. page.first \in Nat /\ page.facet \in Facet /\ page.facet # "log"
    BY <1>1, <1>4, <1>6, <1>9
  <2>2. Length(page.facet, page.status) = length
    BY <1>3, <1>9
  <2>3. page.first + Consumed(page) <= length
    BY <1>5, <1>9
  <2>4. page.first < length => page.first + Consumed(page) > page.first
    BY <1>5, <1>9, <2>1
  <2>5. page.cursor = NextCursor(page.facet, page.status, page.first + Consumed(page), length)
    BY <1>5, <1>9
  <2>6. QED
    BY <1>6, <1>9, <2>1, <2>2, <2>3, <2>4, <2>5, Zenon DEF PageOk
<1>13. /\ reader.pages = <<>> => page.first = 0
       /\ reader.pages # <<>> => Continues(reader.pages[Len(reader.pages)], page)
  BY <1>4, <1>6, <1>9 DEF Continues
<1>14. CASE FacetCompleteness(facet) = "unavailable"
  <2>1. PICK unsupported : unsupported = RenderUnsupported
    OBVIOUS
  <2>2. PICK state : state = "unsupported"
    OBVIOUS
  <2>3. unsupported \in Seq(Blocks) /\ unsupported # <<>>
    BY <2>1, UnsupportedIsText
  <2>4. reader' = [reader EXCEPT !.state = state, !.text = Serialize(unsupported)]
    BY <1>14, <2>1, <2>2 DEF InspectIndex
  <2>5. state \in States \ {"idle"} /\ (state = "reading" => reader.state = "reading") /\ (Roomy => state # "lost")
        /\ (Roomy /\ state = "told" => {1, 3} \subseteq Serialize(unsupported).kept /\ ~Serialize(unsupported).cut)
    BY <2>2 DEF States
  <2>6. reader.state \in {"reading", "focusing"}
    BY <1>1
  <2>7. QED
    BY <1>1, <2>3, <2>4, <2>5, <2>6, TextKeeps
<1>15. CASE FacetCompleteness(facet) # "unavailable" /\ 2 \notin Serialize(document).kept
  <2>1. PICK state : state = "lost"
    OBVIOUS
  <2>2. reader' = [reader EXCEPT !.state = state, !.text = Serialize(document)]
    BY <1>7, <1>10, <1>15, <2>1 DEF InspectIndex
  <2>3. state \in States \ {"idle"} /\ (state = "reading" => reader.state = "reading") /\ (Roomy => state # "lost")
        /\ (Roomy /\ state = "told" => {1, 3} \subseteq Serialize(document).kept /\ ~Serialize(document).cut)
    BY <1>11, <1>15, <2>1 DEF States
  <2>4. reader.state \in {"reading", "focusing"}
    BY <1>1
  <2>5. QED
    BY <1>1, <1>11, <2>2, <2>3, <2>4, TextKeeps
<1>16. CASE FacetCompleteness(facet) # "unavailable" /\ 2 \in Serialize(document).kept
  <2>1. reader' = [state |-> IF page.cursor = NoCursor THEN "done" ELSE "reading", cursor |-> page.cursor,
                   pages |-> Append(reader.pages, page), text |-> Serialize(document)]
    BY <1>7, <1>10, <1>16 DEF InspectIndex
  <2>2. QED
    BY <1>1, <1>11, <1>12, <1>13, <2>1, PageKeeps
<1>17. QED
  BY <1>14, <1>15, <1>16

\* A window of the log.
LEMMA InspectLogKeeps ==
  ASSUME Sized, WholeCharacters(Log), InterpretationInv, ReaderInv, NEW maxBytes \in AskedBytes, InspectLog(maxBytes)
  PROVE  ReaderInv'
<1>1. PICK facet : facet = "log"
  OBVIOUS
<1>2. PICK status : status = AnyStatus
  OBVIOUS
<1>3. /\ host \in Host /\ pc = "published" /\ reader.state = "reading" /\ UNCHANGED <<interpreting, host>>
      /\ facet \in Facet /\ ResolveCursor(facet, status)
  BY <1>1, <1>2 DEF InspectLog, ReaderInv, Facet
<1>4. PICK length : length = Length(facet, status)
  OBVIOUS
<1>5. PICK from : from = reader.cursor.position
  OBVIOUS
<1>6. /\ length \in Nat /\ from \in 0 .. length
      /\ reader.pages = <<>> => from = 0
      /\ reader.pages # <<>> =>
           LET last == reader.pages[Len(reader.pages)]
           IN last.facet = facet /\ last.status = status /\ from = last.first + Consumed(last)
  BY <1>3, <1>4, <1>5, CursorStands
<1>7. length = Len(Log)
  BY <1>1, <1>4 DEF Length
<1>8. PICK chunk : chunk = FitChunk(LogWindow(from, maxBytes), from)
  OBVIOUS
<1>9. from \in 0 .. Len(Log)
  BY <1>6, <1>7
<1>10. /\ IsSequence(chunk) /\ from + Len(chunk) <= Len(Log) /\ (from < Len(Log) => Len(chunk) >= 1)
       /\ from + Len(chunk) < Len(Log) => Log[from + Len(chunk) + 1] # 0
  BY <1>8, <1>9, WindowIsCut
<1>11. PICK size \in Nat : size = Len(chunk)
  BY <1>10, IsList
<1>12. PICK cursor : cursor = NextCursor(facet, status, from + size, length)
  OBVIOUS
<1>13. PICK more \in BOOLEAN : more = (cursor # NoCursor)
  OBVIOUS
<1>14. PICK document : document = RenderLog(chunk, more)
  OBVIOUS
<1>15. /\ document \in Seq(Blocks) /\ document # <<>>
       /\ Roomy => 2 \in Serialize(document).kept
  BY <1>3, <1>10, <1>14, LogIsShown
<1>16. reader.state \in {"reading", "focusing"}
  BY <1>3
<1>17. cursor = NextCursor("log", AnyStatus, from + Len(chunk), Len(Log)) /\ document = RenderLog(chunk, cursor # NoCursor)
  BY <1>1, <1>2, <1>7, <1>11, <1>12, <1>13, <1>14
<1>18. CASE 3 \in Serialize(document).kept
  <2>1. PICK page : page = [facet |-> "log", status |-> AnyStatus, first |-> from, kept |-> Len(chunk),
                            omitted |-> 0, bytes |-> Len(chunk), marked |-> FALSE, answer |-> "available",
                            cursor |-> cursor]
    OBVIOUS
  <2>2. /\ page.facet = facet /\ page.status = status /\ page.first = from /\ page.kept = size /\ page.omitted = 0
        /\ page.answer = "available" /\ page.cursor = cursor
    BY <1>1, <1>2, <1>11, <2>1
  <2>3. Consumed(page) = size
    BY <2>2 DEF Consumed
  <2>4. PageOk(page)
    <3>1. Length(page.facet, page.status) = length /\ page.facet \in Facet
      BY <1>3, <1>4, <2>2
    <3>2. from + size <= length /\ (from < length => from + size > from) /\ from \in Nat
      BY <1>6, <1>7, <1>10, <1>11
    <3>3. page.cursor # NoCursor => Log[page.first + page.kept + 1] # 0
      <4>1. from + size \in Nat
        BY <3>2
      <4>2. cursor # NoCursor <=> from + size < length
        BY <1>3, <1>6, <1>12, <4>1, NextCursorIs
      <4>3. QED
        BY <1>7, <1>10, <1>11, <2>2, <4>2
    <3>4. QED
      BY <1>6, <1>12, <2>2, <2>3, <3>1, <3>2, <3>3 DEF PageOk
  <2>5. /\ reader.pages = <<>> => page.first = 0
        /\ reader.pages # <<>> => Continues(reader.pages[Len(reader.pages)], page)
    BY <1>6, <2>2 DEF Continues
  <2>6. reader' = [state |-> IF cursor = NoCursor THEN "done" ELSE "reading", cursor |-> cursor, text |-> Serialize(document),
                   pages |-> Append(reader.pages, page)]
    BY <1>5, <1>8, <1>17, <1>18, <2>1, Zenon DEF InspectLog
  <2>7. reader' = [state |-> IF page.cursor = NoCursor THEN "done" ELSE "reading", cursor |-> page.cursor,
                   pages |-> Append(reader.pages, page), text |-> Serialize(document)]
    BY <2>2, <2>6
  <2>8. QED
    BY <1>3, <1>15, <2>4, <2>5, <2>7, PageKeeps
<1>19. CASE 2 \in Serialize(document).kept /\ 3 \notin Serialize(document).kept
  <2>1. PICK state : state = "reading"
    OBVIOUS
  <2>2. reader' = [reader EXCEPT !.text = Serialize(document)]
    BY <1>5, <1>8, <1>17, <1>19 DEF InspectLog
  <2>3. reader' = [reader EXCEPT !.state = state, !.text = Serialize(document)]
    BY <1>3, <2>1, <2>2
  <2>4. state \in States \ {"idle"} /\ (state = "reading" => reader.state = "reading") /\ (Roomy => state # "lost")
        /\ (Roomy /\ state = "told" => {1, 3} \subseteq Serialize(document).kept /\ ~Serialize(document).cut)
    BY <1>3, <2>1 DEF States
  <2>5. QED
    BY <1>3, <1>15, <1>16, <2>3, <2>4, TextKeeps
<1>20. CASE 2 \notin Serialize(document).kept /\ 3 \notin Serialize(document).kept
  <2>1. PICK state : state = "lost"
    OBVIOUS
  <2>2. reader' = [reader EXCEPT !.state = state, !.text = Serialize(document)]
    BY <1>5, <1>8, <1>17, <1>20, <2>1 DEF InspectLog
  <2>3. state \in States \ {"idle"} /\ (state = "reading" => reader.state = "reading") /\ (Roomy => state # "lost")
        /\ (Roomy /\ state = "told" => {1, 3} \subseteq Serialize(document).kept /\ ~Serialize(document).cut)
    BY <1>15, <1>20, <2>1 DEF States
  <2>4. QED
    BY <1>3, <1>15, <1>16, <2>2, <2>3, TextKeeps
<1>21. QED
  BY <1>18, <1>19, <1>20

-----------------------------------------------------------------------------
(* What whoever reads is told. *)

\* The invariant holds at the start, and after every step.
LEMMA ReadingStarts ==
  ASSUME Init
  PROVE  ReadingInv
<1>1. InterpretationInv
  BY InterpretationStarts DEF Init
<1>2. LookInv /\ NotLooking
  <2>1. NoLook.step = "none" /\ NoLook.kind = "none" /\ NoLook.answer.status = "none"
    BY DEF NoLook
  <2>2. Untouched.recorded = NoDigest /\ Untouched.version = 0
    BY DEF Untouched
  <2>3. QED
    BY <2>1, <2>2 DEF Init, LookInv, NotLooking
<1>3. ReaderInv
  <2>1. reader = Waiting /\ host = NoHost
    BY DEF Init, Waiting
  <2>2. /\ Waiting.state = "idle" /\ Waiting.pages = <<>> /\ Waiting.cursor = NoCursor /\ Waiting.text = NoText
        /\ DOMAIN Waiting = {"state", "cursor", "pages", "text"}
    BY DEF Waiting
  <2>3. Paged(reader.pages)
    <3>1. IsSequence(<<>>) /\ DOMAIN <<>> = {}
      BY EmptyIsSequence
    <3>2. QED
      BY <2>1, <2>2, <3>1 DEF Paged
  <2>4. (NoteFits => HostNeverCuts) /\ FactsReachCaller
    BY <2>1, <2>2 DEF HostNeverCuts, FactsReachCaller
  <2>5. QED
    BY <2>1, <2>2, <2>3, <2>4 DEF ReaderInv, States
<1>4. QED
  BY <1>1, <1>2, <1>3 DEF ReadingInv

\* Every step keeps it.
LEMMA ReadingKeeps ==
  ASSUME Sized, WholeCharacters(Log), ReadingInv, [Next]_vars
  PROVE  ReadingInv'
<1>1. InterpretationInv /\ LookInv /\ ReaderInv /\ NotLooking
  BY DEF ReadingInv
<1>2. CASE Interpret /\ UNCHANGED <<focusing, host, reader>>
  <2>1. InterpretationInv'
    BY <1>1, <1>2, InterpretationKeeps
  <2>2. reader.state = "idle"
    <3>1. pc # "published"
      BY <1>2 DEF Interpret, Begin, ReadAgain, Answered, Failed, Cancel, DeadlinePasses, Command
    <3>2. QED
      BY <1>1, <3>1 DEF ReaderInv
  <2>3. focus = NoLook /\ focus' = NoLook /\ store' = store
    BY <1>1, <1>2, <2>2 DEF NotLooking, focusing
  <2>4. LookInv'
    BY <1>1, <2>3, NoLookStays
  <2>5. ReaderInv'
    BY <1>1, <1>2, <2>2, IdleStays
  <2>6. NotLooking'
    BY <2>3 DEF NotLooking, NoLook, NoDigest
  <2>7. QED
    BY <2>1, <2>4, <2>5, <2>6 DEF ReadingInv
<1>3. ASSUME UNCHANGED interpreting
      PROVE  InterpretationInv' /\ report' = report /\ pc' = pc
  BY <1>1, <1>3, InterpretationKeeps DEF interpreting
<1>4. ASSUME UNCHANGED interpreting, UNCHANGED focusing, ReaderInv',
             reader'.state \in {"focusing", "shown"} \/ reader.state \notin {"focusing", "shown"}
      PROVE  ReadingInv'
  <2>1. LookInv'
    BY <1>1, <1>3, <1>4, LookStays
  <2>2. NotLooking'
    BY <1>1, <1>4 DEF NotLooking, focusing, NoLook, NoDigest
  <2>3. QED
    BY <1>3, <1>4, <2>1, <2>2 DEF ReadingInv
<1>5. CASE Tell
  <2>1. UNCHANGED interpreting /\ UNCHANGED focusing /\ reader.state = "reading"
    BY <1>5 DEF Tell, Fresh
  <2>2. QED
    BY <1>1, <1>4, <1>5, <2>1, TellKeeps
<1>6. CASE Open
  <2>1. UNCHANGED interpreting /\ UNCHANGED focusing /\ reader.state = "idle"
    BY <1>6 DEF Open
  <2>2. QED
    BY <1>1, <1>4, <1>6, <2>1, OpenKeeps
<1>7. CASE ShowFocus
  <2>1. UNCHANGED interpreting /\ UNCHANGED focusing
    BY <1>7 DEF ShowFocus
  <2>2. reader'.state = "shown"
    BY <1>1, <1>7 DEF ShowFocus, ReaderInv
  <2>3. QED
    BY <1>1, <1>4, <1>7, <2>1, <2>2, ShowFocusKeeps
<1>8. ASSUME NEW facet \in Facet, NEW status \in AskedStatus, NEW limit \in Asked, InspectIndex(facet, status, limit)
      PROVE  ReadingInv'
  <2>1. UNCHANGED interpreting /\ UNCHANGED focusing /\ reader.state = "reading"
    BY <1>8 DEF InspectIndex
  <2>2. QED
    BY <1>1, <1>4, <1>8, <2>1, InspectIndexKeeps
<1>9. ASSUME NEW maxBytes \in AskedBytes, InspectLog(maxBytes)
      PROVE  ReadingInv'
  <2>1. UNCHANGED interpreting /\ UNCHANGED focusing /\ reader.state = "reading"
    BY <1>9 DEF InspectLog
  <2>2. QED
    BY <1>1, <1>4, <1>9, <2>1, InspectLogKeeps
<1>10. ASSUME NEW kind \in Subjects, NEW retained \in Bundles, NEW subject \in 1 .. 4, OpenFocus(kind, subject, retained)
       PROVE  ReadingInv'
  <2>1. /\ Fresh /\ subject \in DOMAIN RecordsOf(kind) /\ Look(kind, subject, retained)
        /\ reader' = [reader EXCEPT !.state = "focusing"]
    BY <1>10 DEF OpenFocus
  <2>2. UNCHANGED interpreting /\ reader.state = "reading"
    BY <2>1 DEF Fresh
  <2>3. pc = "published"
    BY <1>1, <2>2 DEF ReaderInv
  <2>4. LookInv'
    BY <1>1, <1>3, <2>1, <2>2, <2>3, LookKeeps
  <2>5. ReaderInv'
    BY <1>1, <2>1, OpenFocusKeeps
  <2>6. reader'.state = "focusing"
    BY <1>1, <2>1 DEF ReaderInv
  <2>7. QED
    BY <1>3, <2>2, <2>4, <2>5, <2>6 DEF ReadingInv, NotLooking
<1>11. CASE LookCloser /\ UNCHANGED <<interpreting, host, reader>>
  <2>1. focus.step \in {"digest", "read"}
    BY <1>11 DEF LookCloser, Verify, ReadDetail, LookIsLate
  <2>2. reader.state \in {"focusing", "shown"}
    BY <1>1, <2>1 DEF NotLooking, NoLook
  <2>3. pc = "published"
    BY <1>1, <2>2 DEF ReaderInv
  <2>4. LookInv'
    <3>1. \A detail \in Detail : LeftDetail(detail)
      BY FocusAssumption DEF LeftDetail
    <3>2. Verify => LookInv'
      BY <1>1, <1>3, <1>11, <2>3, VerifyKeeps
    <3>3. ReadDetail => LookInv'
      BY <1>1, <1>3, <1>11, <2>3, <3>1, ReadKeeps
    <3>4. LookIsLate => LookInv'
      BY <1>1, <1>3, <1>11, LateKeeps
    <3>5. QED
      BY <1>11, <3>2, <3>3, <3>4 DEF LookCloser
  <2>5. ReaderInv'
    BY <1>1, <1>3, <1>11, ReaderStays
  <2>6. QED
    BY <1>3, <1>11, <2>2, <2>4, <2>5 DEF ReadingInv, NotLooking
<1>12. CASE UNCHANGED vars
  <2>1. UNCHANGED interpreting /\ UNCHANGED focusing /\ UNCHANGED <<host, reader>>
    BY <1>12 DEF vars
  <2>2. ReaderInv'
    BY <1>1, <1>3, <2>1, ReaderStays
  <2>3. QED
    BY <1>4, <2>1, <2>2
<1>13. QED
  BY <1>2, <1>5, <1>6, <1>7, <1>8, <1>9, <1>10, <1>11, <1>12, Zenon DEF Next, Inspect

\* What a caller reads follows from what was published, whatever he asks for,
\* in whatever host he is, and whatever becomes of the bundle.
THEOREM ReadingInvariant ==
  ASSUME Sized, WholeCharacters(Log)
  PROVE  Spec => []ReadingInv
<1>1. Init => ReadingInv
  BY ReadingStarts
<1>2. ReadingInv /\ [Next]_vars => ReadingInv'
  BY ReadingKeeps
<1>3. QED
  BY <1>1, <1>2, PTL DEF Spec

\* Whatever is read is well typed.
THEOREM ReadingTypes ==
  ASSUME Sized, WholeCharacters(Log)
  PROVE  Spec => []TypeOK
<1>1. ReadingInv => TypeOK
  <2> SUFFICES ASSUME ReadingInv PROVE TypeOK
    OBVIOUS
  <2>1. InterpretationInv /\ LookInv /\ ReaderInv
    BY DEF ReadingInv
  <2>2. InterpretationTypeOK /\ FocusTypeOK
    BY <2>1, InterpretationIsTyped, LookIsTyped
  <2>3. reader.cursor.facet \in Facet \cup {"none"} /\ reader.cursor.position \in Nat
    BY <2>1, CursorIsTyped
  <2>4. \A p \in ToSet(reader.pages) : p.kept \in Nat /\ p.omitted \in {0, 1} /\ p.answer \in {"available", "incomplete"}
    BY <2>1, PagedTile DEF ReaderInv
  <2>5. host \in Host \cup {NoHost} /\ reader.state \in States
    BY <2>1 DEF ReaderInv
  <2>6. QED
    BY <2>2, <2>3, <2>4, <2>5 DEF TypeOK, States
<1>2. QED
  BY <1>1, ReadingInvariant, PTL

\* Reading does not interfere with the interpretation: what is proved of every
\* interpretation is so of those that are read (tools.ts inspect, which only
\* reads what interpret.ts published).
THEOREM InspectionInterprets == Spec => InterpretationSpec
<1>1. Init => InitInterpretation
  BY DEF Init
<1>2. [Next]_vars => [Interpret]_interpreting
  <2> SUFFICES ASSUME [Next]_vars PROVE Interpret \/ UNCHANGED interpreting
    OBVIOUS
  <2>1. Tell \/ Open \/ ShowFocus => UNCHANGED interpreting
    BY DEF Tell, Fresh, Open, ShowFocus
  <2>2. \A facet, status, limit : InspectIndex(facet, status, limit) => UNCHANGED interpreting
    BY DEF InspectIndex
  <2>3. \A maxBytes : InspectLog(maxBytes) => UNCHANGED interpreting
    BY DEF InspectLog
  <2>4. \A kind, subject, retained : OpenFocus(kind, subject, retained) => UNCHANGED interpreting
    BY DEF OpenFocus, Fresh
  <2>5. UNCHANGED vars => UNCHANGED interpreting
    BY DEF vars
  <2>6. QED
    BY <2>1, <2>2, <2>3, <2>4, <2>5, Zenon DEF Next, Inspect
<1>3. QED
  BY <1>1, <1>2, PTL DEF Spec, InterpretationSpec

\* Reading on with each cursor skips and repeats nothing, no window cuts a
\* character, no page that fits its budget is lost, and no text is cut by the
\* host (paging.ts page and resolveCursor, cap.ts, log.ts, render.ts, budget.ts).
THEOREM NothingIsSkipped ==
  ASSUME Sized, WholeCharacters(Log), NoteFits
  PROVE  Spec => []NothingSkipped
<1>1. ReadingInv => NothingSkipped
  BY PagedTile DEF ReadingInv, ReaderInv, NothingSkipped
<1>2. QED
  BY <1>1, ReadingInvariant, PTL

\* What is read is the run's, and what is left out is marked, where nobody
\* changes the bundle after its digest was taken again (service.ts
\* lazyDetailFor, focus.ts, frames.ts).
THEOREM EvidenceIsTheRuns ==
  ASSUME Sized, WholeCharacters(Log), Undisturbed
  PROVE  Spec => []EvidenceIsTrue
<1>1. ReadingInv => EvidenceIsTrue
  <2>1. ReadingInv => ReportIsTrue
    BY NamedFailures, WholeIsWhole DEF ReadingInv, ReportIsTrue, FailureIsNamed, WholeMeansWhole, published
  <2>2. ReadingInv => DetailIsTheRuns
    BY DetailIsRun DEF ReadingInv
  <2>3. QED
    BY <2>1, <2>2 DEF EvidenceIsTrue
<1>2. QED
  BY <1>1, ReadingInvariant, PTL

=============================================================================
