------------------------------- MODULE Output -------------------------------
(***************************************************************************)
(* The text of an answer: the limits the host may declare and the budget   *)
(* they leave (adapter/budget), documents of blocks with a priority        *)
(* (adapter/document), and the way a document is fitted to the budget.     *)
(*                                                                         *)
(* A block is its number of lines and of bytes, the line breaks that       *)
(* separate it from the next among them.                                   *)
(***************************************************************************)
EXTENDS Integers, FiniteSets, SequencesExt

CONSTANTS Limit,  \* the limits of domain/limits, budget and tools
          Host    \* what the host may say of its own limits

Undeclared == -1

\* Every host lets something through; the limits the program assumes, where
\* none are declared, have room for the note that something was cut off (with
\* the line breaks around it).
ASSUME OutputAssumption ==
  /\ {Limit.selfLines, Limit.selfBytes, Limit.marginLines, Limit.marginBytes} \subseteq Nat
  /\ {Limit.noteBytes, Limit.hostLines, Limit.unreadableLines} \subseteq Nat \ {0}
  /\ \A bytes \in {Limit.hostBytes, Limit.unreadableBytes} : bytes \in Nat /\ bytes >= Limit.noteBytes
  /\ \A h \in Host : /\ h.status \in {"configured", "absent", "unreadable"}
                     /\ {h.lines, h.bytes} \subseteq (Nat \ {0}) \cup {Undeclared}

VARIABLE host  \* the limits of the host the caller is in, once he reads

NoHost == [status |-> "none", lines |-> Undeclared, bytes |-> Undeclared]

-----------------------------------------------------------------------------
(* The budget. *)

Ceiling ==
  CASE host.status = "configured" -> [lines |-> IF host.lines = Undeclared THEN Limit.hostLines ELSE host.lines,
                                      bytes |-> IF host.bytes = Undeclared THEN Limit.hostBytes ELSE host.bytes]
    [] host.status = "absent" -> [lines |-> Limit.hostLines, bytes |-> Limit.hostBytes]
    [] host.status = "unreadable" -> [lines |-> Limit.unreadableLines, bytes |-> Limit.unreadableBytes]

Budget == [lines |-> Max({1, Min({Limit.selfLines, Ceiling.lines - Limit.marginLines})}),
           bytes |-> Max({1, Min({Limit.selfBytes, Ceiling.bytes - Limit.marginBytes})})]

PageBudget == [bytes |-> Max({Limit.overheadBytes, Budget.bytes - Limit.overheadBytes}),
               records |-> Max({1, Budget.lines - Limit.overheadLines})]

-----------------------------------------------------------------------------
(* Documents. *)

PRIORITY == [envelope |-> 0, facts |-> 1, reason |-> 2, diagnostics |-> 3, context |-> 4, sample |-> 5]

Block(priority, lines, bytes) == [priority |-> PRIORITY[priority], lines |-> lines, bytes |-> bytes]
Total(numbers) == SumFunction(numbers)

\* The blocks that survive when the document is cut down to n of them: those
\* of the highest priority, the earlier of two of the same.
Surviving(document, n) ==
  LET before(i, j) == \/ document[i].priority < document[j].priority
                      \/ document[i].priority = document[j].priority /\ i < j
  IN {i \in DOMAIN document : Cardinality({j \in DOMAIN document : before(j, i)}) < n}

\* The text of the blocks kept: an empty line between two of them, and a note
\* of how many are missing.
Assemble(document, keep) ==
  LET note  == IF Cardinality(keep) < Len(document) THEN 1 ELSE 0
      shown == {i \in keep : document[i].lines > 0}
  IN [kept |-> keep,
      lines |-> MapThenSumSet(LAMBDA i : document[i].lines, shown) + note + Max({0, Cardinality(shown) + note - 1}),
      bytes |-> MapThenSumSet(LAMBDA i : document[i].bytes, shown) + note * Limit.noteBytes, cut |-> FALSE]

Fits(text) == text.lines <= Budget.lines /\ text.bytes <= Budget.bytes

\* The start of the text, with a note that there was more; one line at least.
HardTruncate(text) ==
  [text EXCEPT !.lines = Min({@ + 2, Budget.lines}),
               !.bytes = IF Budget.lines <= 1 THEN Min({@, Budget.bytes})
                         ELSE Max({Limit.noteBytes, Min({@ + Limit.noteBytes, Budget.bytes})}),
               !.cut = TRUE]

\* Whole blocks are dropped, the least important first, until the rest fits;
\* the most important is cut rather than dropped.
Serialize(document) ==
  LET text(n) == Assemble(document, Surviving(document, n))
      fitting == {n \in 1 .. Len(document) : Fits(text(n))}
  IN IF fitting # {} THEN text(Max(fitting)) ELSE HardTruncate(text(1))

NoText == [kept |-> {}, lines |-> 0, bytes |-> 0, cut |-> FALSE]
=============================================================================
