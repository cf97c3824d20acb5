------------------------------ MODULE SqlEscape ------------------------------
(***************************************************************************)
(* SQL::escapeSingleQuote and the string overloads of                      *)
(* SQL::convertToColumnValue (src/architecture/sql/include/sql/Util.hh,    *)
(* lines 276-315): a string becomes a quoted SQL literal, each ' doubled.  *)
(*                                                                         *)
(* A string is a sequence over a small alphabet that holds the quote and   *)
(* other characters; each loop iteration of escapeSingleQuote is a step,   *)
(* and the result is read back with a reference reader of SQL string       *)
(* literals.                                                               *)
(***************************************************************************)
EXTENDS Naturals, Sequences, SequencesExt

CONSTANTS Chars,     \* the characters strings are made of
          Quote,     \* the single quote '
          MaxLen     \* the longest string converted

ASSUME Quote \in Chars /\ MaxLen \in Nat

VARIABLES value,          \* the argument
          index,          \* the loop index
          escapedString,  \* the string being built
          pc,             \* "find", "loop" or "done"
          result          \* what escapeSingleQuote returned

vars == <<value, index, escapedString, pc, result>>

Init ==
  /\ value \in BoundedSeq(Chars, MaxLen)
  /\ index = 0
  /\ escapedString = <<>>
  /\ pc = "find"
  /\ result = <<>>

(* value.find('\'') == npos: the argument is returned as it is.            *)
Find ==
  /\ pc = "find"
  /\ IF \E i \in 1..Len(value) : value[i] = Quote
       THEN pc' = "loop" /\ UNCHANGED result
       ELSE pc' = "done" /\ result' = value
  /\ UNCHANGED <<value, index, escapedString>>

(* One iteration: copy value[index], and a second ' after a quote.         *)
LoopStep ==
  /\ pc = "loop" /\ index < Len(value)
  /\ LET c == value[index + 1]
     IN  escapedString' = escapedString \o <<c>> \o (IF c = Quote THEN <<Quote>> ELSE <<>>)
  /\ index' = index + 1
  /\ UNCHANGED <<value, pc, result>>

(* Mutant: the loop condition index < value.size() - 1.                    *)
LoopEndShort ==
  /\ pc = "loop" /\ index >= Len(value) - 1
  /\ pc' = "done" /\ result' = escapedString
  /\ UNCHANGED <<value, index, escapedString>>

(* The loop ends: escapedString is returned.                               *)
LoopEnd ==
  /\ pc = "loop" /\ index >= Len(value)
  /\ pc' = "done" /\ result' = escapedString
  /\ UNCHANGED <<value, index, escapedString>>

Done == pc = "done" /\ UNCHANGED vars

Next == Find \/ LoopStep \/ LoopEnd \/ Done

Spec == Init /\ [][Next]_vars /\ WF_vars(Find \/ LoopStep \/ LoopEnd)

(* convertToColumnValue(string): "'" + escapeSingleQuote(value) + "'".     *)
ColumnValue == <<Quote>> \o result \o <<Quote>>

-----------------------------------------------------------------------------
(* Reference: read the body of an SQL string literal after its opening     *)
(* quote.  '' stands for one quote; a lone quote closes the literal.       *)
(* The answer is whether it closed, the characters read, and what is left. *)
RECURSIVE ReadBody(_)
ReadBody(s) ==
  IF s = <<>> THEN [closed |-> FALSE, text |-> <<>>, rest |-> <<>>]
  ELSE IF Head(s) = Quote /\ (Len(s) = 1 \/ s[2] # Quote)
    THEN [closed |-> TRUE, text |-> <<>>, rest |-> Tail(s)]
  ELSE LET width == IF Head(s) = Quote THEN 2 ELSE 1
           r == ReadBody(SubSeq(s, width + 1, Len(s)))
       IN  [r EXCEPT !.text = <<Head(s)>> \o @]

ReadLiteral(lit) ==
  IF lit # <<>> /\ Head(lit) = Quote THEN ReadBody(Tail(lit))
  ELSE [closed |-> FALSE, text |-> <<>>, rest |-> lit]

TypeOK ==
  /\ value \in BoundedSeq(Chars, MaxLen)
  /\ index \in 0..Len(value)
  /\ escapedString \in BoundedSeq(Chars, 2 * MaxLen)
  /\ pc \in {"find", "loop", "done"}

(* The column value is one well-formed literal that an SQL reader turns   *)
(* back into exactly the string converted: no quote in the value ends the *)
(* literal early or lets the rest of the string into the statement.       *)
LiteralRoundTrip ==
  pc = "done" =>
    LET r == ReadLiteral(ColumnValue)
    IN  r.closed /\ r.text = value /\ r.rest = <<>>
=============================================================================
