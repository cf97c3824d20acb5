------------------------------ MODULE SqlColumn ------------------------------
(***************************************************************************)
(* The numeric column conversions of src/architecture/sql/include/sql/    *)
(* Util.hh: convertToColumnValue<T> writes std::format("{}", value)        *)
(* (lines 293-302), and stringToValue reads the column text back with      *)
(* atoi for int and atoll for int64_t, Duration and Timestamp (lines       *)
(* 372-392); Duration and Timestamp go through their nanosecond count.     *)
(* A string column is read back with the const unsigned char* overloads   *)
(* (lines 348-365), which build a std::string from a C string.            *)
(*                                                                         *)
(* A column value of each type is written and read back: a string through *)
(* the escapeSingleQuote loop of SqlEscape (instanced, sharing its         *)
(* variables) and a reference reader of SQL literals, a number through the *)
(* conversions below.  Text is a sequence of character codes.  The widths of int and of        *)
(* int64_t/long are the constants IntBits < LongBits, smaller than 32 and  *)
(* 64 so that TLC can enumerate every value of both.                       *)
(***************************************************************************)
EXTENDS Integers, Sequences, SequencesExt

CONSTANTS Chars, Quote, MaxLen,  \* of the strings written (SqlEscape)
          Nul,                   \* the character '\0'
          IntBits, LongBits

ASSUME IntBits \in Nat /\ LongBits \in Nat /\ 1 < IntBits /\ IntBits < LongBits

Space == 32
Plus == 43
Minus == 45
Zero == 48
IsDigit(c) == c \in Zero..(Zero + 9)

MinOf(bits) == -(2^(bits - 1))
MaxOf(bits) == 2^(bits - 1) - 1
Width(bits) == MinOf(bits)..MaxOf(bits)

(* The C++ types stored in a numeric column, with the width of the integer *)
(* the column text is made from.                                           *)
ColumnType == {"int", "int64_t", "Duration", "Timestamp"}
Bits(t) == IF t = "int" THEN IntBits ELSE LongBits

-----------------------------------------------------------------------------
(* std::format("{}", n) for an integer: optional '-', then the digits.     *)
RECURSIVE DigitsOf(_)
DigitsOf(n) == IF n < 10 THEN <<Zero + n>> ELSE DigitsOf(n \div 10) \o <<Zero + (n % 10)>>

Format(n) == IF n < 0 THEN <<Minus>> \o DigitsOf(-n) ELSE DigitsOf(n)

(* convertToColumnValue<T>(value); a Timestamp or Duration is written as    *)
(* convertToColumnValue<int64_t>(nanos), and its value here is that count. *)
ColumnText(t, v) == Format(v)

(* strtol/strtoll with base 10 at the given width: leading white space,    *)
(* an optional sign, the longest run of digits; a value out of range is    *)
(* clamped to the width's minimum or maximum.                              *)
RECURSIVE DigitValue(_, _)
DigitValue(s, acc) ==
  IF s = <<>> \/ ~IsDigit(Head(s)) THEN acc ELSE DigitValue(Tail(s), 10 * acc + Head(s) - Zero)

RECURSIVE SkipSpace(_)
SkipSpace(s) == IF s # <<>> /\ Head(s) = Space THEN SkipSpace(Tail(s)) ELSE s

StrToL(text, bits) ==
  LET s   == SkipSpace(text)
      neg == s # <<>> /\ Head(s) = Minus
      num == IF s # <<>> /\ Head(s) \in {Plus, Minus} THEN Tail(s) ELSE s
      v   == IF neg THEN -DigitValue(num, 0) ELSE DigitValue(num, 0)
  IN  IF v < MinOf(bits) THEN MinOf(bits) ELSE IF v > MaxOf(bits) THEN MaxOf(bits) ELSE v

(* The int conversion of a long: its value modulo 2^IntBits, in range.     *)
ToInt(v) == ((v - MinOf(IntBits)) % 2^IntBits) + MinOf(IntBits)

(* atoi(s) = (int) strtol(s, NULL, 10) with a long of LongBits (LP64).     *)
Atoi(text) == ToInt(StrToL(text, LongBits))
Atoll(text) == StrToL(text, LongBits)

(* Mutant: Duration read with atoi instead of atoll.                      *)
StringToValueDurationAtoi(t, text) ==
  IF t \in {"int", "Duration"} THEN Atoi(text) ELSE Atoll(text)

(* stringToValue<T>(text): the int specialisation calls atoi; int64_t,     *)
(* Duration::fromNanos and Timestamp::fromNanosSinceEpoch call atoll.      *)
StringToValue(t, text) == IF t = "int" THEN Atoi(text) ELSE Atoll(text)

(* std::string(reinterpret_cast<const char *const>(iText)) and           *)
(* SWA::String(...): the characters before the first '\0'.                *)
CStr(s) == LET i == SelectInSeq(s, LAMBDA c : c = Nul)
           IN  IF i = 0 THEN s ELSE SubSeq(s, 1, i - 1)

(* stringToValue<std::string> and stringToValue<SWA::String> of the text  *)
(* of a string column.                                                     *)
ColumnString(t) == CStr(t)

-----------------------------------------------------------------------------
VARIABLES value, index, escapedString, pc, result,  \* as in SqlEscape
          colType,   \* the C++ type of the column value
          text,      \* the column text (of a number, or the stored string)
          readBack   \* what stringToValue returned for it

E == INSTANCE SqlEscape

vars == <<value, index, escapedString, pc, result, colType, text, readBack>>

Init ==
  /\ text = <<>> /\ readBack = 0
  /\ \/ colType = "string" /\ E!Init
     \/ /\ colType \in ColumnType
        /\ value \in Width(Bits(colType))
        /\ index = 0 /\ escapedString = <<>> /\ result = <<>>
        /\ pc = "write"

(* The string overloads: the escape loop of SqlEscape.                     *)
EscapeStep ==
  /\ colType = "string"
  /\ E!Find \/ E!LoopStep \/ E!LoopEnd
  /\ UNCHANGED <<colType, text, readBack>>

(* convertToColumnValue<T>(value) for a number.                            *)
Write ==
  /\ pc = "write"
  /\ text' = ColumnText(colType, value)
  /\ pc' = "read"
  /\ UNCHANGED <<value, index, escapedString, result, colType, readBack>>

(* Reference, not of this repository: the database runs the statement     *)
(* holding the column value; a literal that does not close exactly at its *)
(* end makes the statement fail, else the text read is stored.            *)
Store ==
  /\ colType = "string" /\ pc = "done"
  /\ LET lit == E!ReadLiteral(E!ColumnValue)
     IN  IF lit.closed /\ lit.rest = <<>>
           THEN pc' = "read" /\ text' = lit.text
           ELSE pc' = "rejected" /\ UNCHANGED text
  /\ UNCHANGED <<value, index, escapedString, result, colType, readBack>>

(* stringToValue<T>(text) on the column text.                              *)
Read ==
  /\ pc = "read"
  /\ readBack' = IF colType = "string" THEN ColumnString(text)
                 ELSE StringToValue(colType, text)
  /\ pc' = "fetched"
  /\ UNCHANGED <<value, index, escapedString, result, colType, text>>

Next == EscapeStep \/ Write \/ Store \/ Read \/ (pc \in {"fetched", "rejected"} /\ UNCHANGED vars)

Spec == Init /\ [][Next]_vars /\ WF_vars(EscapeStep \/ Write \/ Store \/ Read)

-----------------------------------------------------------------------------
(* A string written with convertToColumnValue - escapeSingleQuote's loop, *)
(* then the quotes - is one well-formed literal that the database stores, *)
(* and stringToValue reads back exactly the string written: no quote ends *)
(* the literal early, and no character is lost on the way back.           *)
StringRoundTrip ==
  colType = "string" /\ pc \in {"rejected", "fetched"} =>
    pc = "fetched" /\ readBack = value

(* A number written to a numeric column reads back as itself, for every    *)
(* value of each column type, its minimum and maximum included: the reader *)
(* chosen for each type (atoi or atoll) is wide enough for what the writer *)
(* produces, so neither the clamp of strtol nor the int conversion bites.  *)
ColumnRoundTrip == colType # "string" /\ pc = "fetched" => readBack = value
=============================================================================
