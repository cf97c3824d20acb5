----------------------------- MODULE MCSqlColumn -----------------------------
EXTENDS SqlColumn

(* The quote and one other character; strings of up to four characters    *)
(* hold adjacent quotes, a quote first and last, and none at all.          *)
MCChars == {"'", "a"}
MCQuote == "'"
MCMaxLen == 4
(* '\0' is not among the characters: see the README.                      *)
MCNul == "NUL"

(* int of 6 bits and int64_t/long of 10: every value of both is written    *)
(* and read back, and most long values are out of int range.              *)
MCIntBits == 6
MCLongBits == 10
=============================================================================
