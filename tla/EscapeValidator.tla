--------------------------- MODULE EscapeValidator ---------------------------
(***************************************************************************)
(* ibm3270/_parser.py, validate_escape_sequences(), which string() and     *)
(* write() call on what they type.  A character is one of the classes the  *)
(* scan tells apart: "\", "n" for the escapes of one letter that are no    *)
(* hexadecimal digits, "b", "f", "e", "a" (which are), "u" for u and x,    *)
(* "p", "c" for the other hexadecimal letters, the digits ("5" for 5 to    *)
(* 9), "N" for a digit of another script, and Blank for all others.        *)
(***************************************************************************)
EXTENDS Screen

Simple  == {"\\", "n", "b", "f"}
Decimal == {"0", "1", "2", "3", "4", "5"}       \* [0-9]
AnyDigit == Decimal \cup {"N"}                  \* \d
Hex     == Decimal \cup {"a", "b", "c", "e", "f"}
EscapeCharacters == {"\\", "n", "u", "p", Blank} \cup AnyDigit \cup Hex

Has(text, i, C) == i <= Len(text) /\ text[i] \in C

(* How many characters from i on are in C, one after the other.            *)
RunOf(text, i, C) ==
    CHOOSE n \in 0..(Len(text) + 1) :
        /\ \A j \in i..(i + n - 1) : Has(text, j, C)
        /\ ~Has(text, i + n, C)

AtMost(n, m) == IF n > m THEN m ELSE n

(* The lengths of the matches of _PA and _PF at i, 0 for none: 122-123.    *)
PaMatch(text, i) == IF Has(text, i, {"1", "2", "3"}) /\ ~Has(text, i + 1, AnyDigit) THEN 1 ELSE 0

(* Faulty variant: without the (?!\d) of _PF.                              *)
PfMatchPrefix(text, i) ==
    IF \/ Has(text, i, {"1"}) /\ Has(text, i + 1, AnyDigit)
       \/ Has(text, i, {"2"}) /\ Has(text, i + 1, Decimal \ {"5"})
    THEN 2 ELSE IF Has(text, i, Decimal \ {"0"}) THEN 1 ELSE 0

PfMatch(text, i) ==
    IF /\ \/ Has(text, i, {"1"}) /\ Has(text, i + 1, AnyDigit)
          \/ Has(text, i, {"2"}) /\ Has(text, i + 1, Decimal \ {"5"})
       /\ ~Has(text, i + 2, AnyDigit)
    THEN 2
    ELSE IF Has(text, i, Decimal \ {"0"}) /\ ~Has(text, i + 1, AnyDigit) THEN 1 ELSE 0

(* The length of the escape that starts at i, 0 if the scan raises: the    *)
(* hexadecimal digits it takes are clamped (156, 166).                     *)
EscapeLength(text, i) ==        \* 143-189
    CASE Has(text, i + 1, Simple) -> 2
      [] Has(text, i + 1, {"e"}) ->
           LET n == AtMost(RunOf(text, i + 2, Hex), 4) IN IF n \in {2, 4} THEN 2 + n ELSE 0
      [] Has(text, i + 1, {"u"}) ->
           LET n == AtMost(RunOf(text, i + 2, Hex), 5) IN IF n >= 2 THEN 2 + n ELSE 0
      [] Has(text, i + 1, {"p"}) /\ Has(text, i + 2, {"a"}) ->
           IF PaMatch(text, i + 3) = 0 THEN 0 ELSE 3 + PaMatch(text, i + 3)
      [] Has(text, i + 1, {"p"}) /\ Has(text, i + 2, {"f"}) ->
           IF PfMatch(text, i + 3) = 0 THEN 0 ELSE 3 + PfMatch(text, i + 3)
      [] OTHER -> 0

(* The position validate_escape_sequences() raises at, 0 if it does not.   *)
Verdict(text) ==                \* 135-189
    LET scan[i \in 1..(Len(text) + 1)] ==
          IF i > Len(text) THEN 0
          ELSE IF text[i] # "\\" THEN scan[i + 1]
          ELSE IF EscapeLength(text, i) = 0 THEN i
          ELSE scan[i + EscapeLength(text, i)]
    IN scan[1]

-----------------------------------------------------------------------------
(* The reference, without a scan: an escape starts at a backslash after an *)
(* even number of backslashes, and the longest run of digits after it says *)
(* whether it is one of those the docstring lists (lines 130-133).         *)
Starts(text) ==
    {i \in DOMAIN text : /\ text[i] = "\\"
                         /\ \E n \in 0..(i - 1) :
                              /\ n % 2 = 0
                              /\ \A j \in (i - n)..(i - 1) : text[j] = "\\"
                              /\ ~(i - n > 1 /\ text[i - n - 1] = "\\")}

WellFormed(text, i) ==
    LET digits == RunOf(text, i + 3, AnyDigit)
        hex    == RunOf(text, i + 2, Hex)
    IN \/ Has(text, i + 1, Simple)
       \/ Has(text, i + 1, {"e"}) /\ (hex = 2 \/ hex >= 4)
       \/ Has(text, i + 1, {"u"}) /\ hex >= 2
       \/ /\ Has(text, i + 1, {"p"}) /\ Has(text, i + 2, {"a"})
          /\ digits = 1 /\ text[i + 3] \in {"1", "2", "3"}
       \/ /\ Has(text, i + 1, {"p"}) /\ Has(text, i + 2, {"f"})
          /\ \/ digits = 1 /\ text[i + 3] \in {"1", "2", "3", "4", "5"}
             \/ digits = 2 /\ text[i + 3] = "1"
             \/ digits = 2 /\ text[i + 3] = "2" /\ text[i + 4] \in {"0", "1", "2", "3", "4"}

(* The scan raises at the first escape that is not well formed, wherever   *)
(* it is: clamped digits, the look-ahead after a key number and the pairs  *)
(* of backslashes never put it out of step (lines 135-189).                *)
VerdictByPositions ==
    Calling("validate") =>
        LET wrong == {i \in Starts(input.text) : ~WellFormed(input.text, i)}
        IN Verdict(input.text) = IF wrong = {} THEN 0
                                 ELSE CHOOSE i \in wrong : \A j \in wrong : i <= j

(* write() with a length cuts the text before string() checks it.  A valid *)
(* text stays valid, and so is typed after the cursor was moved, unless    *)
(* the cut goes through an escape; the blanks it is filled up with never   *)
(* become part of one (lines 362-366).                                     *)
CutIsSafe ==
    Calling("write") /\ Verdict(input.text) = 0 =>
        LET kept == Len(Slice(input.text, 0, input.length))
        IN \/ Verdict(Written(input.text, input.length)) = 0
           \/ \E i \in Starts(input.text) :
                i <= kept /\ kept < i + EscapeLength(input.text, i) - 1
=============================================================================
