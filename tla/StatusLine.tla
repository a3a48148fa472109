----------------------------- MODULE StatusLine -----------------------------
(***************************************************************************)
(* ibm3270/_parser.py, parse_status(), and the getters of terminal.py over *)
(* what command() keeps of it.  A status line is its fields; of a field    *)
(* only what decides about it is kept:                                     *)
(*   1 keyboard "U" "L" "E", 2 formatting "F" "U", 3 protection "P" "U",   *)
(*   4 connection "C()" "N", 5 mode "I" "L" "C" "P" "N",                   *)
(*   6-10 numbers "0" "24", 11 the window, any text, 12 the time "-" "0.1" *)
(*   or a number.                                                          *)
(* "junk" is a text no field but the window takes, and "C(" a connection   *)
(* without its end.                                                        *)
(***************************************************************************)
EXTENDS Integers, Sequences, Inputs

None == [keyboard |-> "none"]

Fields  == {"U", "L", "E", "F", "P", "C()", "C(", "N", "I", "C", "0", "24", "0x0", "-", "0.1",
            "junk"}
Numbers == {"0", "24"}

Accepted ==             \* the enumerations of types.py, int() and float()
    <<{"U", "L", "E"}, {"F", "U"}, {"P", "U"}, {"C()", "N"}, {"I", "L", "C", "P", "N"},
      Numbers, Numbers, Numbers, Numbers, Numbers, Fields, {"-", "0.1"} \cup Numbers>>

Whole(line) == Len(line) >= 12 /\ \A i \in 1..12 : line[i] \in Accepted[i]

(* Faulty variant: the cursor is taken from one field further left.        *)
ParseShifted(line) ==
    IF ~Whole(line) THEN None
    ELSE [keyboard |-> line[1], formatted |-> line[2], connection |-> line[4], mode |-> line[5],
          rows |-> line[7], cols |-> line[8], row |-> line[8], col |-> line[9]]

(* parse_status(): fields after the twelfth are ignored.                   *)
Parse(line) ==                  \* 79-114
    IF ~Whole(line) THEN None
    ELSE [keyboard |-> line[1], formatted |-> line[2], connection |-> line[4], mode |-> line[5],
          rows |-> line[7], cols |-> line[8], row |-> line[9], col |-> line[10]]

(* self._last_status_info after a response with this status line: one      *)
(* without a status line changes nothing, one that cannot be parsed makes  *)
(* it None: the "skip" of parse_status()'s docstring is left to callers,   *)
(* and command() does not.                                                 *)
Kept(info, line) == IF line = <<>> THEN info ELSE Parse(line)   \* terminal.py 157-158

After(heard) ==                 \* the same after a sequence of responses
    LET info[n \in 0..Len(heard)] == IF n = 0 THEN None ELSE Kept(info[n - 1], heard[n])
    IN info[Len(heard)]

(* The getters of terminal.py.                                             *)
Is(info, flag) ==               \* 69-79, 286-298
    /\ info # None
    /\ CASE flag = "Formatted"    -> info.formatted = "F"
         [] flag = "KeyboardLock" -> info.keyboard # "U"
         [] flag = "Tn3270e"      -> info.mode = "I"
         [] OTHER                 -> FALSE

Display(n) == CASE n = "0" -> 1 [] n = "24" -> 25               \* 88-89
Cursor(info) ==                 \* 273-278; the empty sequence stands for None
    IF info = None THEN <<>> ELSE <<Display(info.row), Display(info.col)>>

Size(info) ==                   \* 280-284
    IF info = None THEN <<>> ELSE <<info.rows, info.cols>>
-----------------------------------------------------------------------------
(* Flags, cursor and size are those of the last status line that came,     *)
(* whole, or nothing is reported: a line that is short or has a field that *)
(* is not one of its values raises nothing and never leaves an older       *)
(* line's flag standing, whether its command succeeded or not (lines       *)
(* 79-114; terminal.py 69-79, 157-158, 273-298).                           *)
FlagsAreOfLastLine ==
    Calling("status") =>
        LET heard == input.heard
            lines == {n \in DOMAIN heard : heard[n] # <<>>}
            last  == heard[CHOOSE n \in lines : \A m \in lines : m <= n]
            said  == lines # {} /\ Whole(last)
            info  == After(heard)
        IN /\ Is(info, "KeyboardLock") <=> said /\ last[1] \in {"L", "E"}
           /\ Is(info, "Formatted") <=> said /\ last[2] = "F"
           /\ Is(info, "Tn3270e") <=> said /\ last[5] = "I"
           /\ Cursor(info) = IF said THEN <<Display(last[9]), Display(last[10])>> ELSE <<>>
           /\ Size(info) = IF said THEN <<last[7], last[8]>> ELSE <<>>
=============================================================================
