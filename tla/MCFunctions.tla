----------------------------- MODULE MCFunctions -----------------------------
(* Bounded inputs of the pure functions, and texts in chunks for the        *)
(* response parser.                                                         *)
EXTENDS ResponseParser, EscapeValidator, StatusLine, DocSearch

CONSTANTS Functions,    \* the functions to call, "feed" for the parser
          MaxWidth,     \* bound: characters in a row of the screen
          MaxTail       \* bound: characters after the opening of an escape

UpTo(n, S) == UNION {[1..k -> S] : k \in 0..n}

(* Screens of up to two rows.                                              *)
Rows    == UpTo(MaxWidth, ScreenCharacters)
Screens == {<<>>} \cup {<<r>> : r \in Rows} \cup {<<<<Blank>>, r>> : r \in Rows}
           \cup {<<r, <<Letter, Digit>>>> : r \in Rows}
Columns == -1..(MaxWidth + 2)
Lengths == -2..(MaxWidth + 1)

Reads == [fn : {"read"}, screen : Screens, row : -1..3, col : Columns, length : Lengths,
          trim : BOOLEAN]
Finds == [fn : {"find"}, screen : Screens, row : 0..3, col : Columns, text : Rows]
ManyReads == [fn : {"read_many"}, screen : Screens,
              field : [row : 0..2, col : 1..2, length : 1..MaxWidth, trim : BOOLEAN,
                       type : {"number", "string"}]]

(* All short texts, and an escape with what may follow it, alone and after *)
(* an escaped or a lone backslash.                                         *)
Escapes(tail) ==
    {before \o opening \o t :
        before \in {<<>>, <<"\\">>, <<"\\", "\\">>, <<Blank>>},
        opening \in {<<"\\", "e">>, <<"\\", "u">>}, t \in UpTo(tail, {"1", "c", "\\"})}
    \cup {before \o opening \o t :
        before \in {<<>>, <<"\\">>, <<"\\", "\\">>, <<Blank>>},
        opening \in {<<"\\", "p", "f">>, <<"\\", "p", "a">>},
        t \in UpTo(3, AnyDigit \cup {Blank})}
Texts == UpTo(3, EscapeCharacters) \cup Escapes(MaxTail)

Validations == [fn : {"validate"}, text : Texts]
Writes      == [fn : {"write"}, text : Escapes(MaxTail - 1), length : -1..(MaxTail + 4)]

(* Status lines: all prefixes and one longer, with one field changed.      *)
GoodLines == {[i \in 1..13 |-> CASE i = 1 -> k [] i = 2 -> f [] i = 4 -> c [] i = 9 -> r
                                 [] i = 12 -> "-" [] i = 11 -> "0x0" [] i = 13 -> "junk"
                                 [] i \in {3, 5} -> CHOOSE x \in Accepted[i] : TRUE
                                 [] OTHER -> "24"] :
                k \in {"U", "L", "E"}, f \in {"F", "U"}, c \in {"C()", "N"}, r \in {"0", "24"}}
OtherModes == {[(CHOOSE l \in GoodLines : TRUE) EXCEPT ![5] = m] : m \in Accepted[5]}
StatusLines == OtherModes \cup UNION {{SubSeq(l, 1, n) : n \in {0, 1, 11, 12, 13}} : l \in GoodLines}
               \cup {[SubSeq(l, 1, 12) EXCEPT ![i] = "junk"] : l \in GoodLines, i \in 1..12}
               \cup {[SubSeq(l, 1, 12) EXCEPT ![4] = "C("] : l \in GoodLines}
Statuses == [fn : {"status"}, heard : UpTo(2, StatusLines)]

(* Two names, each with words in two of its fields.                        *)
Words == {<<"g">>, <<"g", "t">>, <<"t">>, <<"[", "t">>, <<"t", "]">>, <<"]">>}
CommonWords == {<<"t">>}
ChopStem(w) == SubSeq(w, 1, 1)
Text(a, b) == [f \in FieldNames |-> IF f = "qualname" THEN a ELSE IF f = "doc" THEN b ELSE <<>>]
Searches == [fn : {"search"}, isPrebuilt : BOOLEAN, term : UpTo(2, Words),
             docs : {{[ref |-> 1, text |-> Text(a, b)], [ref |-> 2, text |-> Text(c, <<>>)]} :
                        a \in UpTo(2, Words), b \in UpTo(1, Words), c \in UpTo(1, Words)}]

MCInit == /\ Init
          /\ \/ "feed"      \in Functions /\ input = [fn |-> "feed"]
             \/ "read"      \in Functions /\ input \in Reads
             \/ "find"      \in Functions /\ input \in Finds
             \/ "read_many" \in Functions /\ input \in ManyReads
             \/ "validate"  \in Functions /\ input \in Validations
             \/ "write"     \in Functions /\ input \in Writes
             \/ "status"    \in Functions /\ input \in Statuses
             \/ "search"    \in Functions /\ input \in Searches
MCNext == Calling("feed") /\ Next /\ UNCHANGED input
MCSpec == MCInit /\ [][MCNext]_<<vars, input>>
=============================================================================
