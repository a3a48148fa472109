------------------------------- MODULE Screen -------------------------------
(***************************************************************************)
(* ibm3270/terminal.py: what is read from the screen buffer, a sequence of *)
(* rows, and the text write() types.  A character is one of three; rows    *)
(* and columns count from 1, and nothing keeps a caller from passing       *)
(* others, or a negative length.                                           *)
(***************************************************************************)
EXTENDS Integers, Sequences, Inputs

Blank  == " "
Digit  == "1"       \* stands for the characters of a number
Letter == "x"       \* stands for all others
ScreenCharacters == {Blank, Digit, Letter}

(* Python's s[i:j].  A negative index counts from the end.                 *)
Clip(i, n) == IF i > n THEN n ELSE IF i >= 0 THEN i ELSE IF n + i >= 0 THEN n + i ELSE 0
Slice(s, i, j) == SubSeq(s, Clip(i, Len(s)) + 1, Clip(j, Len(s)))

RightTrimmed(s) ==      \* rstrip()
    SubSeq(s, 1, CHOOSE n \in 0..Len(s) : /\ n > 0 => s[n] # Blank
                                          /\ \A i \in (n + 1)..Len(s) : s[i] = Blank)

(* Faulty variants: the column taken for 0-based; one character too many.  *)
CellsFromZero(row, col, length) == Slice(row, col, col + length)
CellsToEnd(row, col, length)    == Slice(row, col - 1, col + length)

Cells(row, col, length) == Slice(row, col - 1, col - 1 + length)        \* 346

Read(screen, row, col, length, trim) ==                                 \* 343-347
    IF row < 1 \/ row > Len(screen) THEN <<>>
    ELSE LET cells == Cells(screen[row], col, length)
         IN IF trim THEN RightTrimmed(cells) ELSE cells

(* Faulty variant: "text in self.read(...)" instead of equality.           *)
FindAtLoose(screen, text, row, col) ==
    LET cells == Read(screen, row, col, Len(text) + 1, TRUE)
    IN \E n \in 0..(Len(cells) - Len(text)) : SubSeq(cells, n + 1, n + Len(text)) = text

FindAt(screen, text, row, col) ==                                       \* 383
    Read(screen, row, col, Len(text), TRUE) = text

(* text in screen(), for a text without line feeds.                        *)
FindAnywhere(screen, text) ==                                           \* 384
    text = <<>> \/ \E r \in DOMAIN screen : \E n \in 0..(Len(screen[r]) - Len(text)) :
                       SubSeq(screen[r], n + 1, n + Len(text)) = text

(* Faulty variant: isdigit() in the place of float().                      *)
IsNumberBare(raw) == raw # <<>> /\ \A i \in DOMAIN raw : raw[i] = Digit

(* float(): digits, with white space around them ignored.                  *)
IsNumber(raw) ==
    LET filled == {i \in DOMAIN raw : raw[i] # Blank}
    IN /\ filled # {} /\ \A i \in filled : raw[i] = Digit
       /\ \A i, k \in filled : \A j \in i..k : j \in filled

(* The value read_many() stores for a field, tagged with its Python type.  *)
FieldValue(screen, field) ==                                            \* 399-407
    LET raw == Read(screen, field.row, field.col, field.length, field.trim)
    IN IF field.type # "number" THEN [type |-> "str", text |-> raw]
       ELSE IF raw = <<>>       THEN [type |-> "None", text |-> <<>>]
       ELSE IF IsNumber(raw)    THEN [type |-> "float", text |-> raw]
       ELSE [type |-> "str", text |-> raw]

(* Faulty variant: a text that is filled up with zeros, as numbers are.    *)
WrittenZeros(text, length) ==
    LET cut == Slice(text, 0, length)
    IN IF length <= Len(cut) THEN cut ELSE cut \o [i \in 1..(length - Len(cut)) |-> Digit]

(* The text write() hands to string(): cut, then filled up on the right.   *)
Written(text, length) ==                                                \* 362-363
    LET cut == Slice(text, 0, length)
    IN IF length <= Len(cut) THEN cut ELSE cut \o [i \in 1..(length - Len(cut)) |-> Blank]
-----------------------------------------------------------------------------
(* The reference: the cells of a row from col on, length of them, as far   *)
(* as there are any.                                                       *)
Region(row, col, length) ==
    [i \in 1..(IF length < Len(row) - col + 1 THEN length
               ELSE IF col <= Len(row) THEN Len(row) - col + 1 ELSE 0) |-> row[col + i - 1]]

(* read() with a legal column and length returns the cells of that region, *)
(* cut off at the end of the row, and "" for a row that does not exist     *)
(* (lines 343-347).                                                        *)
ReadIsRegion ==
    Calling("read") /\ input.col >= 1 /\ input.length >= 0 =>
        Read(input.screen, input.row, input.col, input.length, FALSE) =
            IF input.row \in DOMAIN input.screen
            THEN Region(input.screen[input.row], input.col, input.length) ELSE <<>>

(* With any column at all, also one below 1 that slices from the end of    *)
(* the row, read() returns no more than the length asked for, so that a    *)
(* caller's field never overflows; only a negative length may (line 346).  *)
ReadFits ==
    Calling("read") /\ input.length >= 0 =>
        Len(Read(input.screen, input.row, input.col, input.length, input.trim)) <= input.length

(* A text that find() finds at a position is what the cells there show,    *)
(* and find() without a position finds it too: a wait for a text on the    *)
(* whole screen ends whenever one for the text at its place does (lines    *)
(* 382-384, 571).                                                          *)
FindAgrees ==
    Calling("find") /\ input.col >= 1 /\ input.text # <<>>
        /\ FindAt(input.screen, input.text, input.row, input.col) =>
            /\ FindAnywhere(input.screen, input.text)
            /\ input.row \in DOMAIN input.screen
            /\ input.text = Region(input.screen[input.row], input.col, Len(input.text))

(* Docstring of find() (terminal.py 369) as a property of the code: it is  *)
(* True if the text appears at the position.                               *)
FindsWhatIsThere ==
    Calling("find") /\ input.row \in DOMAIN input.screen /\ input.col >= 1
        /\ input.text = Region(input.screen[input.row], input.col, Len(input.text))
            => FindAt(input.screen, input.text, input.row, input.col)

(* The value of a numeric field does not hang on trim, except for a blank  *)
(* one: a number with blanks after it is a number either way, also when    *)
(* the row ends inside the field, and with trim exactly the blank fields   *)
(* are None (lines 344-347, 402-405).                                      *)
NumbersSurviveTrim ==
    Calling("read_many") /\ input.field.type = "number" =>
        LET value(trim) == FieldValue(input.screen, [input.field EXCEPT !.trim = trim])
            cells == IF input.field.row \in DOMAIN input.screen
                     THEN Region(input.screen[input.field.row], input.field.col,
                                 input.field.length)
                     ELSE <<>>
        IN /\ value(TRUE).type = "None" <=> \A i \in DOMAIN cells : cells[i] = Blank
           /\ value(TRUE).type = "float" <=> value(FALSE).type = "float"
           /\ value(TRUE).type = "str" => value(FALSE).type = "str"
=============================================================================
