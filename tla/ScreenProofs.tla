---------------------------- MODULE ScreenProofs ----------------------------
(***************************************************************************)
(* Proofs about Screen: reading, for screens of every size and every       *)
(* integer a caller may pass.                                              *)
(***************************************************************************)
EXTENDS Screen, SequenceTheorems, WellFoundedInduction, TLAPS

Row == Seq(ScreenCharacters)

(* The bounds of a slice are positions in the sequence.                    *)
LEMMA ClipType ==
    ASSUME NEW i \in Int, NEW n \in Nat
    PROVE  Clip(i, n) \in 0..n
BY DEF Clip

(* Slices from i to i + length are no longer than that, also when i counts *)
(* from the end and i + length does not.                                   *)
LEMMA ClipDistance ==
    ASSUME NEW i \in Int, NEW n \in Nat, NEW length \in Nat
    PROVE  Clip(i + length, n) - Clip(i, n) <= length
BY DEF Clip

LEMMA SliceIsSequence ==
    ASSUME NEW row \in Row, NEW i \in Int, NEW j \in Int
    PROVE  Slice(row, i, j) \in Row
<1>0. Len(row) \in Nat
    BY DEF Row
<1>1. Clip(i, Len(row)) \in 0..Len(row) /\ Clip(j, Len(row)) \in 0..Len(row)
    BY <1>0, ClipType
<1> QED BY <1>1, SubSeqProperties DEF Slice, Row

LEMMA SliceLength ==
    ASSUME NEW row \in Row, NEW i \in Int, NEW length \in Nat
    PROVE  Len(Slice(row, i, i + length)) <= length
<1>0. Len(row) \in Nat /\ i + length \in Int
    BY DEF Row
<1>1. /\ Clip(i, Len(row)) \in 0..Len(row) /\ Clip(i + length, Len(row)) \in 0..Len(row)
      /\ Clip(i + length, Len(row)) - Clip(i, Len(row)) <= length
    BY <1>0, ClipType, ClipDistance
<1> QED BY <1>1, SubSeqProperties DEF Slice, Row

(* The CHOOSE of RightTrimmed has something to choose: the least length    *)
(* with nothing but blanks behind it.                                      *)
LEMMA LastFilled ==
    ASSUME NEW s \in Row
    PROVE  \E n \in 0..Len(s) : /\ n > 0 => s[n] # Blank
                                /\ \A i \in (n + 1)..Len(s) : s[i] = Blank
<1> DEFINE T == {n \in 0..Len(s) : \A i \in (n + 1)..Len(s) : s[i] = Blank}
<1>1. Len(s) \in T /\ T \subseteq Nat
    BY DEF Row
<1>2. PICK n \in T : \A m \in T : ~(<<m, n>> \in OpToRel(<, Nat))
  <2>1. T \subseteq Nat /\ T # {}
      BY <1>1
  <2> HIDE DEF T
  <2> QED BY <2>1, NatLessThanWellFounded, WFMin, Zenon
<1>3. ASSUME n > 0, s[n] = Blank PROVE FALSE
  <2>1. n - 1 \in T
      BY <1>3 DEF Row
  <2>2. <<n - 1, n>> \in OpToRel(<, Nat)
      BY <1>1, <1>3, <2>1 DEF OpToRel
  <2> QED BY <1>2, <2>1, <2>2
<1> QED BY <1>3

LEMMA TrimmedIsPrefix ==
    ASSUME NEW s \in Row
    PROVE  \E n \in 0..Len(s) : RightTrimmed(s) = SubSeq(s, 1, n)
<1>1. (CHOOSE n \in 0..Len(s) : /\ n > 0 => s[n] # Blank
                                /\ \A i \in (n + 1)..Len(s) : s[i] = Blank) \in 0..Len(s)
    BY LastFilled
<1> QED BY <1>1 DEF RightTrimmed

ReadCall ==
    /\ input.screen \in Seq(Row)
    /\ input.row \in Int /\ input.col \in Int /\ input.length \in Int
    /\ input.trim \in BOOLEAN

(* What read() returns from a row, and from no row.                        *)
LEMMA SliceIsRegion ==
    ASSUME NEW row \in Row, NEW col \in Nat \ {0}, NEW length \in Nat
    PROVE  Slice(row, col - 1, col - 1 + length) = Region(row, col, length)
<1> DEFINE from == Clip(col - 1, Len(row))
           to   == Clip(col - 1 + length, Len(row))
           size == IF length < Len(row) - col + 1 THEN length
                   ELSE IF col <= Len(row) THEN Len(row) - col + 1 ELSE 0
<1>0. Len(row) \in Nat /\ col - 1 \in Int /\ col - 1 + length \in Int
    BY DEF Row
<1>1. from \in 0..Len(row) /\ to \in 0..Len(row) /\ Len(row) \in Nat
    BY <1>0, ClipType
<1>2. /\ size \in Nat
      /\ from + 1 <= to => size = to - from /\ from = col - 1
      /\ ~(from + 1 <= to) => size = 0
  <2>1. PICK n \in Nat : n = Len(row)
      BY <1>0
  <2>2. CASE col > n
    <3>1. from = n /\ to = n
        BY <2>1, <2>2 DEF Clip
    <3>2. size = 0
        BY <2>1, <2>2
    <3> QED BY <3>1, <3>2
  <2>3. CASE col <= n /\ length < n - col + 1
      BY <2>1, <2>3 DEF Clip
  <2>4. CASE col <= n /\ length >= n - col + 1
    <3>1. from = col - 1 /\ to = n
        BY <2>1, <2>4 DEF Clip
    <3>2. size = n - col + 1
        BY <2>1, <2>4
    <3> HIDE DEF from, to, size
    <3> QED BY <2>1, <2>4, <3>1, <3>2
  <2> QED BY <2>1, <2>2, <2>3, <2>4
<1>3. /\ SubSeq(row, from + 1, to) \in Row
      /\ Len(SubSeq(row, from + 1, to)) = IF from + 1 <= to THEN to - from ELSE 0
      /\ \A i \in 1..(to - from) : SubSeq(row, from + 1, to)[i] = row[from + i]
    BY <1>1, SubSeqProperties DEF Row
<1>4. Region(row, col, length) = [i \in 1..size |-> row[col + i - 1]]
    BY DEF Region
<1>5. SubSeq(row, from + 1, to) = [i \in 1..size |-> row[col + i - 1]]
  <2>1. SubSeq(row, from + 1, to) = [i \in 1..Len(SubSeq(row, from + 1, to))
                                        |-> SubSeq(row, from + 1, to)[i]]
      BY <1>3 DEF Row
  <2>2. Len(SubSeq(row, from + 1, to)) = size
      BY <1>1, <1>2, <1>3
  <2> HIDE DEF from, to, size
  <2>3. ASSUME NEW i \in 1..size PROVE SubSeq(row, from + 1, to)[i] = row[col + i - 1]
    <3>1. from + 1 <= to /\ i \in 1..(to - from) /\ from + i = col + i - 1
        BY <1>1, <1>2
    <3> QED BY <1>3, <3>1
  <2> QED BY <2>1, <2>2, <2>3
<1> QED BY <1>4, <1>5 DEF Slice

(* read() of legal arguments returns the region of the row, for every      *)
(* screen (terminal.py 343-347).                                           *)
THEOREM ReadReturnsRegion == ReadCall => ReadIsRegion
<1> SUFFICES ASSUME ReadCall, input.col >= 1, input.length >= 0
             PROVE  Read(input.screen, input.row, input.col, input.length, FALSE) =
                        IF input.row \in DOMAIN input.screen
                        THEN Region(input.screen[input.row], input.col, input.length) ELSE <<>>
    BY DEF ReadIsRegion
<1>1. input.row \in DOMAIN input.screen <=> ~(input.row < 1 \/ input.row > Len(input.screen))
    BY DEF ReadCall
<1>2. CASE input.row \in DOMAIN input.screen
  <2>1. input.screen[input.row] \in Row
      BY <1>2 DEF ReadCall
  <2>2. input.col \in Nat \ {0} /\ input.length \in Nat
      BY DEF ReadCall
  <2> QED BY <1>1, <1>2, <2>1, <2>2, SliceIsRegion DEF Read, Cells
<1>3. CASE input.row \notin DOMAIN input.screen
    BY <1>1, <1>3 DEF Read
<1> QED BY <1>2, <1>3

(* read() returns no more than it was asked for, for every screen and all  *)
(* integers but a negative length (terminal.py 346).                       *)
THEOREM ReadNeverOverflows == ReadCall => ReadFits
<1> SUFFICES ASSUME ReadCall, input.length >= 0
             PROVE  Len(Read(input.screen, input.row, input.col, input.length, input.trim))
                        <= input.length
    BY DEF ReadFits
<1> DEFINE row   == input.screen[input.row]
           cells == Cells(row, input.col, input.length)
<1>1. CASE input.row < 1 \/ input.row > Len(input.screen)
    BY <1>1 DEF Read, ReadCall
<1>2. CASE ~(input.row < 1 \/ input.row > Len(input.screen))
  <2>1. row \in Row /\ input.col \in Int /\ input.length \in Nat
      BY <1>2 DEF ReadCall
  <2>2. cells \in Row /\ Len(cells) <= input.length
    <3> HIDE DEF row
    <3>1. input.col - 1 \in Int /\ input.col - 1 + input.length \in Int
        BY <2>1
    <3>2. cells = Slice(row, input.col - 1, input.col - 1 + input.length)
        BY DEF Cells
    <3> HIDE DEF cells
    <3> QED BY <2>1, <3>1, <3>2, SliceIsSequence, SliceLength
  <2> HIDE DEF row, cells
  <2>3. PICK n \in 0..Len(cells) : RightTrimmed(cells) = SubSeq(cells, 1, n)
      BY <2>2, TrimmedIsPrefix
  <2>4. Len(SubSeq(cells, 1, n)) <= Len(cells)
      BY <2>2, <2>3, SubSeqProperties DEF Row
  <2>5. Len(RightTrimmed(cells)) <= input.length
    <3>1. Len(cells) \in Nat /\ Len(SubSeq(cells, 1, n)) \in Nat
        BY <2>2, <2>3, SubSeqProperties DEF Row
    <3> QED BY <2>1, <2>2, <2>3, <2>4, <3>1
  <2>6. Read(input.screen, input.row, input.col, input.length, input.trim)
            = IF input.trim THEN RightTrimmed(cells) ELSE cells
      BY <1>2 DEF Read, row, cells
  <2> QED BY <2>2, <2>5, <2>6
<1> QED BY <1>1, <1>2

FindCall ==
    /\ input.screen \in Seq(Row) /\ input.text \in Row
    /\ input.row \in Int /\ input.col \in Int

(* A region that is as long as was asked for lies within the row.          *)
LEMMA WholeRegion ==
    ASSUME NEW row \in Row, NEW col \in Nat \ {0}, NEW length \in Nat \ {0},
           Len(Slice(row, col - 1, col - 1 + length)) = length
    PROVE  /\ col - 1 + length <= Len(row)
           /\ Slice(row, col - 1, col - 1 + length) = SubSeq(row, col, col - 1 + length)
<1> DEFINE from == Clip(col - 1, Len(row))
           to   == Clip(col - 1 + length, Len(row))
<1>0. Len(row) \in Nat /\ col - 1 \in Int /\ col - 1 + length \in Int
    BY DEF Row
<1>1. from \in 0..Len(row) /\ to \in 0..Len(row)
    BY <1>0, ClipType
<1>2. Len(SubSeq(row, from + 1, to)) = IF from + 1 <= to THEN to - from ELSE 0
    BY <1>0, <1>1, SubSeqProperties DEF Row
<1>3. to - from = length
    BY <1>1, <1>2 DEF Slice
<1>4. PICK n \in Nat : n = Len(row)
    BY <1>0
<1>5. col - 1 + length <= n
  <2>1. ASSUME col - 1 + length > n PROVE FALSE
    <3>1. to = n
        BY <1>4, <2>1 DEF Clip
    <3>2. from = IF col - 1 > n THEN n ELSE col - 1
        BY <1>4 DEF Clip
    <3> HIDE DEF from, to
    <3> QED BY <1>3, <2>1, <3>1, <3>2
  <2> QED BY <2>1
<1>6. from = col - 1 /\ to = col - 1 + length
    BY <1>4, <1>5 DEF Clip
<1> QED BY <1>4, <1>5, <1>6 DEF Slice

(* What find() finds at a position is there, and found without a position  *)
(* too, for every screen and text (terminal.py 382-384).                   *)
THEOREM FindIsSound == FindCall => FindAgrees
<1> DEFINE row    == input.screen[input.row]
           text   == input.text
           length == Len(text)
           cells  == Slice(row, input.col - 1, input.col - 1 + length)
<1> SUFFICES ASSUME FindCall, input.col >= 1, text # <<>>,
                    FindAt(input.screen, text, input.row, input.col)
             PROVE  /\ FindAnywhere(input.screen, text)
                    /\ input.row \in DOMAIN input.screen
                    /\ text = Region(row, input.col, length)
    BY DEF FindAgrees
<1>1. text \in Row /\ length \in Nat \ {0} /\ input.col \in Nat \ {0}
    BY DEF FindCall, Row
<1>2. input.row \in DOMAIN input.screen /\ row \in Row
    BY DEF FindCall, FindAt, Read
<1>3. text = RightTrimmed(cells)
    BY <1>2 DEF FindCall, FindAt, Read, Cells
<1> HIDE DEF row, text, length
<1>4. cells \in Row /\ Len(cells) <= length
  <2>1. input.col - 1 \in Int /\ input.col - 1 + length \in Int
      BY <1>1
  <2> QED BY <1>1, <1>2, <2>1, SliceIsSequence, SliceLength
<1> HIDE DEF cells
<1>5. text = cells
  <2>1. PICK n \in 0..Len(cells) : text = SubSeq(cells, 1, n)
      BY <1>3, <1>4, TrimmedIsPrefix
  <2>2. Len(cells) \in Nat /\ Len(SubSeq(cells, 1, n)) = n
    <3>1. Len(cells) \in Nat
        BY <1>4 DEF Row
    <3>2. Len(SubSeq(cells, 1, n)) = IF 1 <= n THEN n - 1 + 1 ELSE 0
        BY <1>4, <3>1, SubSeqProperties DEF Row
    <3> QED BY <3>1, <3>2
  <2>3. n = Len(cells)
      BY <1>1, <1>4, <2>1, <2>2 DEF length
  <2> QED BY <1>4, <2>1, <2>3, SubSeqFull DEF Row
<1>6. text = Region(row, input.col, length)
    BY <1>1, <1>2, <1>5, SliceIsRegion DEF cells
<1>7. /\ input.col - 1 + length <= Len(row)
      /\ text = SubSeq(row, input.col, input.col - 1 + length)
  <2>1. Len(cells) = length
      BY <1>5 DEF length
  <2> QED BY <1>1, <1>2, <1>5, <2>1, WholeRegion DEF cells
<1>8. FindAnywhere(input.screen, text)
  <2>1. PICK m : m = input.col - 1
      OBVIOUS
  <2>2. m \in 0..(Len(row) - length) /\ text = SubSeq(row, m + 1, m + length)
    <3>1. Len(row) \in Nat
        BY <1>2 DEF Row
    <3>2. m + 1 = input.col /\ m + length = input.col - 1 + length
        BY <1>1, <2>1
    <3>3. text = SubSeq(row, m + 1, m + length)
        BY <1>7, <3>2
    <3>4. m \in 0..(Len(row) - length)
        BY <1>1, <1>7, <2>1, <3>1
    <3> QED BY <3>3, <3>4
  <2>3. \E k \in 0..(Len(row) - Len(text)) : SubSeq(row, k + 1, k + Len(text)) = text
      BY <2>2 DEF length
  <2> QED BY <1>2, <2>3 DEF FindAnywhere, row
<1> QED BY <1>2, <1>6, <1>8 DEF row, text, length
(* What rstrip() leaves: the cells up to the last one that is not blank.   *)
LEMMA TrimmedEnd ==
    ASSUME NEW s \in Row
    PROVE  \E n \in 0..Len(s) : /\ RightTrimmed(s) = SubSeq(s, 1, n)
                                /\ n > 0 => s[n] # Blank
                                /\ \A i \in (n + 1)..Len(s) : s[i] = Blank
<1> DEFINE End(n) == /\ n > 0 => s[n] # Blank
                     /\ \A i \in (n + 1)..Len(s) : s[i] = Blank
           end    == CHOOSE n \in 0..Len(s) : End(n)
<1>1. \E n \in 0..Len(s) : End(n)
    BY LastFilled
<1>2. RightTrimmed(s) = SubSeq(s, 1, end)
    BY DEF RightTrimmed
<1> HIDE DEF End
<1>3. end \in 0..Len(s) /\ End(end)
    BY <1>1
<1> HIDE DEF end
<1> QED BY <1>2, <1>3 DEF End

(* The filled cells, and so whether they are a number, are those of the    *)
(* text before it was cut.                                                 *)
LEMMA TrimmedNumber ==
    ASSUME NEW s \in Row
    PROVE  /\ RightTrimmed(s) = <<>> <=> \A i \in DOMAIN s : s[i] = Blank
           /\ IsNumber(RightTrimmed(s)) <=> IsNumber(s)
<1> DEFINE t         == RightTrimmed(s)
           filled(x) == {i \in DOMAIN x : x[i] # Blank}
<1>1. PICK n \in 0..Len(s) : /\ t = SubSeq(s, 1, n)
                             /\ n > 0 => s[n] # Blank
                             /\ \A i \in (n + 1)..Len(s) : s[i] = Blank
    BY TrimmedEnd
<1> HIDE DEF t
<1>2. Len(s) \in Nat /\ DOMAIN s = 1..Len(s)
    BY DEF Row
<1>3. t \in Row /\ DOMAIN t = 1..n /\ \A i \in 1..n : t[i] = s[i]
  <2>1. /\ t \in Row /\ Len(t) = IF 1 <= n THEN n - 1 + 1 ELSE 0
        /\ \A i \in 1..(n - 1 + 1) : t[i] = s[1 + i - 1]
      BY <1>1, <1>2, SubSeqProperties DEF Row
  <2>2. Len(t) = n
      BY <1>1, <1>2, <2>1
  <2> QED BY <1>1, <1>2, <2>1, <2>2 DEF Row
<1>4. t = <<>> <=> n = 0
    BY <1>3 DEF Row
<1>5. filled(t) = filled(s)
    BY <1>1, <1>2, <1>3
<1>6. n = 0 <=> \A i \in DOMAIN s : s[i] = Blank
    BY <1>1, <1>2
<1>7. \A i \in filled(s) : s[i] = t[i]
    BY <1>3, <1>5
<1>8. IsNumber(t) <=> IsNumber(s)
  <2>1. \A x : IsNumber(x) <=> /\ filled(x) # {} /\ \A i \in filled(x) : x[i] = Digit
                               /\ \A i, k \in filled(x) : \A j \in i..k : j \in filled(x)
      BY DEF IsNumber
  <2> HIDE DEF filled
  <2> QED BY <1>5, <1>7, <2>1
<1> QED BY <1>4, <1>6, <1>8 DEF t

ReadManyCall ==
    /\ input.screen \in Seq(Row)
    /\ input.field \in [row : Int, col : Nat \ {0}, length : Nat, trim : BOOLEAN, type : STRING]

(* Whether a numeric field is a number does not hang on trim, and with     *)
(* trim exactly the blank ones are None, for every screen and every field  *)
(* with a legal column and length (terminal.py 344-347, 402-405).          *)
THEOREM TrimKeepsNumbers == ReadManyCall => NumbersSurviveTrim
<1> DEFINE screen  == input.screen
           field   == input.field
           on(t)   == [field EXCEPT !.trim = t]
           cells   == IF field.row \in DOMAIN screen
                      THEN Region(screen[field.row], field.col, field.length) ELSE <<>>
<1> SUFFICES ASSUME ReadManyCall, field.type = "number"
             PROVE  /\ FieldValue(screen, on(TRUE)).type = "None"
                           <=> \A i \in DOMAIN cells : cells[i] = Blank
                    /\ FieldValue(screen, on(TRUE)).type = "float"
                           <=> FieldValue(screen, on(FALSE)).type = "float"
                    /\ FieldValue(screen, on(TRUE)).type = "str"
                           => FieldValue(screen, on(FALSE)).type = "str"
    BY DEF NumbersSurviveTrim
<1>1. /\ screen \in Seq(Row) /\ field.row \in Int
      /\ field.col \in Nat \ {0} /\ field.length \in Nat
    BY DEF ReadManyCall
<1>2. \A t \in BOOLEAN : /\ on(t).row = field.row /\ on(t).col = field.col
                         /\ on(t).length = field.length /\ on(t).type = "number"
                         /\ on(t).trim = t
    BY DEF ReadManyCall
<1>3. \A t \in BOOLEAN :
        FieldValue(screen, on(t)).type =
            LET raw == Read(screen, field.row, field.col, field.length, t)
            IN IF raw = <<>> THEN "None" ELSE IF IsNumber(raw) THEN "float" ELSE "str"
    BY <1>2 DEF FieldValue
<1> HIDE DEF on, screen, field
<1>4. /\ cells \in Row
      /\ Read(screen, field.row, field.col, field.length, FALSE) = cells
      /\ Read(screen, field.row, field.col, field.length, TRUE) = RightTrimmed(cells)
  <2>1. CASE field.row \in DOMAIN screen
    <3>1. screen[field.row] \in Row /\ ~(field.row < 1 \/ field.row > Len(screen))
        BY <1>1, <2>1
    <3>2. field.col - 1 \in Int /\ field.col - 1 + field.length \in Int
        BY <1>1
    <3>3. /\ Cells(screen[field.row], field.col, field.length) = cells
          /\ cells \in Row
        BY <1>1, <2>1, <3>1, <3>2, SliceIsRegion, SliceIsSequence DEF Cells
    <3> HIDE DEF cells
    <3> QED BY <3>1, <3>3 DEF Read
  <2>2. CASE field.row \notin DOMAIN screen
    <3>1. (field.row < 1 \/ field.row > Len(screen)) /\ cells = <<>>
        BY <1>1, <2>2
    <3>2. <<>> \in Row
        BY DEF Row
    <3>3. RightTrimmed(<<>>) = <<>>
        BY <3>2, TrimmedNumber
    <3> HIDE DEF cells
    <3> QED BY <3>1, <3>2, <3>3 DEF Read
  <2> QED BY <2>1, <2>2
<1> HIDE DEF cells
<1>5. /\ RightTrimmed(cells) = <<>> <=> \A i \in DOMAIN cells : cells[i] = Blank
      /\ IsNumber(RightTrimmed(cells)) <=> IsNumber(cells)
    BY <1>4, TrimmedNumber
<1>6. cells = <<>> => RightTrimmed(cells) = <<>>
    BY <1>5
<1>7. ~IsNumber(<<>>)
    BY DEF IsNumber
<1> QED BY <1>3, <1>4, <1>5, <1>6, <1>7
=============================================================================
