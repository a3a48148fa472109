--------------------------- MODULE ResponseParser ---------------------------
(***************************************************************************)
(* ibm3270/_parser.py, _ResponseParser: the responses in a stream that     *)
(* arrives in chunks.  The characters are CR, LF, "o", "k" and two that    *)
(* stand for a word each: E for "error" and D for "data: "; a chunk may    *)
(* end after any of them.                                                  *)
(***************************************************************************)
EXTENDS Integers, SequencesExt

CONSTANTS MaxText,      \* bound: characters fed
          MaxChunk      \* bound: characters in one chunk

ASSUME BoundsAssumption == MaxText \in Nat /\ MaxChunk \in Nat

Characters == {"o", "k", "E", "D", "CR", "LF"}

VARIABLES
    buffer, lines,      \* self._buffer, self._lines
    emitted,            \* the responses the callback was given
    fed                 \* history: all the text fed

vars == <<buffer, lines, emitted, fed>>

Init == buffer = <<>> /\ lines = <<>> /\ emitted = <<>> /\ fed = <<>>

RStrip(line) == SubSeq(line, 1, SelectLastInSeq(line, LAMBDA c : c # "CR"))     \* 35

IsEnd(line) == line = <<"o", "k">> \/ (line # <<>> /\ line[1] = "E")            \* 38

Unprefixed(line) == IF line # <<>> /\ line[1] = "D" THEN Tail(line) ELSE line   \* 54

(* The TerminalResponse of the lines before the one that ends it.          *)
Response(before, end) ==        \* 47-64
    [ok     |-> end = <<"o", "k">>,
     status |-> IF before = <<>> THEN <<>> ELSE Last(before),
     data   |-> IF before = <<>> THEN <<>>
                ELSE [i \in 1..(Len(before) - 1) |-> Unprefixed(before[i])],
     raw    |-> Append(before, end)]

(* Faulty variant: the lines of an emitted response are kept.              *)
TurnKeeping(p, n) ==
    LET line == RStrip(SubSeq(p.buffer, 1, n - 1))
        rest == SubSeq(p.buffer, n + 1, Len(p.buffer))
    IN IF IsEnd(line)
       THEN [p EXCEPT !.buffer = rest, !.emitted = Append(@, Response(p.lines, line))]
       ELSE [p EXCEPT !.buffer = rest, !.lines = Append(@, line)]

(* One turn of the loop over the line that ends at n.                      *)
Turn(p, n) ==                   \* 35-45
    LET line == RStrip(SubSeq(p.buffer, 1, n - 1))
        rest == SubSeq(p.buffer, n + 1, Len(p.buffer))
    IN IF IsEnd(line)
       THEN [buffer  |-> rest, lines |-> <<>>,
             emitted |-> Append(p.emitted, Response(p.lines, line))]
       ELSE [p EXCEPT !.buffer = rest, !.lines = Append(@, line)]

FirstLF(text) == SelectInSeq(text, LAMBDA c : c = "LF")

TakeLine(p) == IF FirstLF(p.buffer) = 0 THEN p ELSE Turn(p, FirstLF(p.buffer))  \* 31-33

(* Faulty variant: "if" for "while".                                       *)
DrainOnce(p) == TakeLine(p)

(* The while loop: a turn takes its line off the buffer, so there are no   *)
(* more turns than characters.                                             *)
Drain(p) ==
    LET after[n \in 0..Len(p.buffer)] == IF n = 0 THEN p ELSE TakeLine(after[n - 1])
    IN after[Len(p.buffer)]

Feed(chunk) ==
    /\ Len(fed) + Len(chunk) <= MaxText
    /\ LET p == Drain([buffer |-> buffer \o chunk, lines |-> lines, emitted |-> emitted])
       IN buffer' = p.buffer /\ lines' = p.lines /\ emitted' = p.emitted
    /\ fed' = fed \o chunk

Next == \E n \in 1..MaxChunk : \E chunk \in [1..n -> Characters] : Feed(chunk)

Spec == Init /\ [][Next]_vars
-----------------------------------------------------------------------------
(* The reference: the lines of a text are what stands before each LF, and  *)
(* a response is made of the lines after the end of the one before it.     *)
Positions(marks) ==
    LET upTo[n \in 0..Len(marks)] ==
            IF n = 0 THEN <<>>
            ELSE IF marks[n] THEN Append(upTo[n - 1], n) ELSE upTo[n - 1]
    IN upTo[Len(marks)]

LineEnds(text)    == Positions([i \in DOMAIN text |-> text[i] = "LF"])
ResponseEnds(all) == Positions([k \in DOMAIN all |-> IsEnd(all[k])])

Before(ends, k) == IF k = 1 THEN 0 ELSE ends[k - 1]

LinesOf(text) ==
    LET ends == LineEnds(text)
    IN [k \in DOMAIN ends |-> RStrip(SubSeq(text, Before(ends, k) + 1, ends[k] - 1))]

ResponsesOf(all) ==
    LET ends == ResponseEnds(all)
    IN [j \in DOMAIN ends |->
          Response(SubSeq(all, Before(ends, j) + 1, ends[j] - 1), all[ends[j]])]

(* The responses emitted are those of the whole text, wherever the chunks  *)
(* end: inside a word, between CR and LF, or several in one chunk (lines   *)
(* 28-41).                                                                 *)
ChunksDoNotMatter == emitted = ResponsesOf(LinesOf(fed))

(* What has not been emitted is kept and nothing else: the lines since the *)
(* last end, and the text since the last LF (lines 35-36, 41, 44-45).      *)
Since(ends, s) == SubSeq(s, Before(ends, Len(ends) + 1) + 1, Len(s))

RestIsKept ==
    LET all == LinesOf(fed)
    IN lines = Since(ResponseEnds(all), all) /\ buffer = Since(LineEnds(fed), fed)
=============================================================================
