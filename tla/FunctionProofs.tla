--------------------------- MODULE FunctionProofs ---------------------------
(***************************************************************************)
(* Proofs about the status line, the escape sequences, the search of the   *)
(* documentation and the response parser, for inputs of every length.      *)
(* What folds, scans and loops is a recursive function in the models: that *)
(* it exists and what it yields is proved with a least counterexample.     *)
(***************************************************************************)
EXTENDS ResponseParser, EscapeValidator, StatusLine, DocSearch, SequenceTheorems,
        WellFoundedInduction, TLAPS

(* Induction over numbers, without an induction theorem: a set of them     *)
(* has a least element, and a bounded one a greatest.                      *)
LEMMA Least ==
    ASSUME NEW T \in SUBSET Nat, T # {}
    PROVE  \E n \in T : \A m \in T : n <= m
<1>1. PICK n \in T : \A m \in T : ~(<<m, n>> \in OpToRel(<, Nat))
    BY NatLessThanWellFounded, WFMin, Zenon
<1>2. ASSUME NEW m \in T PROVE n <= m
  <2>1. n \in Nat /\ m \in Nat
      OBVIOUS
  <2>2. m < n => <<m, n>> \in OpToRel(<, Nat)
      BY <2>1 DEF OpToRel
  <2>3. ~(m < n)
      BY <1>1, <2>2
  <2> QED BY <2>1, <2>3
<1> QED BY <1>2

LEMMA Greatest ==
    ASSUME NEW N \in Nat, NEW T \in SUBSET (0..N), T # {}
    PROVE  \E n \in T : \A m \in T : m <= n
<1> DEFINE U == {u \in 0..N : N - u \in T}
<1>0. ASSUME NEW m \in T PROVE N - m \in U
  <2>1. PICK u \in 0..N : u = N - m /\ N - u = m
      OBVIOUS
  <2> QED BY <2>1
<1>1. U \in SUBSET Nat /\ U # {}
  <2>1. PICK m \in T : TRUE
      OBVIOUS
  <2>2. N - m \in U
      BY <1>0
  <2> HIDE DEF U
  <2>3. U # {}
      BY <2>2
  <2> QED BY <2>3 DEF U
<1>2. PICK u \in U : \A v \in U : u <= v
  <2> HIDE DEF U
  <2> QED BY <1>1, Least
<1>3. ASSUME NEW m \in T PROVE m <= N - u
  <2>1. u <= N - m /\ u \in 0..N /\ m \in 0..N
      BY <1>0, <1>2
  <2> QED BY <2>1
<1> QED BY <1>2, <1>3

(* What command() keeps after each of some responses.                      *)
IsInfo(f, heard, N) ==
    f = [n \in 0..N |-> IF n = 0 THEN None ELSE Kept(f[n - 1], heard[n])]

LEMMA InfoExists ==
    ASSUME NEW heard, NEW N \in Nat
    PROVE  \E f : IsInfo(f, heard, N)
<1> USE DEF IsInfo
<1> DEFINE Missing == {m \in Nat : ~ \E f : IsInfo(f, heard, m)}
<1>1. ASSUME NEW m \in Missing, \A k \in Missing : m <= k PROVE FALSE
  <2>1. CASE m = 0
    <3> DEFINE f == [n \in 0..0 |-> None]
    <3>1. IsInfo(f, heard, 0)
        OBVIOUS
    <3> QED BY <2>1, <3>1
  <2>2. CASE m # 0
    <3>1. m - 1 \in Nat /\ m \in Nat /\ m - 1 \notin Missing
      <4>1. m \in Nat /\ m - 1 \in Nat /\ ~(m <= m - 1)
          BY <2>2
      <4> HIDE DEF Missing
      <4> QED BY <1>1, <4>1
    <3>2. PICK f : IsInfo(f, heard, m - 1)
        BY <3>1
    <3> DEFINE g == [n \in 0..m |-> IF n = 0 THEN None ELSE Kept(f[n - 1], heard[n])]
    <3>3. ASSUME NEW n \in 0..(m - 1) PROVE g[n] = f[n]
        BY <3>1, <3>2
    <3>4. ASSUME NEW n \in 0..m, n # 0 PROVE g[n - 1] = f[n - 1]
      <4>1. n - 1 \in 0..(m - 1)
          BY <3>1, <3>4
      <4> HIDE DEF g
      <4> QED BY <3>3, <4>1
    <3>5. g = [n \in 0..m |-> IF n = 0 THEN None ELSE Kept(g[n - 1], heard[n])]
        BY <3>1, <3>4
    <3> HIDE DEF g
    <3> QED BY <3>5
  <2> QED BY <2>1, <2>2
<1>2. Missing = {}
  <2> HIDE DEF Missing
  <2>1. Missing \in SUBSET Nat
      BY DEF Missing
  <2> QED BY <1>1, <2>1, Least
<1> QED BY <1>2

(* Responses without a status line change nothing that was kept.           *)
LEMMA KeptUntil ==
    ASSUME NEW heard, NEW N \in Nat, NEW f, IsInfo(f, heard, N),
           NEW p \in 0..N, \A k \in (p + 1)..N : heard[k] = <<>>
    PROVE  f[N] = f[p]
<1> DEFINE Other == {k \in p..N : f[k] # f[p]}
<1>1. ASSUME NEW k \in Other, \A j \in Other : k <= j PROVE FALSE
  <2>1. k \in (p + 1)..N /\ k # 0
      OBVIOUS
  <2>2. f[k] = f[k - 1]
    <3>1. f[k] = Kept(f[k - 1], heard[k])
        BY <2>1 DEF IsInfo
    <3> QED BY <2>1, <3>1 DEF Kept
  <2>3. k - 1 \in p..N /\ ~(k <= k - 1)
      BY <2>1
  <2>4. k - 1 \in Other
      BY <2>2, <2>3
  <2> HIDE DEF Other
  <2> QED BY <1>1, <2>3, <2>4
<1>2. Other \in SUBSET Nat
    OBVIOUS
<1>3. N \in Other => FALSE
  <2> HIDE DEF Other
  <2> QED BY <1>1, <1>2, Least
<1> QED BY <1>3

Heard == Seq(Seq(Fields))

LEMMA InfoOfLastLine ==
    ASSUME NEW heard \in Heard
    PROVE  /\ (\A n \in DOMAIN heard : heard[n] = <<>>) => After(heard) = None
           /\ \A n \in DOMAIN heard :
                heard[n] # <<>> /\ (\A m \in DOMAIN heard : heard[m] # <<>> => m <= n)
                    => After(heard) = Parse(heard[n])
<1> DEFINE N == Len(heard)
           info == CHOOSE f : IsInfo(f, heard, N)
<1>1. N \in Nat /\ DOMAIN heard = 1..N
    BY DEF Heard
<1>2. IsInfo(info, heard, N)
  <2>1. \E f : IsInfo(f, heard, N)
      BY <1>1, InfoExists
  <2> QED BY <2>1
<1>3. After(heard) = info[N]
    BY DEF After, IsInfo
<1> HIDE DEF info, N
<1>4. info[0] = None
    BY <1>1, <1>2 DEF IsInfo
<1>5. ASSUME \A n \in DOMAIN heard : heard[n] = <<>> PROVE info[N] = None
  <2>1. 0 \in 0..N /\ \A k \in (0 + 1)..N : heard[k] = <<>>
      BY <1>1, <1>5
  <2>2. info[N] = info[0]
      BY <1>1, <1>2, <2>1, KeptUntil
  <2> QED BY <1>4, <2>2
<1>6. ASSUME NEW n \in DOMAIN heard, heard[n] # <<>>,
             \A m \in DOMAIN heard : heard[m] # <<>> => m <= n
      PROVE  info[N] = Parse(heard[n])
  <2>1. n \in 0..N /\ n # 0 /\ \A k \in (n + 1)..N : heard[k] = <<>>
      BY <1>1, <1>6
  <2>2. info[N] = info[n]
      BY <1>1, <1>2, <2>1, KeptUntil
  <2>3. info[n] = Kept(info[n - 1], heard[n])
      BY <1>2, <2>1 DEF IsInfo
  <2> QED BY <1>6, <2>2, <2>3 DEF Kept
<1> QED BY <1>3, <1>5, <1>6

StatusCall == input.heard \in Heard

(* Flags, cursor and size are those of the last status line that came, if  *)
(* it was whole, however many responses there were and however long their  *)
(* lines (terminal.py 157-158).                                            *)
THEOREM FlagsFollowLastLine == StatusCall => FlagsAreOfLastLine
<1> DEFINE heard == input.heard
           told == {n \in DOMAIN heard : heard[n] # <<>>}
           last  == heard[CHOOSE n \in told : \A m \in told : m <= n]
           said  == told # {} /\ Whole(last)
           info  == After(heard)
<1> SUFFICES ASSUME StatusCall
             PROVE  /\ Is(info, "KeyboardLock") <=> said /\ last[1] \in {"L", "E"}
                    /\ Is(info, "Formatted") <=> said /\ last[2] = "F"
                    /\ Is(info, "Tn3270e") <=> said /\ last[5] = "I"
                    /\ Cursor(info) = IF said THEN <<Display(last[9]), Display(last[10])>>
                                      ELSE <<>>
                    /\ Size(info) = IF said THEN <<last[7], last[8]>> ELSE <<>>
    BY DEF FlagsAreOfLastLine
<1>1. heard \in Heard
    BY DEF StatusCall
<1>2. IF told # {} THEN info = Parse(last) /\ last \in Seq(Fields) ELSE info = None
  <2>1. CASE told = {}
      BY <1>1, <2>1, InfoOfLastLine
  <2>2. CASE told # {}
    <3>1. Len(heard) \in Nat /\ told \in SUBSET (0..Len(heard))
        BY <1>1 DEF Heard
    <3>2. \E n \in told : \A m \in told : m <= n
      <4> HIDE DEF told
      <4> QED BY <2>2, <3>1, Greatest
    <3> DEFINE n == CHOOSE n \in told : \A m \in told : m <= n
    <3>3. n \in told /\ \A m \in told : m <= n
      <4> HIDE DEF told
      <4> QED BY <3>2
    <3> HIDE DEF n
    <3>4. info = Parse(heard[n]) /\ heard[n] \in Seq(Fields)
        BY <1>1, <3>3, InfoOfLastLine DEF Heard
    <3> QED BY <2>2, <3>4 DEF n
  <2> QED BY <2>1, <2>2
<1> HIDE DEF info, told, last
<1>3. info = IF said THEN [keyboard |-> last[1], formatted |-> last[2], connection |-> last[4],
                           mode |-> last[5], rows |-> last[7], cols |-> last[8],
                           row |-> last[9], col |-> last[10]]
             ELSE None
  BY <1>2 DEF Parse
<1>4. said => last[1] \in {"U", "L", "E"} /\ last[2] \in {"F", "U"}
    BY DEF Accepted, Whole
<1> QED BY <1>3, <1>4 DEF Is, Cursor, Size, None
-----------------------------------------------------------------------------
Text == Seq(EscapeCharacters)

(* RunOf has a run to choose: as far as the next character not in C.       *)
IsRun(text, i, C, n) ==
    /\ n \in 0..(Len(text) + 1)
    /\ \A j \in i..(i + n - 1) : Has(text, j, C)
    /\ ~Has(text, i + n, C)

LEMMA RunIs ==
    ASSUME NEW text \in Text, NEW i \in Nat \ {0}, NEW C
    PROVE  IsRun(text, i, C, RunOf(text, i, C))
<1> DEFINE T == {n \in Nat : ~Has(text, i + n, C)}
           N == Len(text)
<1>0. N \in Nat
    BY DEF Text
<1>1. N + 1 \in T
    BY <1>0 DEF Has
<1>2. PICK n \in T : \A m \in T : n <= m
  <2>1. T \in SUBSET Nat /\ T # {}
      BY <1>1
  <2> HIDE DEF T
  <2> QED BY <2>1, Least
<1>3. ASSUME NEW j \in i..(i + n - 1) PROVE Has(text, j, C)
  <2>1. PICK m \in Nat : j = i + m /\ m < n
    <3>1. j - i \in Nat /\ j = i + (j - i) /\ j - i < n
        OBVIOUS
    <3> QED BY <3>1
  <2>2. m \notin T
      BY <1>2, <2>1
  <2> QED BY <2>1, <2>2
<1>4. IsRun(text, i, C, n)
    BY <1>0, <1>1, <1>2, <1>3 DEF IsRun
<1>5. IsRun(text, i, C, CHOOSE k \in 0..(N + 1) : /\ \A j \in i..(i + k - 1) : Has(text, j, C)
                                                  /\ ~Has(text, i + k, C))
    BY <1>4 DEF IsRun
<1> QED BY <1>5 DEF RunOf

(* Short runs, told by looking ahead.                                      *)
LEMMA ShortRuns ==
    ASSUME NEW text \in Text, NEW i \in Nat \ {0}, NEW C
    PROVE  /\ RunOf(text, i, C) \in Nat
           /\ RunOf(text, i, C) = 1 <=> Has(text, i, C) /\ ~Has(text, i + 1, C)
           /\ RunOf(text, i, C) = 2 <=> /\ Has(text, i, C) /\ Has(text, i + 1, C)
                                        /\ ~Has(text, i + 2, C)
<1>1. PICK n : n = RunOf(text, i, C)
    OBVIOUS
<1>2. n \in Nat /\ ~Has(text, i + n, C) /\ \A j \in i..(i + n - 1) : Has(text, j, C)
    BY <1>1, RunIs DEF IsRun, Text
<1>3. n = 0 <=> ~Has(text, i, C)
    BY <1>2
<1>4. n >= 2 <=> Has(text, i, C) /\ Has(text, i + 1, C)
    BY <1>2
<1>5. n >= 3 <=> Has(text, i, C) /\ Has(text, i + 1, C) /\ Has(text, i + 2, C)
    BY <1>2
<1> QED BY <1>1, <1>2, <1>3, <1>4, <1>5
(* Where a run reaches, seen from its start.                               *)
LEMMA RunReach ==
    ASSUME NEW text \in Text, NEW i \in Nat \ {0}, NEW C
    PROVE  /\ RunOf(text, i, C) \in Nat
           /\ \A j \in i..(i + RunOf(text, i, C) - 1) : Has(text, j, C)
           /\ RunOf(text, i, C) > 0 => i + RunOf(text, i, C) <= Len(text) + 1
<1>1. PICK n : n = RunOf(text, i, C)
    OBVIOUS
<1>2. n \in Nat /\ \A j \in i..(i + n - 1) : Has(text, j, C)
    BY <1>1, RunIs DEF IsRun, Text
<1>3. n > 0 => i + n - 1 \in i..(i + n - 1)
    BY <1>2
<1>4. n > 0 => Has(text, i + n - 1, C)
    BY <1>2, <1>3
<1> QED BY <1>1, <1>2, <1>4 DEF Has, Text

(* A number of digits clamped, as [:4] does.                               *)
LEMMA Clamped ==
    ASSUME NEW n \in Nat, NEW m \in Nat
    PROVE  /\ AtMost(n, m) \in Nat /\ AtMost(n, m) <= n /\ AtMost(n, m) <= m
           /\ AtMost(n, m) = n \/ (AtMost(n, m) = m /\ n > m)
BY DEF AtMost

(* The arms of EscapeLength one by one: no two of them overlap.            *)
LEMMA EscapeArms ==
    ASSUME NEW text, NEW i
    PROVE  /\ Has(text, i + 1, {"e"}) => EscapeLength(text, i) =
                LET n == AtMost(RunOf(text, i + 2, Hex), 4) IN IF n \in {2, 4} THEN 2 + n ELSE 0
           /\ Has(text, i + 1, {"u"}) => EscapeLength(text, i) =
                LET n == AtMost(RunOf(text, i + 2, Hex), 5) IN IF n >= 2 THEN 2 + n ELSE 0
           /\ Has(text, i + 1, {"p"}) /\ Has(text, i + 2, {"a"}) => EscapeLength(text, i) =
                IF PaMatch(text, i + 3) = 0 THEN 0 ELSE 3 + PaMatch(text, i + 3)
           /\ Has(text, i + 1, {"p"}) /\ Has(text, i + 2, {"f"}) => EscapeLength(text, i) =
                IF PfMatch(text, i + 3) = 0 THEN 0 ELSE 3 + PfMatch(text, i + 3)
<1>1. /\ Has(text, i + 1, {"e"}) => /\ ~Has(text, i + 1, Simple)
      /\ Has(text, i + 1, {"u"}) => /\ ~Has(text, i + 1, Simple) /\ ~Has(text, i + 1, {"e"})
      /\ Has(text, i + 1, {"p"}) => /\ ~Has(text, i + 1, Simple) /\ ~Has(text, i + 1, {"e"})
                                    /\ ~Has(text, i + 1, {"u"})
      /\ Has(text, i + 2, {"f"}) => ~Has(text, i + 2, {"a"})
    BY DEF Has, Simple
<1> QED BY <1>1 DEF EscapeLength

(* The scan takes an escape exactly if it is well formed; but for an       *)
(* escaped backslash it takes no backslash with it, and never goes beyond  *)
(* the end.                                                                *)
LEMMA EscapeIsWellFormed ==
    ASSUME NEW text \in Text, NEW i \in DOMAIN text, text[i] = "\\"
    PROVE  /\ EscapeLength(text, i) \in Nat
           /\ EscapeLength(text, i) # 0 <=> WellFormed(text, i)
           /\ EscapeLength(text, i) # 0 =>
                /\ EscapeLength(text, i) >= 2 /\ i + EscapeLength(text, i) <= Len(text) + 1
                /\ Has(text, i + 1, {"\\"}) => EscapeLength(text, i) = 2
                /\ ~Has(text, i + 1, {"\\"}) =>
                     \A j \in (i + 1)..(i + EscapeLength(text, i) - 1) : text[j] # "\\"
<1> DEFINE hex    == RunOf(text, i + 2, Hex)
           digits == RunOf(text, i + 3, AnyDigit)
           size   == EscapeLength(text, i)
           Goal   == /\ size \in Nat
                     /\ size # 0 <=> WellFormed(text, i)
                     /\ size # 0 => /\ size >= 2 /\ i + size <= Len(text) + 1
                                    /\ Has(text, i + 1, {"\\"}) => size = 2
                                    /\ ~Has(text, i + 1, {"\\"}) =>
                                         \A j \in (i + 1)..(i + size - 1) : text[j] # "\\"
<1> SUFFICES Goal
    OBVIOUS
<1>0. /\ Len(text) \in Nat /\ i \in Nat \ {0} /\ i <= Len(text)
      /\ i + 2 \in Nat \ {0} /\ i + 3 \in Nat \ {0}
    BY DEF Text
<1>1. /\ hex \in Nat
      /\ \A j \in (i + 2)..(i + 2 + hex - 1) : Has(text, j, Hex)
      /\ hex > 0 => i + 2 + hex <= Len(text) + 1
    BY <1>0, RunReach
<1>2. /\ digits \in Nat
      /\ digits = 1 <=> Has(text, i + 3, AnyDigit) /\ ~Has(text, i + 4, AnyDigit)
      /\ digits = 2 <=> /\ Has(text, i + 3, AnyDigit) /\ Has(text, i + 4, AnyDigit)
                        /\ ~Has(text, i + 5, AnyDigit)
  <2>1. i + 3 + 1 = i + 4 /\ i + 3 + 2 = i + 5
      BY <1>0
  <2> QED BY <1>0, <2>1, ShortRuns
<1>3. /\ size = CASE Has(text, i + 1, Simple) -> 2
                  [] Has(text, i + 1, {"e"}) ->
                       IF AtMost(hex, 4) \in {2, 4} THEN 2 + AtMost(hex, 4) ELSE 0
                  [] Has(text, i + 1, {"u"}) ->
                       IF AtMost(hex, 5) >= 2 THEN 2 + AtMost(hex, 5) ELSE 0
                  [] Has(text, i + 1, {"p"}) /\ Has(text, i + 2, {"a"}) ->
                       IF PaMatch(text, i + 3) = 0 THEN 0 ELSE 3 + PaMatch(text, i + 3)
                  [] Has(text, i + 1, {"p"}) /\ Has(text, i + 2, {"f"}) ->
                       IF PfMatch(text, i + 3) = 0 THEN 0 ELSE 3 + PfMatch(text, i + 3)
                  [] OTHER -> 0
      /\ WellFormed(text, i) <=>
           \/ Has(text, i + 1, Simple)
           \/ Has(text, i + 1, {"e"}) /\ (hex = 2 \/ hex >= 4)
           \/ Has(text, i + 1, {"u"}) /\ hex >= 2
           \/ /\ Has(text, i + 1, {"p"}) /\ Has(text, i + 2, {"a"})
              /\ digits = 1 /\ text[i + 3] \in {"1", "2", "3"}
           \/ /\ Has(text, i + 1, {"p"}) /\ Has(text, i + 2, {"f"})
              /\ \/ digits = 1 /\ text[i + 3] \in {"1", "2", "3", "4", "5"}
                 \/ digits = 2 /\ text[i + 3] = "1"
                 \/ digits = 2 /\ text[i + 3] = "2" /\ text[i + 4] \in {"0", "1", "2", "3", "4"}
    BY DEF EscapeLength, WellFormed
<1> HIDE DEF hex, digits, size
<1>4. CASE Has(text, i + 1, Simple)
    BY <1>0, <1>3, <1>4 DEF Has, Simple
<1>5. CASE Has(text, i + 1, {"e"})
  <2>1. ~Has(text, i + 1, Simple) /\ ~Has(text, i + 1, {"u"}) /\ ~Has(text, i + 1, {"p"})
        /\ ~Has(text, i + 1, {"\\"}) /\ text[i + 1] # "\\"
      BY <1>5 DEF Has, Simple
  <2> DEFINE n == AtMost(hex, 4)
  <2>2. n \in Nat /\ n <= hex /\ n <= 4 /\ (n = hex \/ (n = 4 /\ hex > 4))
      BY <1>1, Clamped
  <2>3. size = (IF n \in {2, 4} THEN 2 + n ELSE 0)
        /\ (WellFormed(text, i) <=> hex = 2 \/ hex >= 4)
      BY <1>3, <1>5, <2>1
  <2> HIDE DEF n
  <2>4. size # 0 <=> WellFormed(text, i)
      BY <1>1, <2>2, <2>3
  <2>5. ASSUME size # 0 PROVE size = 2 + n /\ n >= 2
      BY <2>2, <2>3, <2>5
  <2>6. ASSUME size # 0, NEW j \in (i + 1)..(i + size - 1) PROVE text[j] # "\\"
    <3>0. size = 2 + n /\ n \in Nat /\ hex \in Nat /\ n <= hex /\ i \in Nat
        BY <1>0, <1>1, <2>2, <2>5, <2>6
    <3>1. j = i + 1 \/ j \in (i + 2)..(i + 2 + hex - 1)
        BY <3>0
    <3> QED BY <1>1, <2>1, <3>1 DEF Has, Hex, Decimal
  <2> QED BY <1>0, <1>1, <2>1, <2>2, <2>3, <2>4, <2>5, <2>6
<1>6. CASE Has(text, i + 1, {"u"})
  <2>1. ~Has(text, i + 1, Simple) /\ ~Has(text, i + 1, {"e"}) /\ ~Has(text, i + 1, {"p"})
        /\ ~Has(text, i + 1, {"\\"}) /\ text[i + 1] # "\\"
      BY <1>6 DEF Has, Simple
  <2> DEFINE n == AtMost(hex, 5)
  <2>2. n \in Nat /\ n <= hex /\ n <= 5 /\ (n = hex \/ (n = 5 /\ hex > 5))
      BY <1>1, Clamped
  <2>3. size = (IF n >= 2 THEN 2 + n ELSE 0) /\ (WellFormed(text, i) <=> hex >= 2)
      BY <1>3, <1>6, <2>1
  <2> HIDE DEF n
  <2>4. size # 0 <=> WellFormed(text, i)
      BY <1>1, <2>2, <2>3
  <2>5. ASSUME size # 0 PROVE size = 2 + n /\ n >= 2
      BY <2>2, <2>3, <2>5
  <2>6. ASSUME size # 0, NEW j \in (i + 1)..(i + size - 1) PROVE text[j] # "\\"
    <3>0. size = 2 + n /\ n \in Nat /\ hex \in Nat /\ n <= hex /\ i \in Nat
        BY <1>0, <1>1, <2>2, <2>5, <2>6
    <3>1. j = i + 1 \/ j \in (i + 2)..(i + 2 + hex - 1)
        BY <3>0
    <3> QED BY <1>1, <2>1, <3>1 DEF Has, Hex, Decimal
  <2> QED BY <1>0, <1>1, <2>1, <2>2, <2>3, <2>4, <2>5, <2>6
<1>7. CASE Has(text, i + 1, {"p"}) /\ Has(text, i + 2, {"a"})
  <2>1. ~Has(text, i + 1, Simple) /\ ~Has(text, i + 1, {"e"}) /\ ~Has(text, i + 1, {"u"})
        /\ ~Has(text, i + 2, {"f"}) /\ ~Has(text, i + 1, {"\\"})
        /\ text[i + 1] # "\\" /\ text[i + 2] # "\\"
      BY <1>7 DEF Has, Simple
  <2>2. /\ size = IF PaMatch(text, i + 3) = 0 THEN 0 ELSE 3 + PaMatch(text, i + 3)
        /\ WellFormed(text, i) <=> digits = 1 /\ text[i + 3] \in {"1", "2", "3"}
      BY <1>3, <1>7, <2>1
  <2>3. PaMatch(text, i + 3) = IF WellFormed(text, i) THEN 1 ELSE 0
    <3>1. i + 3 + 1 = i + 4
        BY <1>0
    <3> QED BY <1>2, <2>2, <3>1 DEF PaMatch, Has, AnyDigit, Decimal
  <2>4. size = IF WellFormed(text, i) THEN 4 ELSE 0
      BY <2>2, <2>3
  <2>5. ASSUME WellFormed(text, i) PROVE Has(text, i + 3, AnyDigit) /\ text[i + 3] # "\\"
      BY <1>2, <2>2, <2>5
  <2>6. ASSUME WellFormed(text, i), NEW j \in (i + 1)..(i + 3) PROVE text[j] # "\\"
    <3>1. j = i + 1 \/ j = i + 2 \/ j = i + 3
        BY <1>0
    <3> QED BY <2>1, <2>5, <2>6, <3>1
  <2> QED BY <1>0, <2>1, <2>4, <2>5, <2>6 DEF Has
<1>8. CASE Has(text, i + 1, {"p"}) /\ Has(text, i + 2, {"f"})
  <2>1. ~Has(text, i + 1, Simple) /\ ~Has(text, i + 1, {"e"}) /\ ~Has(text, i + 1, {"u"})
        /\ ~Has(text, i + 2, {"a"}) /\ ~Has(text, i + 1, {"\\"})
        /\ text[i + 1] # "\\" /\ text[i + 2] # "\\"
      BY <1>8 DEF Has, Simple
  <2> DEFINE one == digits = 1 /\ text[i + 3] \in {"1", "2", "3", "4", "5"}
             two == \/ digits = 2 /\ text[i + 3] = "1"
                    \/ digits = 2 /\ text[i + 3] = "2" /\ text[i + 4] \in {"0", "1", "2", "3", "4"}
  <2>2. /\ size = IF PfMatch(text, i + 3) = 0 THEN 0 ELSE 3 + PfMatch(text, i + 3)
        /\ WellFormed(text, i) <=> one \/ two
      BY <1>3, <1>8, <2>1
  <2>3. PfMatch(text, i + 3) = IF two THEN 2 ELSE IF one THEN 1 ELSE 0
    <3>1. i + 3 + 1 = i + 4 /\ i + 3 + 2 = i + 5
        BY <1>0
    <3>2. two <=> /\ \/ Has(text, i + 3, {"1"}) /\ Has(text, i + 4, AnyDigit)
                     \/ Has(text, i + 3, {"2"}) /\ Has(text, i + 4, Decimal \ {"5"})
                  /\ ~Has(text, i + 5, AnyDigit)
        BY <1>2 DEF Has, AnyDigit, Decimal
    <3>3. one <=> Has(text, i + 3, Decimal \ {"0"}) /\ ~Has(text, i + 4, AnyDigit)
        BY <1>2 DEF Has, AnyDigit, Decimal
    <3> HIDE DEF one, two
    <3> QED BY <3>1, <3>2, <3>3 DEF PfMatch
  <2>4. size = IF two THEN 5 ELSE IF one THEN 4 ELSE 0
    <3> HIDE DEF one, two
    <3> QED BY <2>2, <2>3
  <2>5. /\ one => Has(text, i + 3, AnyDigit)
        /\ two => Has(text, i + 3, AnyDigit) /\ Has(text, i + 4, AnyDigit)
      BY <1>2
  <2> HIDE DEF one, two
  <2>6. ASSUME size # 0, NEW j \in (i + 1)..(i + size - 1) PROVE text[j] # "\\"
    <3>1. j = i + 1 \/ j = i + 2 \/ j = i + 3 \/ (two /\ j = i + 4)
        BY <1>0, <2>4, <2>6
    <3> QED BY <2>1, <2>4, <2>5, <2>6, <3>1 DEF Has, AnyDigit, Decimal
  <2> QED BY <1>0, <2>1, <2>2, <2>4, <2>5, <2>6 DEF Has
<1>9. CASE /\ ~Has(text, i + 1, Simple) /\ ~Has(text, i + 1, {"e"}) /\ ~Has(text, i + 1, {"u"})
           /\ ~(Has(text, i + 1, {"p"}) /\ Has(text, i + 2, {"a"}))
           /\ ~(Has(text, i + 1, {"p"}) /\ Has(text, i + 2, {"f"}))
    BY <1>3, <1>9
<1> QED BY <1>4, <1>5, <1>6, <1>7, <1>8, <1>9
(* What the scan answers from each position of the text on.                *)
IsScan(f, text, from) ==
    f = [i \in from..(Len(text) + 1) |->
            IF i > Len(text) THEN 0
            ELSE IF text[i] # "\\" THEN f[i + 1]
            ELSE IF EscapeLength(text, i) = 0 THEN i
            ELSE f[i + EscapeLength(text, i)]]

LEMMA ScanExists ==
    ASSUME NEW text \in Text
    PROVE  \E f : IsScan(f, text, 1)
<1> DEFINE N == Len(text)
           Missing == {m \in Nat : m <= N /\ ~ \E f : IsScan(f, text, N + 1 - m)}
<1>0. N \in Nat /\ DOMAIN text = 1..N
    BY DEF Text
<1>1. ASSUME NEW m \in Missing, \A k \in Missing : m <= k PROVE FALSE
  <2>0. m \in Nat /\ m <= N
      OBVIOUS
  <2>1. CASE m = 0
    <3> DEFINE f == [i \in (N + 1)..(N + 1) |-> 0]
    <3>1. IsScan(f, text, N + 1)
        BY <1>0 DEF IsScan
    <3>2. N + 1 - m = N + 1
        BY <1>0, <2>1
    <3> HIDE DEF f, N
    <3> QED BY <3>1, <3>2
  <2>2. CASE m # 0
    <3>1. m - 1 \in Nat /\ m \in Nat /\ m - 1 \notin Missing /\ m - 1 <= N
      <4>1. m \in Nat /\ m - 1 \in Nat /\ m - 1 <= N /\ ~(m <= m - 1)
          BY <1>0, <2>2
      <4> HIDE DEF Missing
      <4> QED BY <1>1, <4>1
    <3> DEFINE k == N + 1 - m
    <3>2. PICK f : IsScan(f, text, k + 1)
      <4>1. \E f : IsScan(f, text, N + 1 - (m - 1))
          BY <3>1
      <4>2. N + 1 - (m - 1) = k + 1
          BY <1>0, <2>0
      <4> HIDE DEF k, N
      <4> QED BY <4>1, <4>2
    <3>3. k \in 1..N /\ ~ \E g : IsScan(g, text, k)
        BY <1>0, <2>0, <2>2
    <3> HIDE DEF k, N
    <3> DEFINE Body(h, i) == IF i > Len(text) THEN 0
                             ELSE IF text[i] # "\\" THEN h[i + 1]
                             ELSE IF EscapeLength(text, i) = 0 THEN i
                             ELSE h[i + EscapeLength(text, i)]
               g == [i \in k..(Len(text) + 1) |-> Body(f, i)]
    <3>4. ASSUME NEW i \in (k + 1)..(Len(text) + 1) PROVE g[i] = f[i]
      <4>1. f[i] = Body(f, i) /\ i \in k..(Len(text) + 1)
          BY <1>0, <3>2, <3>3 DEF IsScan, N
      <4> HIDE DEF Body
      <4> QED BY <4>1
    <3>5. ASSUME NEW i \in k..(Len(text) + 1) PROVE Body(g, i) = Body(f, i)
      <4>1. CASE i > Len(text)
          BY <4>1
      <4>2. CASE i <= Len(text) /\ text[i] # "\\"
        <5>1. i + 1 \in (k + 1)..(Len(text) + 1)
            BY <1>0, <3>3, <4>2 DEF N
        <5>2. ~(i > Len(text))
            BY <1>0, <3>3, <4>2 DEF N
        <5> HIDE DEF g
        <5>3. g[i + 1] = f[i + 1]
            BY <3>4, <5>1
        <5> QED BY <4>2, <5>2, <5>3
      <4>3. CASE i <= Len(text) /\ text[i] = "\\"
        <5> DEFINE size == EscapeLength(text, i)
        <5>1. i \in DOMAIN text
            BY <1>0, <3>3, <4>3 DEF N
        <5>2. size \in Nat /\ (size # 0 => size >= 2 /\ i + size <= Len(text) + 1)
            BY <4>3, <5>1, EscapeIsWellFormed
        <5>3. size # 0 => i + size \in (k + 1)..(Len(text) + 1)
            BY <1>0, <3>3, <5>1, <5>2 DEF N
        <5>4. ~(i > Len(text))
            BY <1>0, <3>3, <4>3 DEF N
        <5> HIDE DEF g
        <5>5. size # 0 => g[i + size] = f[i + size]
          <6> HIDE DEF size
          <6> QED BY <3>4, <5>3
        <5> QED BY <4>3, <5>4, <5>5
      <4> QED BY <1>0, <3>3, <4>1, <4>2, <4>3 DEF N
    <3>6. g = [i \in k..(Len(text) + 1) |-> Body(g, i)]
      <4>1. \A i \in k..(Len(text) + 1) : g[i] = Body(g, i)
        <5>1. \A i \in k..(Len(text) + 1) : g[i] = Body(f, i)
            OBVIOUS
        <5> HIDE DEF g, Body
        <5> QED BY <3>5, <5>1
      <4>2. g = [i \in k..(Len(text) + 1) |-> g[i]]
          OBVIOUS
      <4> HIDE DEF g, Body
      <4> QED BY <4>1, <4>2
    <3> HIDE DEF g
    <3> QED BY <3>3, <3>6 DEF IsScan
  <2> QED BY <2>1, <2>2
<1>2. Missing = {}
  <2>1. Missing \in SUBSET Nat
      OBVIOUS
  <2> HIDE DEF Missing
  <2> QED BY <1>1, <2>1, Least
<1>3. N \notin Missing /\ N + 1 - N = 1
    BY <1>0, <1>2
<1> HIDE DEF N
<1> QED BY <1>0, <1>3

(* A position after an even number of backslashes: the scan comes to it.   *)
InStep(text, i) ==
    \E n \in 0..(i - 1) :
        /\ n % 2 = 0
        /\ \A j \in (i - n)..(i - 1) : text[j] = "\\"
        /\ ~(i - n > 1 /\ text[i - n - 1] = "\\")

LEMMA StepFromStart == ASSUME NEW text PROVE InStep(text, 1)
<1>1. 0 \in 0..(1 - 1) /\ 0 % 2 = 0 /\ \A j \in (1 - 0)..(1 - 1) : text[j] = "\\"
    OBVIOUS
<1> QED BY <1>1 DEF InStep

LEMMA StepAfterOther ==
    ASSUME NEW text, NEW i \in Nat \ {0, 1}, text[i - 1] # "\\"
    PROVE  InStep(text, i)
<1>1. 0 \in 0..(i - 1) /\ 0 % 2 = 0 /\ (\A j \in (i - 0)..(i - 1) : text[j] = "\\")
      /\ i - 0 - 1 = i - 1
    OBVIOUS
<1> QED BY <1>1 DEF InStep

LEMMA StepAfterPair ==
    ASSUME NEW text, NEW i \in Nat \ {0}, InStep(text, i), text[i] = "\\", text[i + 1] = "\\"
    PROVE  InStep(text, i + 2) /\ ~InStep(text, i + 1)
<1>1. PICK n \in 0..(i - 1) : /\ n % 2 = 0
                              /\ \A j \in (i - n)..(i - 1) : text[j] = "\\"
                              /\ ~(i - n > 1 /\ text[i - n - 1] = "\\")
    BY DEF InStep
<1>2. InStep(text, i + 2)
  <2>1. PICK q : q = n + 2
      OBVIOUS
  <2>2. q \in 0..(i + 2 - 1) /\ q % 2 = 0 /\ i + 2 - q = i - n /\ i + 2 - q - 1 = i - n - 1
      BY <1>1, <2>1
  <2>3. ASSUME NEW j \in (i + 2 - q)..(i + 2 - 1) PROVE text[j] = "\\"
    <3>1. j \in (i - n)..(i - 1) \/ j = i \/ j = i + 1
        BY <2>2
    <3> QED BY <1>1, <3>1
  <2>4. ~(i + 2 - q > 1 /\ text[i + 2 - q - 1] = "\\")
      BY <1>1, <2>2
  <2> QED BY <2>2, <2>3, <2>4 DEF InStep
<1>3. ASSUME NEW m \in 0..(i + 1 - 1), m % 2 = 0,
             \A j \in (i + 1 - m)..(i + 1 - 1) : text[j] = "\\",
             ~(i + 1 - m > 1 /\ text[i + 1 - m - 1] = "\\")
      PROVE  FALSE
  <2>1. m # 0
      BY <1>3
  <2>2. ~(m > n + 1)
    <3>1. ASSUME m > n + 1 PROVE FALSE
      <4>1. i - n - 1 \in (i + 1 - m)..(i + 1 - 1) /\ i - n > 1
          BY <3>1
      <4> QED BY <1>1, <1>3, <4>1
    <3> QED BY <3>1
  <2>3. ~(m < n + 1)
    <3>1. ASSUME m < n + 1 PROVE FALSE
      <4>1. i + 1 - m - 1 \in (i - n)..(i - 1) /\ i + 1 - m > 1
          BY <2>1, <3>1
      <4> QED BY <1>1, <1>3, <4>1
    <3> QED BY <3>1
  <2>4. m = n + 1
      BY <2>2, <2>3
  <2> QED BY <1>1, <1>3, <2>4
<1> QED BY <1>2, <1>3 DEF InStep
Wrong(text) == {i \in Starts(text) : ~WellFormed(text, i)}

(* The answer from a position on: the first escape from there that is not  *)
(* well formed, 0 if there is none.                                        *)
IsFirstWrong(text, from, v) ==
    \/ v = 0 /\ \A w \in Wrong(text) : w < from
    \/ v \in Wrong(text) /\ v >= from /\ \A w \in Wrong(text) : w < from \/ v <= w

LEMMA StartsAreInStep ==
    ASSUME NEW text \in Text, NEW i \in DOMAIN text
    PROVE  i \in Starts(text) <=> text[i] = "\\" /\ InStep(text, i)
BY DEF Starts, InStep

(* What the scan passes over holds no other escape, and it ends up in step *)
(* behind it.                                                              *)
LEMMA ScanStaysInStep ==
    ASSUME NEW text \in Text, NEW i \in DOMAIN text, InStep(text, i), text[i] = "\\",
           EscapeLength(text, i) # 0
    PROVE  /\ InStep(text, i + EscapeLength(text, i))
           /\ \A j \in (i + 1)..(i + EscapeLength(text, i) - 1) : j \notin Starts(text)
<1> DEFINE size == EscapeLength(text, i)
<1>1. /\ size \in Nat /\ size >= 2 /\ i + size <= Len(text) + 1
      /\ Has(text, i + 1, {"\\"}) => size = 2
      /\ ~Has(text, i + 1, {"\\"}) => \A j \in (i + 1)..(i + size - 1) : text[j] # "\\"
    BY EscapeIsWellFormed
<1>2. Len(text) \in Nat /\ DOMAIN text = 1..Len(text) /\ i \in Nat \ {0}
    BY DEF Text
<1> HIDE DEF size
<1>3. CASE Has(text, i + 1, {"\\"})
  <2>1. text[i + 1] = "\\" /\ i + 1 \in DOMAIN text
      BY <1>2, <1>3 DEF Has
  <2>2. InStep(text, i + 2) /\ ~InStep(text, i + 1)
      BY <1>2, <2>1, StepAfterPair
  <2>3. i + 1 \notin Starts(text)
      BY <2>1, <2>2, StartsAreInStep
  <2>4. size = 2 /\ \A j \in (i + 1)..(i + size - 1) : j = i + 1
      BY <1>1, <1>2, <1>3
  <2> QED BY <2>2, <2>3, <2>4 DEF size
<1>4. CASE ~Has(text, i + 1, {"\\"})
  <2>1. \A j \in (i + 1)..(i + size - 1) : text[j] # "\\"
      BY <1>1, <1>4
  <2>2. \A j \in (i + 1)..(i + size - 1) : j \in DOMAIN text
      BY <1>1, <1>2
  <2>3. i + size - 1 \in (i + 1)..(i + size - 1) /\ i + size \in Nat \ {0, 1}
      BY <1>1, <1>2
  <2>4. InStep(text, i + size)
    <3>1. PICK m : m = i + size
        OBVIOUS
    <3>2. m \in Nat \ {0, 1} /\ m - 1 \in (i + 1)..(i + size - 1)
        BY <1>1, <1>2, <2>3, <3>1
    <3>3. text[m - 1] # "\\"
        BY <2>1, <3>2
    <3> QED BY <3>1, <3>2, <3>3, StepAfterOther
  <2>5. \A j \in (i + 1)..(i + size - 1) : j \notin Starts(text)
      BY <2>1, <2>2, StartsAreInStep
  <2> QED BY <2>4, <2>5 DEF size
<1> QED BY <1>3, <1>4

LEMMA ScanFindsFirst ==
    ASSUME NEW text \in Text, NEW f, IsScan(f, text, 1),
           NEW i \in 1..(Len(text) + 1), InStep(text, i)
    PROVE  IsFirstWrong(text, i, f[i])
<1> DEFINE N == Len(text) + 1
           Bad == {k \in Nat : k < N /\ InStep(text, N - k) /\ ~IsFirstWrong(text, N - k, f[N - k])}
<1>0. Len(text) \in Nat /\ DOMAIN text = 1..Len(text) /\ N \in Nat /\ N = Len(text) + 1
    BY DEF Text
<1>1. Starts(text) \subseteq DOMAIN text /\ Wrong(text) \subseteq Starts(text)
    BY DEF Starts, Wrong
<1>2. ASSUME NEW k \in Bad, \A j \in Bad : k <= j PROVE FALSE
  <2>1. PICK p : p = N - k
      OBVIOUS
  <2>2. p \in 1..N /\ InStep(text, p) /\ ~IsFirstWrong(text, p, f[p]) /\ k \in Nat /\ k = N - p
      BY <1>0, <2>1
  <2>3. ASSUME NEW q \in (p + 1)..N, InStep(text, q) PROVE IsFirstWrong(text, q, f[q])
    <3>1. PICK m : m = N - q
        OBVIOUS
    <3>2. m \in Nat /\ m < N /\ N - m = q /\ ~(k <= m)
        BY <1>0, <2>2, <2>3, <3>1
    <3>3. m \notin Bad
      <4> HIDE DEF Bad
      <4> QED BY <1>2, <3>2
    <3> HIDE DEF N
    <3> QED BY <2>3, <3>2, <3>3
  <2>4. f[p] = IF p > Len(text) THEN 0
               ELSE IF text[p] # "\\" THEN f[p + 1]
               ELSE IF EscapeLength(text, p) = 0 THEN p
               ELSE f[p + EscapeLength(text, p)]
      BY <1>0, <2>2 DEF IsScan
  <2> HIDE DEF N, Bad
  <2>5. CASE p > Len(text)
    <3>1. f[p] = 0 /\ \A w \in Wrong(text) : w < p
        BY <1>0, <1>1, <2>2, <2>4, <2>5
    <3> QED BY <2>2, <3>1 DEF IsFirstWrong
  <2>6. CASE p <= Len(text) /\ text[p] # "\\"
    <3>1. f[p] = f[p + 1] /\ p + 1 \in (p + 1)..N /\ p \in DOMAIN text /\ p \in Nat
          /\ p + 1 \in Nat \ {0, 1} /\ p + 1 - 1 = p
        BY <1>0, <2>2, <2>4, <2>6
    <3>2. InStep(text, p + 1)
        BY <2>6, <3>1, StepAfterOther
    <3>3. IsFirstWrong(text, p + 1, f[p])
        BY <2>3, <3>1, <3>2
    <3>4. p \notin Wrong(text)
        BY <1>1, <2>6, <3>1, StartsAreInStep
    <3>5. \A w \in Wrong(text) : w \in Nat /\ (w < p + 1 => w < p)
        BY <1>0, <1>1, <3>1, <3>4
    <3>6. f[p] \in Wrong(text) /\ f[p] >= p + 1 => f[p] >= p
        BY <3>1, <3>5
    <3> QED BY <2>2, <3>3, <3>5, <3>6 DEF IsFirstWrong
  <2>7. CASE p <= Len(text) /\ text[p] = "\\"
    <3> DEFINE size == EscapeLength(text, p)
    <3>1. p \in DOMAIN text /\ p \in Nat
        BY <1>0, <2>2, <2>7
    <3>2. /\ size \in Nat /\ (size # 0 <=> WellFormed(text, p))
          /\ size # 0 => size >= 2 /\ p + size <= Len(text) + 1
        BY <2>7, <3>1, EscapeIsWellFormed
    <3>3. p \in Starts(text)
        BY <2>2, <2>7, <3>1, StartsAreInStep
    <3>4. CASE size = 0
      <4>1. f[p] = p
          BY <1>0, <2>2, <2>4, <2>7, <3>4
      <4>2. p \in Wrong(text)
          BY <3>2, <3>3, <3>4 DEF Wrong
      <4>3. \A w \in Wrong(text) : w < p \/ p <= w
          BY <1>0, <1>1, <3>1
      <4> QED BY <2>2, <3>1, <4>1, <4>2, <4>3 DEF IsFirstWrong
    <3>5. CASE size # 0
      <4>1. f[p] = f[p + size]
          BY <1>0, <2>2, <2>4, <2>7, <3>5
      <4>2. InStep(text, p + size) /\ \A j \in (p + 1)..(p + size - 1) : j \notin Starts(text)
          BY <2>2, <2>7, <3>1, <3>5, ScanStaysInStep
      <4>3. p + size \in (p + 1)..N /\ p + size \in Nat
          BY <1>0, <3>1, <3>2, <3>5
      <4> HIDE DEF size
      <4>4. IsFirstWrong(text, p + size, f[p])
          BY <2>3, <4>1, <4>2, <4>3
      <4>5. p \notin Wrong(text)
          BY <3>2, <3>5 DEF Wrong
      <4>6. ASSUME NEW w \in Wrong(text), w < p + size PROVE w < p
        <5>1. w \in Nat /\ w # p /\ w \notin (p + 1)..(p + size - 1)
            BY <1>0, <1>1, <4>2, <4>5
        <5> QED BY <3>1, <3>2, <4>6, <5>1
      <4>7. f[p] \in Wrong(text) /\ f[p] >= p + size => f[p] >= p
          BY <1>0, <1>1, <3>1, <3>2
      <4> QED BY <2>2, <4>4, <4>6, <4>7 DEF IsFirstWrong
    <3> QED BY <3>4, <3>5
  <2> QED BY <1>0, <2>2, <2>5, <2>6, <2>7
<1>3. Bad = {}
  <2>1. Bad \in SUBSET Nat
      OBVIOUS
  <2> HIDE DEF Bad
  <2> QED BY <1>2, <2>1, Least
<1>4. N - i \in Nat /\ N - i < N /\ N - (N - i) = i
    BY <1>0
<1>5. N - i \notin Bad
    BY <1>3
<1> HIDE DEF N
<1> QED BY <1>4, <1>5

LEMMA VerdictIsFirstWrong ==
    ASSUME NEW text \in Text
    PROVE  IsFirstWrong(text, 1, Verdict(text))
<1> DEFINE scan == CHOOSE f : IsScan(f, text, 1)
<1>1. IsScan(scan, text, 1)
    BY ScanExists
<1>2. Verdict(text) = scan[1]
    BY DEF Verdict, IsScan
<1> HIDE DEF scan
<1>3. 1 \in 1..(Len(text) + 1)
    BY DEF Text
<1> QED BY <1>1, <1>2, <1>3, StepFromStart, ScanFindsFirst

ValidateCall == input.text \in Text

(* validate_escape_sequences() raises at the first escape that is not well *)
(* formed, for texts of every length.                                      *)
THEOREM VerdictOfEveryText == ValidateCall => VerdictByPositions
<1> DEFINE text  == input.text
           wrong == {i \in Starts(text) : ~WellFormed(text, i)}
<1> SUFFICES ASSUME ValidateCall
             PROVE  Verdict(text) = IF wrong = {} THEN 0
                                    ELSE CHOOSE i \in wrong : \A j \in wrong : i <= j
    BY DEF VerdictByPositions
<1>1. text \in Text
    BY DEF ValidateCall
<1>2. IsFirstWrong(text, 1, Verdict(text)) /\ wrong = Wrong(text)
    BY <1>1, VerdictIsFirstWrong DEF Wrong
<1>3. \A i \in wrong : i \in Nat /\ ~(i < 1)
    BY <1>1 DEF Starts, Text
<1> HIDE DEF wrong, text
<1>4. CASE wrong = {}
    BY <1>2, <1>4 DEF IsFirstWrong
<1>5. CASE wrong # {}
  <2>1. Verdict(text) \in wrong /\ \A w \in wrong : Verdict(text) <= w
      BY <1>2, <1>3, <1>5 DEF IsFirstWrong
  <2>2. \A i \in wrong : (\A j \in wrong : i <= j) => i = Verdict(text)
    <3>1. ASSUME NEW i \in wrong, \A j \in wrong : i <= j PROVE i = Verdict(text)
      <4>1. i <= Verdict(text) /\ Verdict(text) <= i /\ i \in Nat /\ Verdict(text) \in Nat
          BY <1>3, <2>1, <3>1
      <4> QED BY <4>1
    <3> QED BY <3>1
  <2>3. Verdict(text) = CHOOSE i \in wrong : \A j \in wrong : i <= j
      BY <2>1, <2>2
  <2> QED BY <1>5, <2>3
<1> QED BY <1>4, <1>5
(* w agrees with the text as far as a cut, and is blank behind it.         *)
IsCut(w, text, kept) ==
    /\ kept \in 0..Len(text) /\ w \in Text /\ Len(w) >= kept
    /\ \A i \in 1..kept : w[i] = text[i]
    /\ \A i \in (kept + 1)..Len(w) : w[i] = Blank

LEMMA WrittenIsCut ==
    ASSUME NEW text \in Text, NEW length \in Int
    PROVE  IsCut(Written(text, length), text, Len(Slice(text, 0, length)))
<1> DEFINE cut  == Slice(text, 0, length)
           kept == Len(cut)
           w    == Written(text, length)
<1> SUFFICES /\ kept \in 0..Len(text) /\ w \in Text /\ Len(w) >= kept
             /\ \A i \in 1..kept : w[i] = text[i]
             /\ \A i \in (kept + 1)..Len(w) : w[i] = Blank
    BY DEF IsCut
<1>1. Len(text) \in Nat
    BY DEF Text
<1>2. PICK n \in 0..Len(text) : n = Clip(length, Len(text))
    BY <1>1 DEF Clip
<1>3. Clip(0, Len(text)) = 0
    BY <1>1 DEF Clip
<1>4. cut = SubSeq(text, 1, n)
    BY <1>2, <1>3 DEF Slice
<1>5. cut \in Seq(EscapeCharacters) /\ kept = n /\ \A i \in 1..n : cut[i] = text[i]
  <2>1. /\ SubSeq(text, 1, n) \in Seq(EscapeCharacters)
        /\ Len(SubSeq(text, 1, n)) = IF 1 <= n THEN n - 1 + 1 ELSE 0
        /\ \A i \in 1..(n - 1 + 1) : SubSeq(text, 1, n)[i] = text[1 + i - 1]
      BY <1>1, SubSeqProperties DEF Text
  <2>2. Len(cut) = n
      BY <1>1, <1>4, <2>1
  <2>3. ASSUME NEW i \in 1..n PROVE cut[i] = text[i]
    <3>1. i \in 1..(n - 1 + 1) /\ 1 + i - 1 = i
        OBVIOUS
    <3> HIDE DEF cut
    <3> QED BY <1>4, <2>1, <3>1
  <2>4. cut \in Seq(EscapeCharacters)
      BY <1>4, <2>1
  <2> QED BY <2>2, <2>3, <2>4
<1>6. w = IF length <= kept THEN cut ELSE cut \o [i \in 1..(length - kept) |-> Blank]
    BY DEF Written
<1> HIDE DEF cut, w
<1>7. CASE length <= kept
  <2>1. w = cut
      BY <1>6, <1>7
  <2> QED BY <1>1, <1>5, <2>1 DEF Text
<1>8. CASE ~(length <= kept)
  <2>1. PICK m \in Nat : m = length - kept
      BY <1>1, <1>5, <1>8
  <2> DEFINE fill == [i \in 1..m |-> Blank]
  <2>2. fill \in Seq(EscapeCharacters) /\ Len(fill) = m /\ \A i \in 1..m : fill[i] = Blank
    <3>1. Blank \in EscapeCharacters
        BY DEF EscapeCharacters
    <3>2. fill \in [1..m -> EscapeCharacters]
        BY <3>1
    <3>3. fill \in Seq(EscapeCharacters) /\ DOMAIN fill = 1..m
      <4> HIDE DEF fill
      <4> QED BY <2>1, <3>2
    <3> QED BY <2>1, <3>3
  <2>3. w = cut \o fill
      BY <1>6, <1>8, <2>1
  <2> HIDE DEF fill
  <2>4. /\ w \in Seq(EscapeCharacters) /\ Len(w) = n + m
        /\ \A i \in 1..Len(w) : w[i] = IF i <= n THEN cut[i] ELSE fill[i - n]
      BY <1>5, <2>1, <2>2, <2>3
  <2>5. \A i \in (n + 1)..Len(w) : i - n \in 1..m /\ ~(i <= n) /\ i \in 1..Len(w)
      BY <2>1, <2>4
  <2>6. \A i \in 1..n : i <= n /\ i \in 1..Len(w)
      BY <2>1, <2>4
  <2>7. \A i \in (n + 1)..Len(w) : w[i] = Blank
      BY <2>2, <2>4, <2>5
  <2>8. \A i \in 1..n : w[i] = text[i]
      BY <1>5, <2>4, <2>6
  <2>9. Len(w) >= n
      BY <2>1, <2>4
  <2> HIDE DEF kept
  <2> QED BY <1>5, <2>4, <2>7, <2>8, <2>9 DEF Text
<1> QED BY <1>7, <1>8

(* A class of characters without the blank is found in what write() types  *)
(* exactly where the text has it, as far as the cut.                       *)
LEMMA HasKept ==
    ASSUME NEW text \in Text, NEW w, NEW kept, IsCut(w, text, kept), NEW C, Blank \notin C,
           NEW i \in Nat \ {0}
    PROVE  Has(w, i, C) <=> i <= kept /\ Has(text, i, C)
<1>0. Len(text) \in Nat /\ Len(w) \in Nat /\ kept \in 0..Len(text) /\ kept <= Len(w)
    BY DEF IsCut, Text
<1>1. CASE i <= kept
  <2>1. w[i] = text[i] /\ i <= Len(w) /\ i <= Len(text)
      BY <1>0, <1>1 DEF IsCut
  <2> QED BY <1>1, <2>1 DEF Has
<1>2. CASE i > kept
  <2>1. i <= Len(w) => w[i] = Blank
      BY <1>0, <1>2 DEF IsCut
  <2> QED BY <1>0, <1>2, <2>1 DEF Has
<1> QED BY <1>0, <1>1, <1>2

(* A well-formed escape that the cut leaves whole stays one.               *)
LEMMA WholeEscapeStays ==
    ASSUME NEW text \in Text, NEW w \in Text, NEW kept \in Nat, IsCut(w, text, kept),
           NEW i \in Nat, i \in DOMAIN text, text[i] = "\\", WellFormed(text, i),
           i + EscapeLength(text, i) - 1 <= kept
    PROVE  WellFormed(w, i)
<1> DEFINE size    == EscapeLength(text, i)
           hex     == RunOf(text, i + 2, Hex)
           digits  == RunOf(text, i + 3, AnyDigit)
           hexW    == RunOf(w, i + 2, Hex)
           digitsW == RunOf(w, i + 3, AnyDigit)
<1>0. /\ Len(text) \in Nat /\ Len(w) \in Nat /\ i \in Nat \ {0} /\ i <= Len(text)
      /\ i + 1 \in Nat \ {0} /\ i + 2 \in Nat \ {0} /\ i + 3 \in Nat \ {0}
      /\ i + 4 \in Nat \ {0} /\ i + 5 \in Nat \ {0}
      /\ w \in Text /\ kept \in Nat /\ i + size - 1 <= kept
    BY DEF Text, IsCut
<1>1. \A C : Blank \notin C =>
        \A j \in Nat \ {0} : Has(w, j, C) <=> j <= kept /\ Has(text, j, C)
    BY <1>0, HasKept
<1>2. Blank \notin Hex /\ Blank \notin AnyDigit /\ Blank \notin Simple
      /\ Blank \notin {"e"} /\ Blank \notin {"u"} /\ Blank \notin {"p"}
      /\ Blank \notin {"a"} /\ Blank \notin {"f"}
    BY DEF Blank, Hex, AnyDigit, Decimal, Simple
<1>3. size \in Nat /\ size >= 2
    BY EscapeIsWellFormed
<1>4. /\ WellFormed(w, i) <=>
           \/ Has(w, i + 1, Simple)
           \/ Has(w, i + 1, {"e"}) /\ (hexW = 2 \/ hexW >= 4)
           \/ Has(w, i + 1, {"u"}) /\ hexW >= 2
           \/ /\ Has(w, i + 1, {"p"}) /\ Has(w, i + 2, {"a"})
              /\ digitsW = 1 /\ w[i + 3] \in {"1", "2", "3"}
           \/ /\ Has(w, i + 1, {"p"}) /\ Has(w, i + 2, {"f"})
              /\ \/ digitsW = 1 /\ w[i + 3] \in {"1", "2", "3", "4", "5"}
                 \/ digitsW = 2 /\ w[i + 3] = "1"
                 \/ digitsW = 2 /\ w[i + 3] = "2" /\ w[i + 4] \in {"0", "1", "2", "3", "4"}
      /\ \/ Has(text, i + 1, Simple)
         \/ Has(text, i + 1, {"e"}) /\ (hex = 2 \/ hex >= 4)
         \/ Has(text, i + 1, {"u"}) /\ hex >= 2
         \/ /\ Has(text, i + 1, {"p"}) /\ Has(text, i + 2, {"a"})
            /\ digits = 1 /\ text[i + 3] \in {"1", "2", "3"}
         \/ /\ Has(text, i + 1, {"p"}) /\ Has(text, i + 2, {"f"})
            /\ \/ digits = 1 /\ text[i + 3] \in {"1", "2", "3", "4", "5"}
               \/ digits = 2 /\ text[i + 3] = "1"
               \/ digits = 2 /\ text[i + 3] = "2" /\ text[i + 4] \in {"0", "1", "2", "3", "4"}
    BY DEF WellFormed
<1>5. /\ Has(text, i + 1, {"e"}) =>
           size = IF AtMost(hex, 4) \in {2, 4} THEN 2 + AtMost(hex, 4) ELSE 0
      /\ Has(text, i + 1, {"u"}) =>
           size = IF AtMost(hex, 5) >= 2 THEN 2 + AtMost(hex, 5) ELSE 0
      /\ Has(text, i + 1, {"p"}) /\ Has(text, i + 2, {"a"}) =>
           size = IF PaMatch(text, i + 3) = 0 THEN 0 ELSE 3 + PaMatch(text, i + 3)
      /\ Has(text, i + 1, {"p"}) /\ Has(text, i + 2, {"f"}) =>
           size = IF PfMatch(text, i + 3) = 0 THEN 0 ELSE 3 + PfMatch(text, i + 3)
    BY EscapeArms
<1>6. i + 1 <= kept /\ \A j \in 1..kept : w[j] = text[j]
    BY <1>0, <1>3 DEF IsCut
<1>7. /\ hex \in Nat /\ hexW \in Nat /\ digits \in Nat /\ digitsW \in Nat
      /\ \A j \in (i + 2)..(i + 2 + hex - 1) : Has(text, j, Hex)
      /\ ~Has(w, i + 2 + hexW, Hex)
      /\ hex = 2 => ~Has(text, i + 4, Hex)
      /\ hexW = 2 <=> /\ Has(w, i + 2, Hex) /\ Has(w, i + 3, Hex)
                      /\ ~Has(w, i + 4, Hex)
  <2>1. i + 2 + 1 = i + 3 /\ i + 2 + 2 = i + 4
      BY <1>0
  <2>2. ~Has(w, i + 2 + hexW, Hex)
      BY <1>0, RunIs DEF IsRun
  <2> QED BY <1>0, <2>1, <2>2, ShortRuns, RunReach
<1>8. /\ digits = 1 <=> Has(text, i + 3, AnyDigit) /\ ~Has(text, i + 4, AnyDigit)
      /\ digits = 2 <=> /\ Has(text, i + 3, AnyDigit) /\ Has(text, i + 4, AnyDigit)
                        /\ ~Has(text, i + 5, AnyDigit)
      /\ digitsW = 1 <=> Has(w, i + 3, AnyDigit) /\ ~Has(w, i + 4, AnyDigit)
      /\ digitsW = 2 <=> /\ Has(w, i + 3, AnyDigit) /\ Has(w, i + 4, AnyDigit)
                         /\ ~Has(w, i + 5, AnyDigit)
  <2>1. i + 3 + 1 = i + 4 /\ i + 3 + 2 = i + 5
      BY <1>0
  <2> QED BY <1>0, <2>1, ShortRuns
<1> HIDE DEF size, hex, digits, hexW, digitsW
<1>9. CASE Has(text, i + 1, Simple)
    BY <1>0, <1>1, <1>2, <1>4, <1>6, <1>9
<1>10. ASSUME NEW n \in Nat, n >= 2, n <= hex, i + 2 + n - 1 <= kept
       PROVE  /\ hexW >= n
              /\ \A j \in (i + 2)..(i + 2 + n - 1) : Has(w, j, Hex)
  <2>1. ASSUME NEW j \in (i + 2)..(i + 2 + n - 1) PROVE Has(w, j, Hex)
    <3>1. j \in (i + 2)..(i + 2 + hex - 1) /\ j <= kept /\ j \in Nat \ {0}
        BY <1>0, <1>7, <1>10
    <3> QED BY <1>1, <1>2, <1>7, <3>1
  <2>2. ~(hexW < n)
    <3>1. hexW < n => i + 2 + hexW \in (i + 2)..(i + 2 + n - 1)
        BY <1>0, <1>7
    <3> QED BY <1>7, <2>1, <3>1
  <2>3. hexW >= n
      BY <1>7, <2>2
  <2> QED BY <2>1, <2>3
<1>11. CASE Has(text, i + 1, {"e"}) /\ (hex = 2 \/ hex >= 4)
  <2>1. Has(w, i + 1, {"e"})
      BY <1>0, <1>1, <1>2, <1>6, <1>11
  <2>2. size = 2 + AtMost(hex, 4)
    <3>1. size = IF AtMost(hex, 4) \in {2, 4} THEN 2 + AtMost(hex, 4) ELSE 0
        BY <1>5, <1>11
    <3> QED BY <1>3, <3>1
  <2>3. CASE hex = 2
    <3>1. AtMost(hex, 4) = 2
        BY <2>3 DEF AtMost
    <3>2. i + 2 + 2 - 1 <= kept /\ 2 \in Nat /\ 2 >= 2 /\ 2 <= hex
        BY <1>0, <2>2, <2>3, <3>1
    <3>3. \A j \in (i + 2)..(i + 2 + 2 - 1) : Has(w, j, Hex)
        BY <1>10, <3>2
    <3>4. i + 2 \in (i + 2)..(i + 2 + 2 - 1) /\ i + 3 \in (i + 2)..(i + 2 + 2 - 1)
        BY <1>0
    <3>5. ~Has(w, i + 4, Hex)
        BY <1>0, <1>1, <1>2, <1>7, <2>3
    <3> QED BY <1>4, <1>7, <2>1, <3>3, <3>4, <3>5
  <2>4. CASE hex >= 4
    <3>1. AtMost(hex, 4) = 4
        BY <1>7, <2>4 DEF AtMost
    <3>2. i + 2 + 4 - 1 <= kept /\ 4 \in Nat /\ 4 >= 2 /\ 4 <= hex
        BY <1>0, <1>7, <2>2, <2>4, <3>1
    <3>3. hexW >= 4
        BY <1>10, <3>2
    <3> QED BY <1>4, <2>1, <3>3
  <2> QED BY <1>11, <2>3, <2>4
<1>12. CASE Has(text, i + 1, {"u"}) /\ hex >= 2
  <2>1. Has(w, i + 1, {"u"})
      BY <1>0, <1>1, <1>2, <1>6, <1>12
  <2>2. size = 2 + AtMost(hex, 5)
    <3>1. size = IF AtMost(hex, 5) >= 2 THEN 2 + AtMost(hex, 5) ELSE 0
        BY <1>5, <1>12
    <3> QED BY <1>3, <3>1
  <2>3. AtMost(hex, 5) \in Nat /\ AtMost(hex, 5) >= 2
      BY <1>7, <1>12 DEF AtMost
  <2>4. i + 2 + 2 - 1 <= kept /\ 2 \in Nat /\ 2 >= 2 /\ 2 <= hex
      BY <1>0, <1>12, <2>2, <2>3
  <2>5. hexW >= 2
      BY <1>10, <2>4
  <2> QED BY <1>4, <2>1, <2>5
<1>13. CASE /\ Has(text, i + 1, {"p"}) /\ Has(text, i + 2, {"a"})
            /\ digits = 1 /\ text[i + 3] \in {"1", "2", "3"}
  <2>2. size = 3 + PaMatch(text, i + 3) /\ PaMatch(text, i + 3) = 1
    <3>1. size = IF PaMatch(text, i + 3) = 0 THEN 0 ELSE 3 + PaMatch(text, i + 3)
        BY <1>5, <1>13
    <3>2. PaMatch(text, i + 3) \in {0, 1}
        BY DEF PaMatch
    <3> QED BY <1>3, <3>1, <3>2
  <2>3. i + 3 <= kept /\ i + 2 <= kept /\ i + 3 \in 1..kept
      BY <1>0, <2>2
  <2>4. Has(w, i + 1, {"p"}) /\ Has(w, i + 2, {"a"}) /\ digitsW = 1
      BY <1>0, <1>1, <1>2, <1>6, <1>8, <1>13, <2>3
  <2>5. w[i + 3] = text[i + 3]
      BY <1>6, <2>3
  <2> QED BY <1>4, <1>13, <2>4, <2>5
<1>14. CASE /\ Has(text, i + 1, {"p"}) /\ Has(text, i + 2, {"f"})
            /\ \/ digits = 1 /\ text[i + 3] \in {"1", "2", "3", "4", "5"}
               \/ digits = 2 /\ text[i + 3] = "1"
               \/ digits = 2 /\ text[i + 3] = "2" /\ text[i + 4] \in {"0", "1", "2", "3", "4"}
  <2>2. size = 3 + PfMatch(text, i + 3) /\ PfMatch(text, i + 3) \in {1, 2}
    <3>1. PfMatch(text, i + 3) \in {0, 1, 2}
        BY DEF PfMatch
    <3> QED BY <1>3, <1>5, <1>14, <3>1
  <2>3. i + 3 <= kept /\ i + 2 <= kept /\ i + 3 \in 1..kept
      BY <1>0, <2>2
  <2>4. Has(w, i + 1, {"p"}) /\ Has(w, i + 2, {"f"}) /\ w[i + 3] = text[i + 3]
    <3>1. w[i + 3] = text[i + 3]
        BY <1>6, <2>3
    <3> QED BY <1>0, <1>1, <1>2, <1>6, <1>14, <2>3, <3>1
  <2>5. CASE digits = 1
    <3>1. digitsW = 1
        BY <1>0, <1>1, <1>2, <1>8, <2>3, <2>5
    <3> QED BY <1>4, <1>14, <2>4, <2>5, <3>1
  <2>6. CASE digits = 2
    <3>1. PfMatch(text, i + 3) = 2
      <4>1. i + 3 + 1 = i + 4
          BY <1>0
      <4>2. Has(text, i + 4, AnyDigit)
          BY <1>8, <2>6
      <4> QED BY <2>2, <4>1, <4>2 DEF PfMatch
    <3>2. i + 4 <= kept /\ i + 4 \in 1..kept
        BY <1>0, <2>2, <3>1
    <3>3. digitsW = 2
        BY <1>0, <1>1, <1>2, <1>8, <2>3, <2>6, <3>2
    <3>4. w[i + 4] = text[i + 4]
        BY <1>6, <3>2
    <3> QED BY <1>4, <1>14, <2>4, <2>6, <3>3, <3>4
  <2> QED BY <1>14, <2>5, <2>6
<1> QED BY <1>4, <1>9, <1>11, <1>12, <1>13, <1>14

WriteCall == input.text \in Text /\ input.length \in Int

(* A valid text stays valid when write() cuts it and fills it up, unless   *)
(* the cut goes through an escape, for texts and lengths of every size.    *)
THEOREM CutOfEveryText == WriteCall => CutIsSafe
<1> DEFINE text == input.text
           kept == Len(Slice(text, 0, input.length))
           w    == Written(text, input.length)
<1> SUFFICES ASSUME WriteCall, Verdict(text) = 0,
                    \A i \in Starts(text) :
                        ~(i <= kept /\ kept < i + EscapeLength(text, i) - 1)
             PROVE  Verdict(w) = 0
    BY DEF CutIsSafe
<1>1. text \in Text /\ input.length \in Int
    BY DEF WriteCall
<1>2. IsCut(w, text, kept)
    BY <1>1, WrittenIsCut
<1>3. w \in Text /\ kept \in 0..Len(text) /\ kept <= Len(w)
    BY <1>1, <1>2 DEF IsCut, Text
<1>0. Len(text) \in Nat /\ DOMAIN text = 1..Len(text) /\ Len(w) \in Nat /\ DOMAIN w = 1..Len(w)
    BY <1>1, <1>3 DEF Text
<1>7. \A j \in 1..kept : w[j] = text[j]
    BY <1>2 DEF IsCut
<1>8. \A i \in DOMAIN w : i > kept => w[i] = Blank
    BY <1>0, <1>3, <1>2 DEF IsCut
<1> HIDE DEF text, kept, w
<1>4. Wrong(text) = {}
  <2>1. IsFirstWrong(text, 1, 0)
      BY <1>1, VerdictIsFirstWrong
  <2>2. \A i \in Wrong(text) : i \in DOMAIN text
      BY DEF Wrong, Starts
  <2> QED BY <1>0, <2>1, <2>2 DEF IsFirstWrong
<1>5. ASSUME NEW i \in Starts(w) PROVE WellFormed(w, i)
  <2>1. i \in DOMAIN w /\ w[i] = "\\" /\ InStep(w, i)
      BY <1>3, StartsAreInStep DEF Starts
  <2>2. i \in 1..kept
    <3>1. ~(i > kept)
        BY <1>8, <2>1 DEF Blank
    <3> QED BY <1>0, <1>3, <2>1, <3>1
  <2>3. i \in DOMAIN text /\ text[i] = "\\"
      BY <1>0, <1>3, <1>7, <2>1, <2>2
  <2>4. InStep(text, i)
    <3>1. PICK n \in 0..(i - 1) : /\ n % 2 = 0
                                  /\ \A j \in (i - n)..(i - 1) : w[j] = "\\"
                                  /\ ~(i - n > 1 /\ w[i - n - 1] = "\\")
        BY <2>1 DEF InStep
    <3>2. \A j \in (i - n)..(i - 1) : text[j] = "\\"
      <4>1. \A j \in (i - n)..(i - 1) : j \in 1..kept
          BY <1>0, <1>3, <2>2, <3>1
      <4> QED BY <1>7, <3>1, <4>1
    <3>3. i - n > 1 => i - n - 1 \in 1..kept
        BY <1>0, <1>3, <2>2, <3>1
    <3>4. ~(i - n > 1 /\ text[i - n - 1] = "\\")
        BY <1>7, <3>1, <3>3
    <3> QED BY <3>1, <3>2, <3>4 DEF InStep
  <2>5. i \in Starts(text)
      BY <1>1, <2>3, <2>4, StartsAreInStep
  <2>6. WellFormed(text, i)
      BY <1>4, <2>5 DEF Wrong
  <2>7. EscapeLength(text, i) \in Nat
      BY <1>1, <2>3, EscapeIsWellFormed
  <2>8. i + EscapeLength(text, i) - 1 <= kept
      BY <1>0, <1>3, <2>2, <2>5, <2>7
  <2> QED BY <1>0, <1>1, <1>2, <1>3, <2>3, <2>6, <2>8, WholeEscapeStays
<1>6. Wrong(w) = {}
    BY <1>5 DEF Wrong
<1> QED BY <1>3, <1>6, VerdictIsFirstWrong DEF IsFirstWrong
-----------------------------------------------------------------------------
(* A prefix agrees with the whole as far as it goes.                       *)
LEMMA PrefixAgrees ==
    ASSUME NEW S, NEW s \in Seq(S), NEW t \in Seq(S)
    PROVE  IsPrefix(s, t) <=> Len(s) <= Len(t) /\ \A i \in 1..Len(s) : s[i] = t[i]
<1> DEFINE n == Len(s)
           a == SubSeq(s, 1, n)
           b == SubSeq(t, 1, n)
<1>1. n \in Nat /\ Len(t) \in Nat
    OBVIOUS
<1>2. a \in Seq(S) /\ Len(a) = n /\ \A i \in 1..n : a[i] = s[i]
    OBVIOUS
<1>3. n <= Len(t) => b \in Seq(S) /\ Len(b) = n /\ \A i \in 1..n : b[i] = t[i]
    OBVIOUS
<1>4. IsPrefix(s, t) <=> n <= Len(t) /\ a = b
    BY DEF IsPrefix
<1> HIDE DEF n, a, b
<1>5. n <= Len(t) /\ a = b => \A i \in 1..n : s[i] = t[i]
    BY <1>2, <1>3
<1>6. ASSUME n <= Len(t), \A i \in 1..n : s[i] = t[i] PROVE a = b
  <2>1. \A i \in 1..Len(a) : a[i] = b[i]
      BY <1>2, <1>3, <1>6
  <2>2. b \in Seq(S) /\ Len(a) = Len(b)
      BY <1>2, <1>3, <1>6
  <2> QED BY <1>2, <2>1, <2>2, SeqEqual
<1> QED BY <1>4, <1>5, <1>6 DEF n

(* Without the stop word filter and the stemmer the pipeline only trims.   *)
LEMMA PipelineTrims ==
    ASSUME NEW words
    PROVE  Run(BuiltPipeline, words) = {Trim(words[i]) : i \in DOMAIN words}
<1> DEFINE trimmed == {IF "trimmer" \in BuiltPipeline THEN Trim(w) ELSE w : w \in Range(words)}
<1>1. /\ "trimmer" \in BuiltPipeline
      /\ "stopWordFilter" \notin BuiltPipeline /\ "stemmer" \notin BuiltPipeline
    BY DEF BuiltPipeline, Standard
<1>2. trimmed = {Trim(words[i]) : i \in DOMAIN words}
    BY <1>1 DEF Range
<1>3. Run(BuiltPipeline, words) = trimmed
    BY <1>1 DEF Run
<1> QED BY <1>2, <1>3

Word == Seq(STRING)

(* Where the letters of a word begin and end.                              *)
LEMMA LettersSpan ==
    ASSUME NEW w \in Word, Letters(w) # {}
    PROVE  /\ Min(Letters(w)) \in Letters(w) /\ \A i \in Letters(w) : Min(Letters(w)) <= i
           /\ Max(Letters(w)) \in Letters(w) /\ \A i \in Letters(w) : i <= Max(Letters(w))
<1>1. Len(w) \in Nat /\ Letters(w) \in SUBSET (0..Len(w))
    BY DEF Letters, Word
<1>2. \E n \in Letters(w) : \A m \in Letters(w) : n <= m
    BY <1>1, Least
<1>3. \E n \in Letters(w) : \A m \in Letters(w) : m <= n
    BY <1>1, Greatest
<1>4. \E n \in Letters(w) : \A m \in Letters(w) : n >= m
    BY <1>1, <1>3
<1>5. Max(Letters(w)) \in Letters(w) /\ \A m \in Letters(w) : Max(Letters(w)) >= m
    BY <1>4 DEF Max
<1> QED BY <1>1, <1>2, <1>5 DEF Min

(* What is left of the beginning of a word begins what is left of it.      *)
LEMMA TrimBegins ==
    ASSUME NEW v \in Word, NEW w \in Word, IsPrefix(v, w), Letters(v) # {}
    PROVE  Trim(v) # <<>> /\ IsPrefix(Trim(v), Trim(w))
<1> DEFINE a == Min(Letters(v))
           b == Max(Letters(v))
           d == Max(Letters(w))
<1>1. Len(v) \in Nat /\ Len(w) \in Nat /\ Len(v) <= Len(w) /\ \A i \in 1..Len(v) : v[i] = w[i]
    BY PrefixAgrees DEF Word
<1>2. /\ a \in Letters(v) /\ \A i \in Letters(v) : a <= i
      /\ b \in Letters(v) /\ \A i \in Letters(v) : i <= b
    BY LettersSpan
<1>3. /\ \A i \in 1..Len(v) : i \in Letters(v) <=> i \in Letters(w)
      /\ Letters(v) \subseteq 1..Len(v) /\ Letters(w) \subseteq 1..Len(w)
    BY <1>1 DEF Letters, Word
<1>4. /\ Min(Letters(w)) \in Letters(w) /\ \A i \in Letters(w) : Min(Letters(w)) <= i
      /\ d \in Letters(w) /\ \A i \in Letters(w) : i <= d
    BY <1>2, <1>3, LettersSpan
<1> HIDE DEF a, b, d
<1>5. /\ a \in 1..Len(v) /\ b \in 1..Len(v) /\ d \in 1..Len(w)
      /\ a <= b /\ b <= d /\ Min(Letters(w)) = a
    BY <1>1, <1>2, <1>3, <1>4
<1>6. Trim(v) = SubSeq(v, a, b) /\ Trim(w) = SubSeq(w, a, d)
    BY <1>2, <1>4, <1>5 DEF Trim, a, b, d
<1>7. /\ SubSeq(v, a, b) \in Seq(STRING) /\ Len(SubSeq(v, a, b)) = b - a + 1
      /\ \A k \in 1..(b - a + 1) : SubSeq(v, a, b)[k] = v[a + k - 1]
    BY <1>5 DEF Word
<1>8. /\ SubSeq(w, a, d) \in Seq(STRING) /\ Len(SubSeq(w, a, d)) = d - a + 1
      /\ \A k \in 1..(d - a + 1) : SubSeq(w, a, d)[k] = w[a + k - 1]
    BY <1>1, <1>5 DEF Word
<1>9. \A k \in 1..(b - a + 1) : SubSeq(v, a, b)[k] = SubSeq(w, a, d)[k]
  <2>1. ASSUME NEW k \in 1..(b - a + 1)
        PROVE  a + k - 1 \in 1..Len(v) /\ k \in 1..(d - a + 1)
      BY <1>1, <1>5
  <2> QED BY <1>1, <1>7, <1>8, <2>1
<1>10. b - a + 1 > 0 /\ b - a + 1 <= d - a + 1
    BY <1>1, <1>5
<1>11. Trim(v) # <<>>
  <2>1. Len(Trim(v)) = b - a + 1
      BY <1>6, <1>7
  <2> QED BY <1>10, <2>1
<1>12. IsPrefix(Trim(v), Trim(w))
    BY <1>6, <1>7, <1>8, <1>9, <1>10, PrefixAgrees
<1> QED BY <1>11, <1>12

SearchCall == /\ input.term \in Seq(Word)
              /\ \A d \in input.docs, f \in FieldNames : d.text[f] \in Seq(Word)

(* A name is found by any beginning of any word of any of its fields that  *)
(* has a letter, for all words, word characters, stop words and stemmers,  *)
(* and by nothing without one.                                             *)
THEOREM SearchFindsWhileTyping == SearchCall => FoundWhileTyping
<1> DEFINE index == BuiltIndex(input.docs)
           term  == input.term
           typed == {j \in DOMAIN term : Letters(term[j]) # {}}
           found == Search(SearchIndex(input.docs, input.isPrebuilt), term)
<1> SUFFICES ASSUME SearchCall
             PROVE  /\ \A d \in input.docs, f \in FieldNames :
                         (\E i \in DOMAIN d.text[f], j \in typed : IsPrefix(term[j], d.text[f][i]))
                             => d.ref \in found
                    /\ typed = {} => found = {}
    BY DEF FoundWhileTyping
<1>1. SearchIndex(input.docs, input.isPrebuilt) = index /\ index.pipeline = BuiltPipeline
    BY DEF SearchIndex, BuiltIndex
<1>2. \A d \in input.docs, f \in FieldNames : \A w \in Run(BuiltPipeline, d.text[f]) :
        <<f, w, d.ref>> \in index.postings
  <2> DEFINE entries(d, f) == {<<f, w, d.ref>> : w \in Run(BuiltPipeline, d.text[f])}
  <2>1. index.postings = UNION {entries(d, f) : d \in input.docs, f \in FieldNames}
      BY DEF BuiltIndex
  <2> SUFFICES ASSUME NEW d \in input.docs, NEW f \in FieldNames,
                      NEW w \in Run(BuiltPipeline, d.text[f])
               PROVE  <<f, w, d.ref>> \in index.postings
      OBVIOUS
  <2>2. <<f, w, d.ref>> \in entries(d, f)
      OBVIOUS
  <2> HIDE DEF entries
  <2> QED BY <2>1, <2>2
<1> DEFINE words   == Run(BuiltPipeline, term) \ {<<>>}
           matches == {q \in index.postings : \E w \in words : IsPrefix(w, q[2])}
<1>3. found = {p[3] : p \in matches}
    BY <1>1 DEF Search
<1>4. Run(BuiltPipeline, term) = {Trim(term[j]) : j \in DOMAIN term}
    BY PipelineTrims
<1>5. typed = {} => words = {}
    BY <1>4 DEF Trim
<1>6. \A j \in DOMAIN term : term[j] \in Word
    BY DEF SearchCall
<1> HIDE DEF index, found
<1>7. ASSUME NEW d \in input.docs, NEW f \in FieldNames, NEW i \in DOMAIN d.text[f],
             NEW j \in typed, IsPrefix(term[j], d.text[f][i])
      PROVE  d.ref \in found
  <2>1. d.text[f][i] \in Word
      BY DEF SearchCall
  <2>2. Trim(term[j]) # <<>> /\ IsPrefix(Trim(term[j]), Trim(d.text[f][i]))
      BY <1>6, <1>7, <2>1, TrimBegins
  <2>3. Trim(d.text[f][i]) \in Run(BuiltPipeline, d.text[f])
      BY PipelineTrims
  <2>4. PICK q : q = <<f, Trim(d.text[f][i]), d.ref>>
      OBVIOUS
  <2>5. q \in index.postings /\ q[2] = Trim(d.text[f][i]) /\ q[3] = d.ref
      BY <1>2, <2>3, <2>4
  <2>6. Trim(term[j]) \in words
      BY <1>4, <2>2
  <2>7. q \in matches
      BY <2>2, <2>5, <2>6
  <2> HIDE DEF matches
  <2> QED BY <1>3, <2>5, <2>7
<1>8. typed = {} => found = {}
    BY <1>3, <1>5
<1> HIDE DEF typed
<1> QED BY <1>7, <1>8
-----------------------------------------------------------------------------
(* Parts of two sequences that agree there.                                *)
LEMMA SubSeqAgree ==
    ASSUME NEW S, NEW s \in Seq(S), NEW t \in Seq(S), NEW i \in Int, NEW j \in Int,
           1 <= i, j <= Len(s), j <= Len(t), \A k \in i..j : s[k] = t[k]
    PROVE  SubSeq(s, i, j) = SubSeq(t, i, j)
<1>1. CASE i > j
  BY <1>1
<1>2. CASE i <= j
  <2> DEFINE a == SubSeq(s, i, j)
             b == SubSeq(t, i, j)
  <2>1. /\ a \in Seq(S) /\ Len(a) = j - i + 1
        /\ \A k \in 1..(j - i + 1) : a[k] = s[i + k - 1]
    BY <1>2
  <2>2. /\ b \in Seq(S) /\ Len(b) = j - i + 1
        /\ \A k \in 1..(j - i + 1) : b[k] = t[i + k - 1]
    BY <1>2
  <2>3. \A k \in 1..(j - i + 1) : s[i + k - 1] = t[i + k - 1]
    <3> SUFFICES ASSUME NEW k \in 1..(j - i + 1) PROVE s[i + k - 1] = t[i + k - 1]
      OBVIOUS
    <3>1. i + k - 1 \in i..j
      BY <1>2
    <3> QED BY <3>1
  <2> HIDE DEF a, b
  <2>4. \A k \in 1..(j - i + 1) : a[k] = b[k]
    BY <2>1, <2>2, <2>3
  <2>5. a = b
    <3>1. ASSUME NEW x \in Seq(S), NEW y \in Seq(S), Len(x) = Len(y),
                 \A k \in 1..Len(x) : x[k] = y[k]
          PROVE  x = y
      BY <3>1
    <3> QED BY <2>1, <2>2, <2>4, <3>1
  <2> QED BY <2>5 DEF a, b
<1> QED BY <1>1, <1>2
(* ResponseParser: the positions of the marks in a sequence, one element   *)
(* after the other.                                                        *)
Marks == Seq(BOOLEAN)

PositionsUpTo(f, marks, N) ==
    f = [n \in 0..N |-> IF n = 0 THEN <<>>
                        ELSE IF marks[n] THEN Append(f[n - 1], n) ELSE f[n - 1]]

LEMMA PositionsExist ==
    ASSUME NEW marks, NEW N \in Nat
    PROVE  \E f : PositionsUpTo(f, marks, N)
<1> DEFINE Missing == {m \in Nat : ~ \E f : PositionsUpTo(f, marks, m)}
<1>1. ASSUME NEW m \in Missing, \A k \in Missing : m <= k PROVE FALSE
  <2>1. CASE m = 0
    <3> DEFINE f == [n \in 0..0 |-> <<>>]
    <3>1. PositionsUpTo(f, marks, 0)
      BY DEF PositionsUpTo
    <3> QED BY <2>1, <3>1
  <2>2. CASE m # 0
    <3>1. m - 1 \in Nat /\ m \in Nat /\ m - 1 \notin Missing
      <4>1. m \in Nat /\ m - 1 \in Nat /\ ~(m <= m - 1)
        BY <2>2
      <4> HIDE DEF Missing
      <4> QED BY <1>1, <4>1
    <3>2. PICK f : PositionsUpTo(f, marks, m - 1)
      BY <3>1
    <3> DEFINE One(h, n) == IF n = 0 THEN <<>>
                            ELSE IF marks[n] THEN Append(h[n - 1], n) ELSE h[n - 1]
               g == [n \in 0..m |-> One(f, n)]
    <3>3. ASSUME NEW n \in 0..(m - 1) PROVE g[n] = f[n]
      <4>1. f[n] = One(f, n)
        BY <3>2 DEF PositionsUpTo
      <4>2. n \in 0..m
        BY <3>1
      <4> HIDE DEF One
      <4> QED BY <4>1, <4>2
    <3>4. ASSUME NEW n \in 0..m PROVE One(f, n) = One(g, n)
      <4>1. CASE n = 0
        BY <4>1
      <4>2. CASE n # 0
        <5>1. n - 1 \in 0..(m - 1)
          BY <3>1, <4>2
        <5> HIDE DEF g
        <5>2. g[n - 1] = f[n - 1]
          BY <3>3, <5>1
        <5> QED BY <5>2
      <4> QED BY <4>1, <4>2
    <3>5. g = [n \in 0..m |-> One(g, n)]
      <4> HIDE DEF One
      <4> QED BY <3>4
    <3>6. PositionsUpTo(g, marks, m)
      <4> HIDE DEF g
      <4> QED BY <3>5 DEF PositionsUpTo
    <3> HIDE DEF g
    <3> QED BY <3>6
  <2> QED BY <2>1, <2>2
<1>2. Missing = {}
  <2> HIDE DEF Missing
  <2>1. Missing \in SUBSET Nat
    BY DEF Missing
  <2> QED BY <1>1, <2>1, Least
<1> QED BY <1>2

LEMMA PositionsAreUpTo ==
    ASSUME NEW marks \in Marks
    PROVE  \E f : PositionsUpTo(f, marks, Len(marks)) /\ Positions(marks) = f[Len(marks)]
<1>1. \E f : PositionsUpTo(f, marks, Len(marks))
  BY PositionsExist DEF Marks
<1> DEFINE g == CHOOSE f : PositionsUpTo(f, marks, Len(marks))
<1>2. PositionsUpTo(g, marks, Len(marks))
  BY <1>1
<1>3. Positions(marks) = g[Len(marks)]
  BY DEF Positions, PositionsUpTo
<1> HIDE DEF g
<1> QED BY <1>2, <1>3

LEMMA PositionsStep ==
    ASSUME NEW f, NEW marks, NEW N \in Nat, PositionsUpTo(f, marks, N)
    PROVE  /\ f[0] = <<>>
           /\ \A n \in 1..N : /\ n - 1 \in 0..N /\ n \in 0..N
                              /\ f[n] = IF marks[n] THEN Append(f[n - 1], n) ELSE f[n - 1]
<1>1. f[0] = <<>>
  BY DEF PositionsUpTo
<1>2. ASSUME NEW n \in 1..N
      PROVE  /\ n - 1 \in 0..N /\ n \in 0..N
             /\ f[n] = IF marks[n] THEN Append(f[n - 1], n) ELSE f[n - 1]
  <2>1. n - 1 \in 0..N /\ n \in 0..N /\ n # 0
    OBVIOUS
  <2> QED BY <2>1 DEF PositionsUpTo
<1> QED BY <1>1, <1>2

(* They are no greater than the length.                                    *)
LEMMA PositionsType ==
    ASSUME NEW marks \in Marks
    PROVE  Positions(marks) \in Seq(1..Len(marks))
<1>0. PICK N \in Nat : N = Len(marks)
  BY DEF Marks
<1>1. PICK f : PositionsUpTo(f, marks, N) /\ Positions(marks) = f[N]
  BY <1>0, PositionsAreUpTo
<1> DEFINE Other == {k \in 0..N : f[k] \notin Seq(1..N)}
<1>2. ASSUME NEW k \in Other, \A j \in Other : k <= j PROVE FALSE
  <2>1. f[0] \in Seq(1..N)
    <3>1. f[0] = <<>>
      BY <1>1, PositionsStep
    <3> QED BY <3>1
  <2>2. k \in 1..N /\ k - 1 \in 0..N /\ ~(k <= k - 1) /\ f[k] \notin Seq(1..N)
    BY <2>1
  <2>3. f[k] = IF marks[k] THEN Append(f[k - 1], k) ELSE f[k - 1]
    BY <1>1, <2>2, PositionsStep
  <2>4. k - 1 \notin Other
    <3> HIDE DEF Other
    <3> QED BY <1>2, <2>2
  <2>5. f[k - 1] \in Seq(1..N)
    BY <2>2, <2>4
  <2>6. ASSUME NEW h \in Seq(1..N) PROVE Append(h, k) \in Seq(1..N)
    BY <2>2
  <2> HIDE DEF Other
  <2>7. Append(f[k - 1], k) \in Seq(1..N)
    BY <2>5, <2>6
  <2> QED BY <2>2, <2>3, <2>5, <2>7
<1>3. Other \in SUBSET Nat
  OBVIOUS
<1>4. N \notin Other
  <2> HIDE DEF Other
  <2> QED BY <1>2, <1>3, Least
<1> QED BY <1>0, <1>1, <1>4

LEMMA PositionsAgree ==
    ASSUME NEW f, NEW a, NEW N \in Nat, PositionsUpTo(f, a, N),
           NEW g, NEW b, NEW M \in Nat, PositionsUpTo(g, b, M),
           N <= M, \A k \in 1..N : a[k] = b[k]
    PROVE  f[N] = g[N]
<1> DEFINE Other == {k \in 0..N : f[k] # g[k]}
<1>1. ASSUME NEW k \in Other, \A j \in Other : k <= j PROVE FALSE
  <2>1. f[0] = <<>> /\ g[0] = <<>>
    BY PositionsStep
  <2>2. k \in 1..N /\ k \in 1..M /\ k - 1 \in 0..N /\ ~(k <= k - 1)
    BY <2>1
  <2>3. f[k] = IF a[k] THEN Append(f[k - 1], k) ELSE f[k - 1]
    BY <2>2, PositionsStep
  <2>4. g[k] = IF b[k] THEN Append(g[k - 1], k) ELSE g[k - 1]
    BY <2>2, PositionsStep
  <2>5. a[k] = b[k]
    BY <2>2
  <2>6. k - 1 \in Other
    BY <2>2, <2>3, <2>4, <2>5
  <2> HIDE DEF Other
  <2> QED BY <1>1, <2>2, <2>6
<1>2. Other \in SUBSET Nat
  OBVIOUS
<1>3. N \in Other => FALSE
  <2> HIDE DEF Other
  <2> QED BY <1>1, <1>2, Least
<1> QED BY <1>3

(* An element more,                                                        *)
LEMMA PositionsAppend ==
    ASSUME NEW marks \in Marks, NEW more \in Marks, Len(more) = Len(marks) + 1,
           \A k \in 1..Len(marks) : marks[k] = more[k]
    PROVE  Positions(more) = IF more[Len(marks) + 1]
                             THEN Append(Positions(marks), Len(marks) + 1)
                             ELSE Positions(marks)
<1>0. PICK m : m = more[Len(marks) + 1]
  OBVIOUS
<1>1. /\ Len(marks) \in Nat /\ more[Len(more)] = m
  BY <1>0 DEF Marks
<1>2. PICK f : PositionsUpTo(f, marks, Len(marks)) /\ Positions(marks) = f[Len(marks)]
  BY PositionsAreUpTo
<1>3. PICK g : PositionsUpTo(g, more, Len(more)) /\ Positions(more) = g[Len(more)]
  BY <1>1, PositionsAreUpTo
<1>4. f[Len(marks)] = g[Len(marks)]
  <2>1. Len(marks) <= Len(more) /\ Len(more) \in Nat
    BY <1>1
  <2> QED BY <1>1, <1>2, <1>3, <2>1, PositionsAgree
<1>5. g[Len(more)] = IF m THEN Append(g[Len(marks)], Len(marks) + 1) ELSE g[Len(marks)]
  <2>1. Len(more) \in 1..Len(more) /\ Len(more) \in Nat /\ Len(more) - 1 = Len(marks)
    BY <1>1
  <2>2. g[Len(more)] = IF more[Len(more)] THEN Append(g[Len(more) - 1], Len(more))
                       ELSE g[Len(more) - 1]
    BY <1>3, <2>1, PositionsStep
  <2> QED BY <1>1, <2>1, <2>2
<1> QED BY <1>0, <1>2, <1>3, <1>4, <1>5

(* and many without a mark.                                                *)
LEMMA PositionsSkip ==
    ASSUME NEW marks \in Marks, NEW more \in Marks, Len(marks) <= Len(more),
           \A k \in 1..Len(marks) : more[k] = marks[k],
           \A k \in (Len(marks) + 1)..Len(more) : ~more[k]
    PROVE  Positions(more) = Positions(marks)
<1>0. PICK N \in Nat, M \in Nat : N = Len(marks) /\ M = Len(more) /\ N <= M
  BY DEF Marks
<1>1. PICK f : PositionsUpTo(f, marks, N) /\ Positions(marks) = f[N]
  BY <1>0, PositionsAreUpTo
<1>2. PICK g : PositionsUpTo(g, more, M) /\ Positions(more) = g[M]
  BY <1>0, PositionsAreUpTo
<1>3. f[N] = g[N]
  BY <1>0, <1>1, <1>2, PositionsAgree
<1> DEFINE Other == {k \in N..M : g[k] # g[N]}
<1>4. ASSUME NEW k \in Other, \A j \in Other : k <= j PROVE FALSE
  <2>1. k \in (N + 1)..M /\ k \in 1..M /\ k - 1 \in N..M /\ ~(k <= k - 1) /\ g[k] # g[N]
    OBVIOUS
  <2>2. g[k] = IF more[k] THEN Append(g[k - 1], k) ELSE g[k - 1]
    BY <1>2, <2>1, PositionsStep
  <2>3. ~more[k]
    BY <1>0, <2>1
  <2>4. k - 1 \in Other
    BY <2>1, <2>2, <2>3
  <2> HIDE DEF Other
  <2> QED BY <1>4, <2>1, <2>4
<1>5. Other \in SUBSET Nat
  OBVIOUS
<1>6. M \notin Other
  <2> HIDE DEF Other
  <2> QED BY <1>4, <1>5, Least
<1> QED BY <1>0, <1>1, <1>2, <1>3, <1>6

LEMMA PositionsEmpty == Positions(<<>>) = <<>>
<1>1. <<>> \in Marks /\ Len(<<>>) = 0
  BY DEF Marks
<1>2. PICK f : PositionsUpTo(f, <<>>, 0) /\ Positions(<<>>) = f[0]
  BY <1>1, PositionsAreUpTo
<1> QED BY <1>2, PositionsStep

-----------------------------------------------------------------------------
(* The lines of a text, and the responses of its lines.                    *)
TextChars == Seq(Characters)
ALine     == {RStrip(text) : text \in TextChars}
AResponse == {Response(before, end) : before \in Seq(ALine), end \in ALine}

NoLF(text)   == \A i \in 1..Len(text) : text[i] # "LF"
Closed(text) == text = <<>> \/ text[Len(text)] = "LF"

LEMMA EndsType ==
    /\ \A text \in TextChars : /\ LineEnds(text) \in Seq(1..Len(text))
                               /\ [i \in DOMAIN text |-> text[i] = "LF"] \in Marks
    /\ \A all \in Seq(ALine) : /\ ResponseEnds(all) \in Seq(1..Len(all))
                               /\ [k \in DOMAIN all |-> IsEnd(all[k])] \in Marks
<1>1. ASSUME NEW text \in TextChars
      PROVE  /\ LineEnds(text) \in Seq(1..Len(text))
             /\ [i \in DOMAIN text |-> text[i] = "LF"] \in Marks
  <2> DEFINE marks == [i \in DOMAIN text |-> text[i] = "LF"]
  <2>0. DOMAIN text = 1..Len(text) /\ Len(text) \in Nat
    BY DEF TextChars
  <2>1. marks \in Marks /\ Len(marks) = Len(text)
    BY <2>0 DEF Marks
  <2> HIDE DEF marks
  <2>2. Positions(marks) \in Seq(1..Len(marks))
    BY <2>1, PositionsType
  <2> QED BY <2>1, <2>2 DEF LineEnds, marks
<1>2. ASSUME NEW all \in Seq(ALine)
      PROVE  /\ ResponseEnds(all) \in Seq(1..Len(all))
             /\ [k \in DOMAIN all |-> IsEnd(all[k])] \in Marks
  <2> DEFINE marks == [k \in DOMAIN all |-> IsEnd(all[k])]
  <2>1. marks \in Marks /\ Len(marks) = Len(all)
    <3>1. \A line : IsEnd(line) \in BOOLEAN
      BY DEF IsEnd
    <3> QED BY <3>1 DEF Marks
  <2> HIDE DEF marks
  <2>2. Positions(marks) \in Seq(1..Len(marks))
    BY <2>1, PositionsType
  <2> QED BY <2>1, <2>2 DEF ResponseEnds, marks
<1> QED BY <1>1, <1>2

LEMMA LinesType ==
    ASSUME NEW text \in TextChars
    PROVE  /\ LinesOf(text) \in Seq(ALine)
           /\ Len(LinesOf(text)) = Len(LineEnds(text))
           /\ DOMAIN LineEnds(text) = 1..Len(LineEnds(text))
           /\ \A k \in 1..Len(LineEnds(text)) :
                LinesOf(text)[k] = RStrip(SubSeq(text, Before(LineEnds(text), k) + 1,
                                                 LineEnds(text)[k] - 1))
<1>1. PICK ends \in Seq(1..Len(text)) : ends = LineEnds(text)
  BY EndsType
<1> DEFINE Line(k) == RStrip(SubSeq(text, Before(ends, k) + 1, ends[k] - 1))
<1>2. LinesOf(text) = [k \in 1..Len(ends) |-> Line(k)] /\ Len(ends) \in Nat
      /\ DOMAIN ends = 1..Len(ends)
  BY <1>1 DEF LinesOf
<1>3. ASSUME NEW k \in 1..Len(ends) PROVE Line(k) \in ALine
  <2>1. Before(ends, k) \in Nat /\ ends[k] \in 1..Len(text)
    <3>1. k # 1 => k - 1 \in 1..Len(ends)
      BY <1>2
    <3> QED BY <1>2, <3>1 DEF Before
  <2>2. ASSUME NEW a \in Nat, NEW b \in 1..Len(text)
        PROVE  SubSeq(text, a + 1, b - 1) \in TextChars
    BY DEF TextChars
  <2>3. SubSeq(text, Before(ends, k) + 1, ends[k] - 1) \in TextChars
    BY <2>1, <2>2
  <2> QED BY <2>3 DEF ALine
<1> HIDE DEF Line
<1>4. LinesOf(text) \in Seq(ALine) /\ Len(LinesOf(text)) = Len(ends)
  BY <1>2, <1>3
<1> QED BY <1>1, <1>2, <1>4 DEF Line

LEMMA ResponsesType ==
    ASSUME NEW all \in Seq(ALine)
    PROVE  /\ ResponsesOf(all) \in Seq(AResponse)
           /\ Len(ResponsesOf(all)) = Len(ResponseEnds(all))
           /\ \A j \in 1..Len(ResponseEnds(all)) :
                ResponsesOf(all)[j] = Response(SubSeq(all, Before(ResponseEnds(all), j) + 1,
                                                      ResponseEnds(all)[j] - 1),
                                               all[ResponseEnds(all)[j]])
<1>1. PICK ends \in Seq(1..Len(all)) : ends = ResponseEnds(all)
  BY EndsType
<1> DEFINE One(j) == Response(SubSeq(all, Before(ends, j) + 1, ends[j] - 1), all[ends[j]])
<1>2. ResponsesOf(all) = [j \in 1..Len(ends) |-> One(j)] /\ Len(ends) \in Nat
  BY <1>1 DEF ResponsesOf
<1>3. ASSUME NEW j \in 1..Len(ends) PROVE One(j) \in AResponse
  <2>1. Before(ends, j) \in Nat /\ ends[j] \in 1..Len(all)
    <3>1. j # 1 => j - 1 \in 1..Len(ends)
      BY <1>2
    <3> QED BY <1>2, <3>1 DEF Before
  <2>2. ASSUME NEW a \in Nat, NEW b \in 1..Len(all)
        PROVE  SubSeq(all, a + 1, b - 1) \in Seq(ALine) /\ all[b] \in ALine
    OBVIOUS
  <2>3. /\ SubSeq(all, Before(ends, j) + 1, ends[j] - 1) \in Seq(ALine)
        /\ all[ends[j]] \in ALine
    BY <2>1, <2>2
  <2>4. PICK before \in Seq(ALine), end \in ALine :
            /\ before = SubSeq(all, Before(ends, j) + 1, ends[j] - 1)
            /\ end = all[ends[j]]
    BY <2>3
  <2>5. One(j) = Response(before, end)
    BY <2>4
  <2> HIDE DEF One
  <2> QED BY <2>5 DEF AResponse
<1> HIDE DEF One
<1>4. ResponsesOf(all) \in Seq(AResponse) /\ Len(ResponsesOf(all)) = Len(ends)
  BY <1>2, <1>3
<1> QED BY <1>1, <1>2, <1>4 DEF One

(* Text without a line end adds no line.                                   *)
LEMMA LinesSkip ==
    ASSUME NEW text \in TextChars, NEW rest \in TextChars, NoLF(rest)
    PROVE  LineEnds(text \o rest) = LineEnds(text) /\ LinesOf(text \o rest) = LinesOf(text)
<1> DEFINE both == text \o rest
<1>1. /\ both \in TextChars /\ Len(text) \in Nat /\ Len(both) \in Nat /\ Len(text) <= Len(both)
      /\ DOMAIN text = 1..Len(text) /\ DOMAIN both = 1..Len(both)
      /\ \A i \in 1..Len(text) : both[i] = text[i]
  BY DEF TextChars
<1>2. \A i \in (Len(text) + 1)..Len(both) : both[i] # "LF"
  <2> SUFFICES ASSUME NEW i \in (Len(text) + 1)..Len(both) PROVE both[i] # "LF"
    OBVIOUS
  <2>1. i - Len(text) \in 1..Len(rest) /\ both[i] = rest[i - Len(text)]
    BY DEF TextChars
  <2> HIDE DEF both
  <2> QED BY <2>1 DEF NoLF
<1> HIDE DEF both
<1>3. LineEnds(both) = LineEnds(text)
  <2> DEFINE marks == [i \in DOMAIN text |-> text[i] = "LF"]
             more  == [i \in DOMAIN both |-> both[i] = "LF"]
  <2>1. marks \in Marks /\ more \in Marks
    BY <1>1, EndsType
  <2>2. Len(marks) = Len(text) /\ Len(more) = Len(both)
    BY <1>1 DEF TextChars
  <2>3. /\ \A k \in 1..Len(text) : more[k] = marks[k]
        /\ \A k \in (Len(text) + 1)..Len(both) : ~more[k]
    <3>1. ASSUME NEW k \in 1..Len(text) PROVE more[k] = marks[k]
      <4>1. k \in DOMAIN text /\ k \in DOMAIN both /\ both[k] = text[k]
        BY <1>1
      <4> QED BY <4>1
    <3>2. ASSUME NEW k \in (Len(text) + 1)..Len(both) PROVE ~more[k]
      <4>1. k \in DOMAIN both /\ both[k] # "LF"
        BY <1>1, <1>2
      <4> QED BY <4>1
    <3> QED BY <3>1, <3>2
  <2> HIDE DEF marks, more
  <2>4. Positions(more) = Positions(marks)
    BY <1>1, <2>1, <2>2, <2>3, PositionsSkip
  <2> QED BY <2>4 DEF LineEnds, marks, more
<1>4. LinesOf(both) = LinesOf(text)
  <2>1. PICK ends \in Seq(1..Len(text)) : ends = LineEnds(text)
    BY EndsType
  <2>2. Len(ends) \in Nat /\ DOMAIN ends = 1..Len(ends)
    BY <2>1
  <2>3. ASSUME NEW k \in 1..Len(ends)
        PROVE  SubSeq(both, Before(ends, k) + 1, ends[k] - 1)
                 = SubSeq(text, Before(ends, k) + 1, ends[k] - 1)
    <3>1. Before(ends, k) \in Nat /\ ends[k] \in 1..Len(text)
      <4>1. k # 1 => k - 1 \in 1..Len(ends)
        BY <2>2
      <4> QED BY <2>2, <4>1 DEF Before
    <3>2. ASSUME NEW a \in Nat, NEW b \in 1..Len(text)
          PROVE  SubSeq(both, a + 1, b - 1) = SubSeq(text, a + 1, b - 1)
      <4>1. \A i \in (a + 1)..(b - 1) : i \in 1..Len(text) /\ both[i] = text[i]
        BY <1>1
      <4> QED BY <1>1, <4>1 DEF TextChars
    <3> QED BY <3>1, <3>2
  <2> QED BY <1>3, <2>1, <2>2, <2>3 DEF LinesOf
<1> QED BY <1>3, <1>4 DEF both

(* One element more, a line end or not, the end of a response or not.      *)
LEMMA LineEndsAppend ==
    ASSUME NEW text \in TextChars, NEW c \in Characters
    PROVE  LineEnds(Append(text, c)) =
             IF c = "LF" THEN Append(LineEnds(text), Len(text) + 1) ELSE LineEnds(text)
<1> DEFINE marks == [i \in DOMAIN text |-> text[i] = "LF"]
           more  == [i \in DOMAIN Append(text, c) |-> Append(text, c)[i] = "LF"]
<1>1. /\ Len(text) \in Nat /\ DOMAIN text = 1..Len(text)
      /\ DOMAIN Append(text, c) = 1..(Len(text) + 1)
      /\ \A i \in 1..(Len(text) + 1) :
           Append(text, c)[i] = IF i = Len(text) + 1 THEN c ELSE text[i]
  BY DEF TextChars
<1>2. /\ marks \in Marks /\ Len(marks) = Len(text)
      /\ more \in Marks /\ Len(more) = Len(text) + 1
  BY <1>1 DEF Marks
<1>3. /\ \A i \in 1..Len(text) : marks[i] = more[i]
      /\ more[Len(text) + 1] = (c = "LF")
  BY <1>1
<1> HIDE DEF marks, more
<1>4. Positions(more) = IF more[Len(text) + 1] THEN Append(Positions(marks), Len(text) + 1)
                        ELSE Positions(marks)
  BY <1>2, <1>3, PositionsAppend
<1> QED BY <1>3, <1>4 DEF LineEnds, marks, more

LEMMA ResponseEndsAppend ==
    ASSUME NEW all \in Seq(ALine), NEW line \in ALine
    PROVE  ResponseEnds(Append(all, line)) =
             IF IsEnd(line) THEN Append(ResponseEnds(all), Len(all) + 1) ELSE ResponseEnds(all)
<1> DEFINE marks == [k \in DOMAIN all |-> IsEnd(all[k])]
           more  == [k \in DOMAIN Append(all, line) |-> IsEnd(Append(all, line)[k])]
<1>0. \A x : IsEnd(x) \in BOOLEAN
  BY DEF IsEnd
<1>1. /\ Len(all) \in Nat /\ DOMAIN all = 1..Len(all)
      /\ DOMAIN Append(all, line) = 1..(Len(all) + 1)
      /\ \A i \in 1..(Len(all) + 1) :
           Append(all, line)[i] = IF i = Len(all) + 1 THEN line ELSE all[i]
  OBVIOUS
<1>2. /\ marks \in Marks /\ Len(marks) = Len(all)
      /\ more \in Marks /\ Len(more) = Len(all) + 1
  BY <1>0, <1>1 DEF Marks
<1>3. /\ \A i \in 1..Len(all) : marks[i] = more[i]
      /\ more[Len(all) + 1] = IsEnd(line)
  BY <1>1
<1> HIDE DEF marks, more
<1>4. Positions(more) = IF more[Len(all) + 1] THEN Append(Positions(marks), Len(all) + 1)
                        ELSE Positions(marks)
  BY <1>2, <1>3, PositionsAppend
<1> QED BY <1>3, <1>4 DEF ResponseEnds, marks, more

(* Where a closed text ends, its last line does.                           *)
LEMMA ClosedEnds ==
    ASSUME NEW text \in TextChars, Closed(text)
    PROVE  Before(LineEnds(text), Len(LineEnds(text)) + 1) = Len(text)
<1>1. CASE text = <<>>
  <2>1. LineEnds(text) \in Seq(1..0)
    <3>1. Len(text) = 0
      BY <1>1
    <3> QED BY <3>1, EndsType
  <2>2. Len(LineEnds(text)) = 0
    <3>1. ASSUME NEW s \in Seq(1..0), Len(s) # 0 PROVE FALSE
      <4>1. s[1] \in 1..0
        BY <3>1
      <4> QED BY <4>1
    <3> QED BY <2>1, <3>1
  <2> QED BY <1>1, <2>2 DEF Before
<1>2. CASE text # <<>>
  <2>1. PICK front \in TextChars : text = Append(front, "LF") /\ Len(text) = Len(front) + 1
    <3>1. PICK n \in Nat : Len(text) = n + 1
      BY <1>2 DEF TextChars
    <3> DEFINE front == SubSeq(text, 1, n)
    <3>2. /\ front \in TextChars /\ Len(front) = n
          /\ \A i \in 1..n : front[i] = text[i]
      BY <3>1 DEF TextChars
    <3>3. text[n + 1] = "LF" /\ "LF" \in Characters
      BY <1>2, <3>1 DEF Closed, Characters
    <3> HIDE DEF front
    <3>4. PICK f \in Seq(Characters) : f = front
      BY <3>2 DEF TextChars
    <3>5. /\ Append(f, "LF") \in Seq(Characters) /\ Len(Append(f, "LF")) = n + 1
          /\ \A i \in 1..n : Append(f, "LF")[i] = f[i]
          /\ Append(f, "LF")[n + 1] = "LF"
      BY <3>2, <3>3, <3>4
    <3>6. Append(f, "LF") = text
      <4>1. ASSUME NEW i \in 1..(n + 1) PROVE Append(f, "LF")[i] = text[i]
        <5>1. CASE i = n + 1
          BY <5>1, <3>3, <3>5
        <5>2. CASE i # n + 1
          <6>1. i \in 1..n
            BY <5>2
          <6> QED BY <6>1, <3>2, <3>4, <3>5
        <5> QED BY <5>1, <5>2
      <4> QED BY <3>1, <3>5, <4>1 DEF TextChars
    <3> QED BY <3>1, <3>2, <3>4, <3>6
  <2>2. LineEnds(text) = Append(LineEnds(front), Len(front) + 1)
    BY <2>1, LineEndsAppend DEF Characters
  <2>3. PICK ends \in Seq(1..Len(front)) : ends = LineEnds(front)
    BY EndsType
  <2>4. PICK n \in Nat : n = Len(front) + 1
    BY DEF TextChars
  <2>5. Len(Append(ends, n)) \in Nat /\ Len(Append(ends, n)) # 0
        /\ Append(ends, n)[Len(Append(ends, n))] = n
    BY <2>3
  <2>6. Before(Append(ends, n), Len(Append(ends, n)) + 1) = n
    BY <2>5 DEF Before
  <2> QED BY <2>1, <2>2, <2>3, <2>4, <2>6
<1> QED BY <1>1, <1>2

(* A line end closes one line more.                                        *)
LEMMA LinesTake ==
    ASSUME NEW text \in TextChars, Closed(text), NEW line \in TextChars, NoLF(line)
    PROVE  LET whole == Append(text \o line, "LF")
           IN  whole \in TextChars /\ Closed(whole)
               /\ LinesOf(whole) = Append(LinesOf(text), RStrip(line)) /\ RStrip(line) \in ALine
<1> DEFINE whole == Append(text \o line, "LF")
<1>1. PICK n \in Nat, m \in Nat : n = Len(text) /\ m = Len(line)
  BY DEF TextChars
<1>2. /\ text \o line \in TextChars /\ "LF" \in Characters /\ Len(text \o line) = n + m
      /\ whole \in TextChars /\ Len(whole) = n + m + 1 /\ whole[n + m + 1] = "LF"
      /\ \A i \in 1..n : whole[i] = text[i]
      /\ \A i \in 1..m : whole[n + i] = line[i]
  BY <1>1 DEF TextChars, Characters
<1>3. Closed(whole)
  BY <1>2 DEF Closed
<1>4. PICK ends \in Seq(1..n) : ends = LineEnds(text) /\ Before(ends, Len(ends) + 1) = n
  BY <1>1, EndsType, ClosedEnds
<1>5. LineEnds(whole) = Append(ends, n + m + 1)
  BY <1>2, <1>4, LinesSkip, LineEndsAppend
<1> HIDE DEF whole
<1>6. PICK e \in Nat : e = Len(ends)
  OBVIOUS
<1> DEFINE new == Append(ends, n + m + 1)
<1>7. /\ Len(new) = e + 1 /\ new[e + 1] = n + m + 1 /\ \A k \in 1..e : new[k] = ends[k]
      /\ \A k \in 1..e : ends[k] \in 1..n
  BY <1>6
<1>8. \A k \in 1..(e + 1) : Before(new, k) = Before(ends, k)
  <2>1. \A k \in 1..(e + 1) : k # 1 => k - 1 \in 1..e
    BY <1>6
  <2> HIDE DEF new
  <2> QED BY <1>7, <2>1 DEF Before
<1> HIDE DEF new
<1>9. \A k \in 1..e : Before(ends, k) \in 0..n
  <2>1. \A k \in 1..e : k # 1 => k - 1 \in 1..e
    BY <1>6
  <2> QED BY <1>7, <2>1 DEF Before
<1>10. RStrip(line) \in ALine
  BY DEF ALine
<1>11. PICK old \in Seq(ALine), all \in Seq(ALine) :
          /\ old = LinesOf(text) /\ Len(old) = e
          /\ all = LinesOf(whole) /\ Len(all) = e + 1
          /\ \A k \in 1..e : old[k] = RStrip(SubSeq(text, Before(ends, k) + 1, ends[k] - 1))
          /\ \A k \in 1..(e + 1) :
                all[k] = RStrip(SubSeq(whole, Before(new, k) + 1, new[k] - 1))
  <2>1. /\ LinesOf(text) \in Seq(ALine) /\ Len(LinesOf(text)) = e
        /\ \A k \in 1..e :
             LinesOf(text)[k] = RStrip(SubSeq(text, Before(ends, k) + 1, ends[k] - 1))
    BY <1>4, <1>6, LinesType
  <2>2. LineEnds(whole) = new
    BY <1>5 DEF new
  <2>3. /\ LinesOf(whole) \in Seq(ALine) /\ Len(LinesOf(whole)) = e + 1
        /\ \A k \in 1..(e + 1) :
             LinesOf(whole)[k] = RStrip(SubSeq(whole, Before(new, k) + 1, new[k] - 1))
    BY <1>2, <1>7, <2>2, LinesType
  <2> QED BY <2>1, <2>3
<1>12. ASSUME NEW k \in 1..e PROVE all[k] = old[k]
  <2>1. ASSUME NEW a \in 0..n, NEW b \in 1..n
        PROVE  SubSeq(whole, a + 1, b - 1) = SubSeq(text, a + 1, b - 1)
    <3>1. \A i \in (a + 1)..(b - 1) : i \in 1..n /\ whole[i] = text[i]
      BY <1>2
    <3>2. /\ whole \in Seq(Characters) /\ text \in Seq(Characters)
          /\ Len(whole) = n + m + 1 /\ Len(text) = n
      BY <1>1, <1>2 DEF TextChars
    <3> QED BY <3>1, <3>2, SubSeqAgree
  <2>2. SubSeq(whole, Before(ends, k) + 1, ends[k] - 1)
          = SubSeq(text, Before(ends, k) + 1, ends[k] - 1)
    BY <1>7, <1>9, <2>1
  <2>3. k \in 1..(e + 1)
    BY <1>6
  <2> QED BY <1>7, <1>8, <1>11, <2>2, <2>3
<1>13. all[e + 1] = RStrip(line)
  <2>1. SubSeq(whole, n + 1, (n + m + 1) - 1) = line
    <3>1. /\ SubSeq(whole, n + 1, n + m) \in Seq(Characters)
          /\ Len(SubSeq(whole, n + 1, n + m)) = m
          /\ \A i \in 1..m : SubSeq(whole, n + 1, n + m)[i] = whole[n + i]
      BY <1>2 DEF TextChars
    <3>2. SubSeq(whole, n + 1, n + m) = line
      <4>1. PICK s \in Seq(Characters) : s = SubSeq(whole, n + 1, n + m)
        BY <3>1
      <4>2. Len(s) = m /\ \A i \in 1..m : s[i] = line[i]
        BY <1>2, <3>1, <4>1
      <4>3. s = line
        <5>1. ASSUME NEW t \in Seq(Characters), NEW u \in Seq(Characters),
                     Len(t) = Len(u), \A i \in 1..Len(u) : t[i] = u[i]
              PROVE  t = u
          BY <5>1
        <5>2. line \in Seq(Characters) /\ Len(line) = m
          BY <1>1 DEF TextChars
        <5> QED BY <4>2, <5>1, <5>2
      <4> QED BY <4>1, <4>3
    <3>3. (n + m + 1) - 1 = n + m
      OBVIOUS
    <3> QED BY <3>2, <3>3
  <2>2. e + 1 \in 1..(e + 1)
    BY <1>6
  <2>3. Before(new, e + 1) = n
    BY <1>4, <1>6, <1>8, <2>2
  <2> QED BY <1>7, <1>11, <2>1, <2>2, <2>3
<1>14. all = Append(old, RStrip(line))
  BY <1>6, <1>10, <1>11, <1>12, <1>13
<1> QED BY <1>2, <1>3, <1>10, <1>11, <1>14 DEF whole

(* A line more ends a response, or is kept for the next.                   *)
LEMMA ResponsesTake ==
    ASSUME NEW all \in Seq(ALine), NEW line \in ALine
    PROVE  LET more == Append(all, line)
               since == Since(ResponseEnds(all), all)
           IN  /\ since \in Seq(ALine)
               /\ IsEnd(line) =>
                    /\ ResponsesOf(more) = Append(ResponsesOf(all), Response(since, line))
                    /\ Since(ResponseEnds(more), more) = <<>>
               /\ ~IsEnd(line) =>
                    /\ ResponsesOf(more) = ResponsesOf(all)
                    /\ Since(ResponseEnds(more), more) = Append(since, line)
<1> DEFINE more == Append(all, line)
           since == Since(ResponseEnds(all), all)
<1>1. PICK n \in Nat : n = Len(all)
  OBVIOUS
<1>2. /\ more \in Seq(ALine) /\ Len(more) = n + 1 /\ more[n + 1] = line
      /\ \A i \in 1..n : more[i] = all[i]
  BY <1>1
<1>3. PICK ends \in Seq(1..n) : ends = ResponseEnds(all)
  BY <1>1, EndsType
<1>4. PICK e \in Nat : e = Len(ends)
  OBVIOUS
<1>5. \A j \in 1..e : ends[j] \in 1..n
  BY <1>4
<1>6. \A j \in 1..(e + 1) : Before(ends, j) \in 0..n
  <2>1. \A j \in 1..(e + 1) : j # 1 => j - 1 \in 1..e
    BY <1>4
  <2> QED BY <1>5, <2>1 DEF Before
<1> HIDE DEF more
<1>7. ASSUME NEW a \in 0..n, NEW b \in 0..n
      PROVE  SubSeq(more, a + 1, b) = SubSeq(all, a + 1, b)
  <2>1. \A i \in (a + 1)..b : more[i] = all[i]
    BY <1>2
  <2> QED BY <1>1, <1>2, <2>1, SubSeqAgree
<1>8. PICK b \in 0..n : b = Before(ends, e + 1)
  <2>1. e + 1 \in 1..(e + 1)
    BY <1>4
  <2> QED BY <1>6, <2>1
<1>9. since = SubSeq(all, b + 1, n) /\ since \in Seq(ALine)
  BY <1>1, <1>3, <1>4, <1>8 DEF Since
<1>10. PICK old \in Seq(AResponse) :
          /\ old = ResponsesOf(all) /\ Len(old) = e
          /\ \A j \in 1..e : old[j] = Response(SubSeq(all, Before(ends, j) + 1, ends[j] - 1),
                                               all[ends[j]])
  BY <1>3, <1>4, ResponsesType
<1> DEFINE new == ResponseEnds(more)
<1>11. PICK f \in Seq(AResponse) :
          /\ f = ResponsesOf(more) /\ Len(f) = Len(new)
          /\ \A j \in 1..Len(new) : f[j] = Response(SubSeq(more, Before(new, j) + 1, new[j] - 1),
                                                    more[new[j]])
  BY <1>2, ResponsesType
<1> HIDE DEF new
<1>12. ASSUME NEW j \in 1..e, j \in 1..Len(new), new[j] = ends[j], Before(new, j) = Before(ends, j)
       PROVE  f[j] = old[j]
  <2>1. Before(ends, j) \in 0..n /\ ends[j] \in 1..n /\ ends[j] - 1 \in 0..n
    BY <1>4, <1>5, <1>6
  <2>2. SubSeq(more, Before(ends, j) + 1, ends[j] - 1)
          = SubSeq(all, Before(ends, j) + 1, ends[j] - 1)
    BY <1>7, <2>1
  <2>3. more[ends[j]] = all[ends[j]]
    BY <1>2, <2>1
  <2> QED BY <1>10, <1>11, <1>12, <2>2, <2>3
<1>13. ASSUME IsEnd(line)
       PROVE  /\ f = Append(old, Response(since, line))
              /\ Since(new, more) = <<>>
  <2>1. new = Append(ends, n + 1)
    BY <1>1, <1>3, <1>11, <1>13, ResponseEndsAppend DEF more, new
  <2>2. /\ Len(new) = e + 1 /\ new[e + 1] = n + 1 /\ \A j \in 1..e : new[j] = ends[j]
    BY <1>4, <2>1
  <2>3. \A j \in 1..(e + 1) : Before(new, j) = Before(ends, j)
    <3>1. \A j \in 1..(e + 1) : j # 1 => j - 1 \in 1..e
      BY <1>4
    <3> QED BY <2>2, <3>1 DEF Before
  <2>4. \A j \in 1..e : j \in 1..(e + 1) /\ f[j] = old[j]
    <3> SUFFICES ASSUME NEW j \in 1..e PROVE j \in 1..(e + 1) /\ f[j] = old[j]
      OBVIOUS
    <3>1. j \in 1..(e + 1)
      BY <1>4
    <3> QED BY <1>12, <2>2, <2>3, <3>1
  <2>5. f[e + 1] = Response(since, line)
    <3>1. e + 1 \in 1..(e + 1) /\ n \in 0..n /\ (n + 1) - 1 = n
      BY <1>4
    <3>2. SubSeq(more, b + 1, n) = SubSeq(all, b + 1, n)
      BY <1>7, <3>1
    <3>3. f[e + 1] = Response(SubSeq(more, b + 1, (n + 1) - 1), more[n + 1])
      BY <1>8, <1>11, <2>2, <2>3, <3>1
    <3> QED BY <1>2, <1>9, <3>1, <3>2, <3>3
  <2>6. Response(since, line) \in AResponse
    <3>1. PICK before \in Seq(ALine) : before = since
      BY <1>9
    <3> QED BY <3>1 DEF AResponse
  <2>7. f = Append(old, Response(since, line))
    <3>1. PICK r \in AResponse : r = Response(since, line)
      BY <2>6
    <3>2. ASSUME NEW s \in Seq(AResponse), NEW t \in Seq(AResponse), NEW x \in AResponse,
                 Len(t) = e, Len(s) = e + 1, s[e + 1] = x, \A j \in 1..e : s[j] = t[j]
          PROVE  s = Append(t, x)
      BY <3>2
    <3> QED BY <1>10, <1>11, <2>2, <2>4, <2>5, <3>1, <3>2
  <2>8. Since(new, more) = <<>>
    <3>1. Before(new, (e + 1) + 1) = n + 1
      BY <1>4, <2>2 DEF Before
    <3>2. Since(new, more) = SubSeq(more, (n + 1) + 1, n + 1)
      BY <1>2, <2>2, <3>1 DEF Since
    <3> QED BY <1>2, <3>2
  <2> QED BY <2>7, <2>8
<1>14. ASSUME ~IsEnd(line)
       PROVE  /\ f = old
              /\ Since(new, more) = Append(since, line)
  <2>1. new = ends
    BY <1>1, <1>3, <1>11, <1>14, ResponseEndsAppend DEF more, new
  <2>2. \A j \in 1..e : f[j] = old[j]
    BY <1>4, <1>12, <2>1
  <2>3. f = old
    <3>1. ASSUME NEW s \in Seq(AResponse), NEW t \in Seq(AResponse),
                 Len(s) = e, Len(t) = e, \A j \in 1..e : s[j] = t[j]
          PROVE  s = t
      BY <3>1
    <3> QED BY <1>4, <1>10, <1>11, <2>1, <2>2, <3>1
  <2>4. Since(new, more) = SubSeq(more, b + 1, n + 1)
    BY <1>2, <1>4, <1>8, <2>1 DEF Since
  <2>5. SubSeq(more, b + 1, n + 1) = Append(SubSeq(all, b + 1, n), line)
    <3>1. ASSUME NEW s \in Seq(ALine), NEW t \in Seq(ALine), Len(t) = n, Len(s) = n + 1,
                 \A k \in 1..n : s[k] = t[k], s[n + 1] = line
          PROVE  SubSeq(s, b + 1, n + 1) = Append(SubSeq(t, b + 1, n), line)
      BY <3>1
    <3> QED BY <1>1, <1>2, <3>1
  <2> QED BY <1>9, <2>3, <2>4, <2>5
<1> QED BY <1>9, <1>10, <1>11, <1>13, <1>14 DEF more, new

(* find("\n"): the first line end, if there is one.                        *)
LEMMA FirstLFIs ==
    ASSUME NEW text \in TextChars
    PROVE  /\ FirstLF(text) \in 0..Len(text)
           /\ FirstLF(text) = 0 => NoLF(text)
           /\ FirstLF(text) # 0 => /\ text[FirstLF(text)] = "LF"
                                   /\ \A i \in 1..(FirstLF(text) - 1) : text[i] # "LF"
<1> DEFINE LFs == {i \in 1..Len(text) : text[i] = "LF"}
           least == CHOOSE i \in LFs : \A j \in LFs : i <= j
<1>1. FirstLF(text) = IF LFs # {} THEN least ELSE 0
  BY DEF FirstLF, SelectInSeq, Min
<1>2. CASE LFs = {}
  <2>1. FirstLF(text) = 0 /\ Len(text) \in Nat
    BY <1>1, <1>2 DEF TextChars
  <2>2. NoLF(text)
    BY <1>2 DEF NoLF
  <2> QED BY <2>1, <2>2
<1>3. CASE LFs # {}
  <2>1. LFs \in SUBSET Nat
    OBVIOUS
  <2>2. \E i \in LFs : \A j \in LFs : i <= j
    BY <1>3, <2>1, Least
  <2>3. least \in LFs /\ \A j \in LFs : least <= j
    BY <2>2
  <2> HIDE DEF least
  <2>4. PICK n \in LFs : n = FirstLF(text) /\ \A j \in LFs : n <= j
    BY <1>1, <1>3, <2>3
  <2>5. n \in 1..Len(text) /\ text[n] = "LF" /\ Len(text) \in Nat
    BY DEF TextChars
  <2>6. \A i \in 1..(n - 1) : text[i] # "LF"
    <3> SUFFICES ASSUME NEW i \in 1..(n - 1), text[i] = "LF" PROVE FALSE
      OBVIOUS
    <3>1. i \in 1..Len(text) /\ ~(n <= i)
      BY <2>5
    <3> QED BY <2>4, <3>1
  <2> QED BY <2>4, <2>5, <2>6
<1> QED BY <1>2, <1>3

(* The text seen so far is X, of whole lines, and what the buffer holds;   *)
(* the responses emitted and the lines kept are those of X.                *)
Parser == [buffer : TextChars, lines : Seq(ALine), emitted : Seq(AResponse)]

HasTaken(p, X) ==
    /\ X \in TextChars /\ Closed(X)
    /\ p.emitted = ResponsesOf(LinesOf(X))
    /\ p.lines = Since(ResponseEnds(LinesOf(X)), LinesOf(X))

Parses(p, text) == \E X : HasTaken(p, X) /\ text = X \o p.buffer

(* A turn takes a line off the buffer, and has then parsed that line too.  *)
LEMMA TakeLineParses ==
    ASSUME NEW p \in Parser, NEW text \in TextChars, Parses(p, text)
    PROVE  /\ TakeLine(p) \in Parser /\ Parses(TakeLine(p), text)
           /\ NoLF(p.buffer) => TakeLine(p) = p
           /\ ~NoLF(p.buffer) => Len(TakeLine(p).buffer) < Len(p.buffer)
<1>1. PICK b \in Seq(Characters) : b = p.buffer /\ b \in TextChars
  BY DEF Parser, TextChars
<1>2. PICK n \in 0..Len(b) :
        /\ n = FirstLF(b)
        /\ n = 0 => NoLF(b)
        /\ n # 0 => b[n] = "LF" /\ \A i \in 1..(n - 1) : b[i] # "LF"
  BY <1>1, FirstLFIs
<1>3. n = 0 <=> NoLF(b)
  <2>1. n # 0 => n \in 1..Len(b)
    OBVIOUS
  <2> QED BY <1>2, <2>1 DEF NoLF
<1>4. CASE n = 0
  <2>1. TakeLine(p) = p
    BY <1>1, <1>2, <1>4 DEF TakeLine
  <2> QED BY <1>1, <1>3, <1>4, <2>1
<1>5. CASE n # 0
  <2> DEFINE cut  == SubSeq(b, 1, n - 1)
             rest == SubSeq(b, n + 1, Len(b))
             line == RStrip(cut)
  <2>1. PICK X : HasTaken(p, X) /\ text = X \o p.buffer
    BY DEF Parses
  <2>2. n \in 1..Len(b) /\ Len(b) \in Nat
    BY <1>5
  <2>3. /\ cut \in Seq(Characters) /\ rest \in Seq(Characters)
        /\ Len(cut) = n - 1 /\ Len(rest) = Len(b) - n
        /\ \A i \in 1..(n - 1) : cut[i] = b[i]
        /\ \A i \in 1..(Len(b) - n) : rest[i] = b[n + i]
    BY <2>2
  <2>4. PICK c \in TextChars, r \in TextChars : c = cut /\ r = rest
    BY <2>3 DEF TextChars
  <2>5. NoLF(c)
    <3> HIDE DEF cut
    <3> QED BY <1>2, <1>5, <2>3, <2>4 DEF NoLF
  <2> DEFINE whole == Append(X \o c, "LF")
             all   == LinesOf(X)
             since == Since(ResponseEnds(all), all)
  <2>6. /\ whole \in TextChars /\ Closed(whole)
        /\ LinesOf(whole) = Append(all, RStrip(c)) /\ RStrip(c) \in ALine
    BY <2>1, <2>4, <2>5, LinesTake DEF HasTaken
  <2>7. text = whole \o r
    <3>1. ASSUME NEW x \in Seq(Characters)
          PROVE  x \o b = Append(x \o cut, "LF") \o rest
      <4>1. "LF" \in Characters
        BY DEF Characters
      <4> DEFINE u == x \o b
                 v == Append(x \o cut, "LF")
                 w == v \o rest
      <4>2. PICK k \in Nat : k = Len(x)
        OBVIOUS
      <4>3. /\ u \in Seq(Characters) /\ Len(u) = k + Len(b)
            /\ \A i \in 1..(k + Len(b)) : u[i] = IF i <= k THEN x[i] ELSE b[i - k]
        BY <2>2, <4>2
      <4> HIDE DEF cut, rest
      <4>4. /\ v \in Seq(Characters) /\ Len(v) = k + n
            /\ \A i \in 1..(k + n) : v[i] = IF i <= k THEN x[i]
                                            ELSE IF i = k + n THEN "LF" ELSE cut[i - k]
        <5> DEFINE d == x \o cut
        <5>1. PICK l \in Nat : l = n - 1 /\ Len(cut) = l
          BY <2>2, <2>3
        <5> HIDE DEF cut
        <5>2. cut \in Seq(Characters)
          BY <2>3
        <5>3. /\ d \in Seq(Characters) /\ Len(d) = k + l
              /\ \A i \in 1..(k + l) : d[i] = IF i <= k THEN x[i] ELSE cut[i - k]
          BY <4>2, <5>1, <5>2
        <5> HIDE DEF d
        <5>4. /\ Append(d, "LF") \in Seq(Characters) /\ Len(Append(d, "LF")) = k + l + 1
              /\ \A i \in 1..(k + l + 1) :
                   Append(d, "LF")[i] = IF i = k + l + 1 THEN "LF" ELSE d[i]
          BY <4>1, <5>3
        <5>5. /\ v = Append(d, "LF") /\ k + l + 1 = k + n
          BY <5>1 DEF d
        <5>6. ASSUME NEW i \in 1..(k + n)
              PROVE  v[i] = IF i <= k THEN x[i] ELSE IF i = k + n THEN "LF" ELSE cut[i - k]
          <6>1. CASE i = k + n
            <7>1. ~(i <= k) /\ i \in 1..(k + l + 1) /\ i = k + l + 1
              BY <2>2, <5>1, <6>1
            <7> HIDE DEF v
            <7> QED BY <5>4, <5>5, <6>1, <7>1
          <6>2. CASE i # k + n
            <7>1. i \in 1..(k + l + 1) /\ i # k + l + 1 /\ i \in 1..(k + l)
              BY <2>2, <5>1, <6>2
            <7> HIDE DEF v
            <7> QED BY <5>3, <5>4, <5>5, <6>2, <7>1
          <6> QED BY <6>1, <6>2
        <5> HIDE DEF v
        <5> QED BY <5>4, <5>5, <5>6
      <4> HIDE DEF v
      <4>5. /\ w \in Seq(Characters) /\ Len(w) = k + Len(b)
            /\ \A i \in 1..(k + Len(b)) : w[i] = IF i <= k + n THEN v[i] ELSE rest[i - (k + n)]
        <5>1. PICK l \in Nat : l = Len(rest) /\ (k + n) + l = k + Len(b)
          <6>1. PICK h \in Nat : h = Len(b)
            BY <2>2
          <6>2. Len(rest) = h - n /\ n \in 1..h
            BY <2>2, <2>3, <6>1
          <6>3. h - n \in Nat /\ (k + n) + (h - n) = k + h
            BY <6>2
          <6> QED BY <6>1, <6>2, <6>3
        <5>2. PICK m \in Nat : m = k + n
          BY <2>2
        <5>3. /\ w \in Seq(Characters) /\ Len(w) = m + l
              /\ \A i \in 1..(m + l) : w[i] = IF i <= m THEN v[i] ELSE rest[i - m]
          <6>1. v \in Seq(Characters) /\ Len(v) = m
            BY <4>4, <5>2
          <6>2. rest \in Seq(Characters)
            BY <2>3
          <6>3. PICK y \in Seq(Characters), z \in Seq(Characters) :
                    y = v /\ z = rest /\ Len(y) = m /\ Len(z) = l
            BY <5>1, <6>1, <6>2
          <6>4. /\ y \o z \in Seq(Characters) /\ Len(y \o z) = m + l
                /\ \A i \in 1..(m + l) : (y \o z)[i] = IF i <= m THEN y[i] ELSE z[i - m]
            BY <6>3
          <6> QED BY <6>3, <6>4
        <5> HIDE DEF w
        <5> QED BY <5>1, <5>2, <5>3
      <4> HIDE DEF u, w
      <4>6. ASSUME NEW i \in 1..(k + Len(b)) PROVE u[i] = w[i]
        <5>1. CASE i <= k
          <6>1. i \in 1..(k + n)
            BY <2>2, <5>1
          <6> QED BY <4>3, <4>4, <4>5, <5>1, <6>1
        <5>2. CASE i > k /\ i < k + n
          <6>1. i \in 1..(k + n) /\ i - k \in 1..(n - 1) /\ ~(i <= k) /\ i # k + n /\ i <= k + n
            BY <2>2, <5>2
          <6> QED BY <2>3, <4>3, <4>4, <4>5, <6>1
        <5>3. CASE i = k + n
          <6>1. i \in 1..(k + n) /\ i - k = n /\ ~(i <= k) /\ i <= k + n
            BY <2>2, <5>3
          <6> QED BY <1>2, <1>5, <4>3, <4>4, <4>5, <5>3, <6>1
        <5>4. CASE i > k + n
          <6>1. /\ i - (k + n) \in 1..(Len(b) - n) /\ ~(i <= k) /\ ~(i <= k + n)
                /\ n + (i - (k + n)) = i - k
            BY <2>2, <5>4
          <6> QED BY <2>3, <4>3, <4>5, <6>1
        <5> QED BY <2>2, <5>1, <5>2, <5>3, <5>4
      <4>7. u = w
        <5>1. ASSUME NEW y \in Seq(Characters), NEW z \in Seq(Characters), NEW m \in Nat,
                     Len(y) = m, Len(z) = m, \A i \in 1..m : y[i] = z[i]
              PROVE  y = z
          BY <5>1
        <5>2. k + Len(b) \in Nat
          BY <2>2
        <5> QED BY <4>3, <4>5, <4>6, <5>1, <5>2
      <4> QED BY <4>7 DEF u, v, w
    <3> HIDE DEF cut, rest
    <3>2. X \in Seq(Characters)
      BY <2>1 DEF HasTaken, TextChars
    <3> QED BY <1>1, <2>1, <2>4, <3>1, <3>2
  <2>8. all \in Seq(ALine)
    BY <2>1, LinesType DEF HasTaken
  <2> DEFINE q == TakeLine(p)
  <2>9. q = IF IsEnd(RStrip(c))
            THEN [buffer |-> r, lines |-> <<>>,
                  emitted |-> Append(p.emitted, Response(p.lines, RStrip(c)))]
            ELSE [p EXCEPT !.buffer = r, !.lines = Append(@, RStrip(c))]
    BY <1>1, <1>2, <1>5, <2>4 DEF TakeLine, Turn
  <2>10. p.emitted = ResponsesOf(all) /\ p.lines = since /\ since \in Seq(ALine)
    BY <2>1, <2>8, ResponsesTake, <2>6 DEF HasTaken
  <2> HIDE DEF cut, rest, q, all, since, whole
  <2>11. PICK l \in ALine : l = RStrip(c)
    BY <2>6
  <2>12. q \in Parser /\ HasTaken(q, whole) /\ q.buffer = r
    <3>1. CASE IsEnd(l)
      <4>1. q = [buffer |-> r, lines |-> <<>>, emitted |-> Append(p.emitted, Response(p.lines, l))]
        BY <2>9, <2>11, <3>1
      <4>2. Response(since, l) \in AResponse
        <5>1. PICK before \in Seq(ALine) : before = since
          BY <2>10
        <5> QED BY <5>1 DEF AResponse
      <4>3. Append(p.emitted, Response(p.lines, l)) \in Seq(AResponse)
        <5>1. p.emitted \in Seq(AResponse)
          BY DEF Parser
        <5>2. PICK x \in AResponse : x = Response(p.lines, l)
          BY <2>10, <4>2
        <5> QED BY <5>1, <5>2
      <4>4. q \in Parser
        BY <4>1, <4>3 DEF Parser
      <4>5. /\ ResponsesOf(Append(all, l)) = Append(ResponsesOf(all), Response(since, l))
            /\ Since(ResponseEnds(Append(all, l)), Append(all, l)) = <<>>
        BY <2>8, <3>1, ResponsesTake DEF since
      <4>6. LinesOf(whole) = Append(all, l)
        BY <2>6, <2>11
      <4>7. q.emitted = ResponsesOf(LinesOf(whole)) /\ q.lines = <<>> /\ q.buffer = r
        BY <2>10, <4>1, <4>5, <4>6
      <4> QED BY <2>6, <4>4, <4>5, <4>6, <4>7 DEF HasTaken
    <3>2. CASE ~IsEnd(l)
      <4>1. q = [p EXCEPT !.buffer = r, !.lines = Append(@, l)]
        BY <2>9, <2>11, <3>2
      <4>2. q.buffer = r /\ q.lines = Append(p.lines, l) /\ q.emitted = p.emitted
        BY <4>1 DEF Parser
      <4>3. Append(p.lines, l) \in Seq(ALine)
        BY <2>10
      <4>4. q \in Parser
        BY <4>1, <4>3 DEF Parser
      <4>5. /\ ResponsesOf(Append(all, l)) = ResponsesOf(all)
            /\ Since(ResponseEnds(Append(all, l)), Append(all, l)) = Append(since, l)
        BY <2>8, <3>2, ResponsesTake DEF since
      <4>6. LinesOf(whole) = Append(all, l)
        BY <2>6, <2>11
      <4>7. q.emitted = ResponsesOf(LinesOf(whole))
        BY <2>10, <4>2, <4>5, <4>6
      <4>8. q.lines = Since(ResponseEnds(LinesOf(whole)), LinesOf(whole))
        BY <2>10, <4>2, <4>5, <4>6
      <4> QED BY <2>6, <4>2, <4>4, <4>7, <4>8 DEF HasTaken
    <3> QED BY <3>1, <3>2
  <2>13. Parses(q, text)
    BY <2>7, <2>12 DEF Parses
  <2>14. Len(q.buffer) < Len(b)
    <3>1. Len(r) < Len(b)
      BY <2>2, <2>3, <2>4
    <3> QED BY <2>12, <3>1
  <2> QED BY <1>1, <1>3, <1>5, <2>12, <2>13, <2>14 DEF q
<1> QED BY <1>4, <1>5

(* The loop: after as many turns as there are characters, no line is left. *)
TurnsUpTo(f, p, N) == f = [n \in 0..N |-> IF n = 0 THEN p ELSE TakeLine(f[n - 1])]

LEMMA TurnsExist ==
    ASSUME NEW p, NEW N \in Nat
    PROVE  \E f : TurnsUpTo(f, p, N)
<1> DEFINE Missing == {m \in Nat : ~ \E f : TurnsUpTo(f, p, m)}
<1>1. ASSUME NEW m \in Missing, \A k \in Missing : m <= k PROVE FALSE
  <2>1. CASE m = 0
    <3> DEFINE f == [n \in 0..0 |-> p]
    <3>1. TurnsUpTo(f, p, 0)
      BY DEF TurnsUpTo
    <3> QED BY <2>1, <3>1
  <2>2. CASE m # 0
    <3>1. m - 1 \in Nat /\ m \in Nat /\ m - 1 \notin Missing
      <4>1. m \in Nat /\ m - 1 \in Nat /\ ~(m <= m - 1)
        BY <2>2
      <4> HIDE DEF Missing
      <4> QED BY <1>1, <4>1
    <3>2. PICK f : TurnsUpTo(f, p, m - 1)
      BY <3>1
    <3> DEFINE One(h, n) == IF n = 0 THEN p ELSE TakeLine(h[n - 1])
               g == [n \in 0..m |-> One(f, n)]
    <3>3. ASSUME NEW n \in 0..(m - 1) PROVE g[n] = f[n]
      <4>1. f[n] = One(f, n)
        BY <3>2 DEF TurnsUpTo
      <4>2. n \in 0..m
        BY <3>1
      <4> HIDE DEF One
      <4> QED BY <4>1, <4>2
    <3>4. ASSUME NEW n \in 0..m PROVE One(f, n) = One(g, n)
      <4>1. CASE n = 0
        BY <4>1
      <4>2. CASE n # 0
        <5>1. n - 1 \in 0..(m - 1)
          BY <3>1, <4>2
        <5> HIDE DEF g
        <5>2. g[n - 1] = f[n - 1]
          BY <3>3, <5>1
        <5> QED BY <5>2
      <4> QED BY <4>1, <4>2
    <3>5. g = [n \in 0..m |-> One(g, n)]
      <4> HIDE DEF One
      <4> QED BY <3>4
    <3>6. TurnsUpTo(g, p, m)
      <4> HIDE DEF g
      <4> QED BY <3>5 DEF TurnsUpTo
    <3> HIDE DEF g
    <3> QED BY <3>6
  <2> QED BY <2>1, <2>2
<1>2. Missing = {}
  <2> HIDE DEF Missing
  <2>1. Missing \in SUBSET Nat
    BY DEF Missing
  <2> QED BY <1>1, <2>1, Least
<1> QED BY <1>2

LEMMA DrainParses ==
    ASSUME NEW p \in Parser, NEW text \in TextChars, Parses(p, text)
    PROVE  Drain(p) \in Parser /\ Parses(Drain(p), text) /\ NoLF(Drain(p).buffer)
<1>1. PICK N \in Nat : N = Len(p.buffer)
  BY DEF Parser, TextChars
<1>2. PICK f : TurnsUpTo(f, p, N) /\ Drain(p) = f[N]
  <2>1. \E f : TurnsUpTo(f, p, N)
    BY TurnsExist
  <2> DEFINE g == CHOOSE f : TurnsUpTo(f, p, N)
  <2>2. TurnsUpTo(g, p, N)
    BY <2>1
  <2>3. Drain(p) = g[N]
    BY <1>1 DEF Drain, TurnsUpTo
  <2> HIDE DEF g
  <2> QED BY <2>2, <2>3
<1> DEFINE Fine(k) == /\ f[k] \in Parser /\ Parses(f[k], text)
                      /\ NoLF(f[k].buffer) \/ Len(f[k].buffer) <= N - k
           Odd == {k \in 0..N : ~Fine(k)}
<1>3. ASSUME NEW k \in Odd, \A j \in Odd : k <= j PROVE FALSE
  <2>1. k \in 0..N /\ ~Fine(k)
    OBVIOUS
  <2>2. CASE k = 0
    <3>1. f[0] = p
      <4>1. 0 \in 0..N
        OBVIOUS
      <4> QED BY <1>2, <4>1 DEF TurnsUpTo
    <3>2. Len(f[0].buffer) <= N - 0
      BY <1>1, <3>1
    <3> QED BY <2>1, <2>2, <3>1, <3>2
  <2>3. CASE k # 0
    <3>1. k - 1 \in 0..N /\ ~(k <= k - 1) /\ k \in 1..N
      BY <2>1, <2>3
    <3>2. Fine(k - 1)
      <4> HIDE DEF Fine
      <4> QED BY <1>3, <3>1
    <3>3. f[k] = TakeLine(f[k - 1])
      BY <1>2, <2>1, <2>3 DEF TurnsUpTo
    <3>4. PICK s \in Parser : /\ s = f[k - 1] /\ Parses(s, text)
                              /\ NoLF(s.buffer) \/ Len(s.buffer) <= N - (k - 1)
      BY <3>2
    <3>5. /\ TakeLine(s) \in Parser /\ Parses(TakeLine(s), text)
          /\ NoLF(s.buffer) => TakeLine(s) = s
          /\ ~NoLF(s.buffer) => Len(TakeLine(s).buffer) < Len(s.buffer)
      BY <3>4, TakeLineParses
    <3>6. NoLF(TakeLine(s).buffer) \/ Len(TakeLine(s).buffer) <= N - k
      <4>1. CASE NoLF(s.buffer)
        BY <3>5, <4>1
      <4>2. CASE ~NoLF(s.buffer)
        <5>1. PICK a \in Nat, b \in Nat : a = Len(TakeLine(s).buffer) /\ b = Len(s.buffer)
          BY <3>5 DEF Parser, TextChars
        <5>2. a < b /\ b <= N - (k - 1)
          BY <3>4, <3>5, <4>2, <5>1
        <5>3. a <= N - k
          BY <3>1, <5>2
        <5> QED BY <5>1, <5>3
      <4> QED BY <4>1, <4>2
    <3> QED BY <2>1, <3>3, <3>4, <3>5, <3>6
  <2> QED BY <2>2, <2>3
<1>4. Odd = {}
  <2> HIDE DEF Odd
  <2>1. Odd \in SUBSET Nat
    BY DEF Odd
  <2> QED BY <1>3, <2>1, Least
<1>5. Fine(N)
  <2>1. N \in 0..N
    OBVIOUS
  <2> HIDE DEF Fine
  <2> QED BY <1>4, <2>1
<1>6. NoLF(f[N].buffer)
  <2>1. CASE Len(f[N].buffer) <= N - N
    <3>1. ASSUME NEW s \in TextChars, Len(s) <= N - N PROVE NoLF(s)
      <4>1. Len(s) = 0
        BY <3>1 DEF TextChars
      <4> QED BY <4>1 DEF NoLF
    <3>2. f[N].buffer \in TextChars
      BY <1>5 DEF Parser
    <3> QED BY <2>1, <3>1, <3>2
  <2> QED BY <1>5, <2>1
<1> QED BY <1>2, <1>5, <1>6

(* What holds after every chunk.                                           *)
State == [buffer |-> buffer, lines |-> lines, emitted |-> emitted]

ParserInv ==
    /\ fed \in TextChars
    /\ State \in Parser /\ Parses(State, fed)
    /\ NoLF(buffer)

LEMMA ParserInit == Init => ParserInv
<1> SUFFICES ASSUME Init PROVE ParserInv
  OBVIOUS
<1>1. /\ fed = <<>> /\ buffer = <<>> /\ lines = <<>> /\ emitted = <<>>
      /\ <<>> \in TextChars /\ Len(<<>>) = 0 /\ <<>> \o <<>> = <<>>
  BY DEF Init, TextChars
<1>2. LinesOf(<<>>) = <<>>
  <2>1. Before(LineEnds(<<>>), Len(LineEnds(<<>>)) + 1) = 0
    BY <1>1, ClosedEnds DEF Closed
  <2>2. LineEnds(<<>>) \in Seq(1..0)
    BY <1>1, EndsType
  <2>3. ASSUME NEW s \in Seq(1..0) PROVE Len(s) = 0
    <3>1. CASE Len(s) # 0
      <4>1. s[1] \in 1..0
        BY <3>1
      <4> QED BY <4>1
    <3> QED BY <3>1
  <2>4. LinesOf(<<>>) \in Seq(ALine) /\ Len(LinesOf(<<>>)) = 0
    BY <1>1, <2>2, <2>3, LinesType
  <2> QED BY <2>4
<1>3. ResponseEnds(<<>>) \in Seq(1..0) /\ Len(ResponseEnds(<<>>)) = 0
  <2>1. <<>> \in Seq(ALine)
    OBVIOUS
  <2>2. ResponseEnds(<<>>) \in Seq(1..0)
    BY <1>1, <2>1, EndsType
  <2>3. ASSUME NEW s \in Seq(1..0) PROVE Len(s) = 0
    <3>1. CASE Len(s) # 0
      <4>1. s[1] \in 1..0
        BY <3>1
      <4> QED BY <4>1
    <3> QED BY <3>1
  <2> QED BY <2>2, <2>3
<1>4. ResponsesOf(<<>>) = <<>>
  <2>1. <<>> \in Seq(ALine)
    OBVIOUS
  <2>2. ResponsesOf(<<>>) \in Seq(AResponse) /\ Len(ResponsesOf(<<>>)) = 0
    BY <1>3, <2>1, ResponsesType
  <2> QED BY <2>2
<1>5. Since(ResponseEnds(<<>>), <<>>) = <<>>
  <2>1. Before(ResponseEnds(<<>>), Len(ResponseEnds(<<>>)) + 1) = 0
    BY <1>3 DEF Before
  <2> QED BY <1>1, <2>1 DEF Since
<1>6. HasTaken(State, <<>>)
  BY <1>1, <1>2, <1>4, <1>5 DEF HasTaken, State, Closed
<1>7. Parses(State, fed)
  BY <1>1, <1>6 DEF Parses, State
<1>8. State \in Parser
  BY <1>1 DEF State, Parser
<1> QED BY <1>1, <1>7, <1>8 DEF ParserInv, NoLF

LEMMA ParserStep == ParserInv /\ [Next]_vars => ParserInv'
<1> SUFFICES ASSUME ParserInv, [Next]_vars PROVE ParserInv'
  OBVIOUS
<1>1. CASE UNCHANGED vars
  BY <1>1 DEF vars, ParserInv, State, Parses, HasTaken
<1>2. ASSUME NEW n \in 1..MaxChunk, NEW chunk \in [1..n -> Characters], Feed(chunk)
      PROVE  ParserInv'
  <2> DEFINE p == [buffer |-> buffer \o chunk, lines |-> lines, emitted |-> emitted]
  <2>1. chunk \in TextChars
    <3>1. MaxChunk \in Nat
      BY BoundsAssumption
    <3>2. n \in Nat
      BY <3>1
    <3> QED BY <3>2 DEF TextChars
  <2>2. fed \in TextChars /\ buffer \in TextChars /\ lines \in Seq(ALine)
        /\ emitted \in Seq(AResponse)
    BY DEF ParserInv, State, Parser
  <2>3. fed \o chunk \in TextChars /\ buffer \o chunk \in TextChars
    BY <2>1, <2>2 DEF TextChars
  <2>4. p \in Parser
    BY <2>2, <2>3 DEF Parser
  <2>5. Parses(p, fed \o chunk)
    <3>1. PICK X : HasTaken(State, X) /\ fed = X \o buffer
      BY DEF ParserInv, Parses, State
    <3>2. HasTaken(p, X)
      BY <3>1 DEF HasTaken, State
    <3>3. fed \o chunk = X \o p.buffer
      <4>1. ASSUME NEW a \in Seq(Characters), NEW b \in Seq(Characters), NEW c \in Seq(Characters)
            PROVE  (a \o b) \o c = a \o (b \o c)
        OBVIOUS
      <4>2. X \in Seq(Characters) /\ buffer \in Seq(Characters) /\ chunk \in Seq(Characters)
        BY <2>1, <2>2, <3>1 DEF HasTaken, TextChars
      <4> QED BY <3>1, <4>1, <4>2
    <3> HIDE DEF p
    <3> QED BY <3>2, <3>3 DEF Parses
  <2>6. PICK q : /\ q = Drain(p)
                 /\ buffer' = q.buffer /\ lines' = q.lines /\ emitted' = q.emitted
                 /\ fed' = fed \o chunk
    BY <1>2 DEF Feed
  <2> HIDE DEF p
  <2>7. q \in Parser /\ Parses(q, fed \o chunk) /\ NoLF(q.buffer)
    BY <2>3, <2>4, <2>5, <2>6, DrainParses
  <2>8. State' = q
    BY <2>6, <2>7 DEF State, Parser
  <2> QED BY <2>3, <2>6, <2>7, <2>8 DEF ParserInv, State
<1> QED BY <1>1, <1>2 DEF Next

THEOREM ParserHolds == Spec => []ParserInv
<1> QED BY ParserInit, ParserStep, PTL DEF Spec

(* ResponseParser, for every text and every cut of it into chunks, of any  *)
(* length: the responses emitted are those of the whole text fed (lines    *)
(* 28-41 of _parser.py).                                                   *)
THEOREM ChunksNeverMatter == Spec => []ChunksDoNotMatter
<1>1. ParserInv => ChunksDoNotMatter
  <2> SUFFICES ASSUME ParserInv PROVE ChunksDoNotMatter
    OBVIOUS
  <2>1. PICK X : HasTaken(State, X) /\ fed = X \o buffer
    BY DEF ParserInv, Parses, State
  <2>2. buffer \in TextChars /\ NoLF(buffer)
    BY DEF ParserInv, State, Parser
  <2>3. LinesOf(fed) = LinesOf(X)
    BY <2>1, <2>2, LinesSkip DEF HasTaken
  <2> QED BY <2>1, <2>3 DEF HasTaken, State, ChunksDoNotMatter
<1> QED BY <1>1, ParserHolds, PTL

(* And what has not been emitted is kept, and nothing else: the lines      *)
(* since the last response and the text since the last line (35-36, 41,    *)
(* 44-45).                                                                 *)
THEOREM RestStays == Spec => []RestIsKept
<1>1. ParserInv => RestIsKept
  <2> SUFFICES ASSUME ParserInv PROVE RestIsKept
    OBVIOUS
  <2>1. PICK X : HasTaken(State, X) /\ fed = X \o buffer
    BY DEF ParserInv, Parses, State
  <2>2. buffer \in TextChars /\ NoLF(buffer)
    BY DEF ParserInv, State, Parser
  <2>3. LinesOf(fed) = LinesOf(X) /\ LineEnds(fed) = LineEnds(X)
    BY <2>1, <2>2, LinesSkip DEF HasTaken
  <2>4. lines = Since(ResponseEnds(LinesOf(fed)), LinesOf(fed))
    BY <2>1, <2>3 DEF HasTaken, State
  <2>5. buffer = Since(LineEnds(fed), fed)
    <3>1. Before(LineEnds(fed), Len(LineEnds(fed)) + 1) = Len(X)
      BY <2>1, <2>3, ClosedEnds DEF HasTaken
    <3>2. ASSUME NEW a \in Seq(Characters), NEW b \in Seq(Characters)
          PROVE  SubSeq(a \o b, Len(a) + 1, Len(a \o b)) = b
      <4> DEFINE c == SubSeq(a \o b, Len(a) + 1, Len(a \o b))
      <4>1. c \in Seq(Characters) /\ Len(c) = Len(b) /\ \A i \in 1..Len(b) : c[i] = b[i]
        OBVIOUS
      <4> HIDE DEF c
      <4>2. ASSUME NEW x \in Seq(Characters), NEW y \in Seq(Characters), Len(x) = Len(y),
                   \A i \in 1..Len(y) : x[i] = y[i]
            PROVE  x = y
        BY <4>2
      <4>3. c = b
        BY <4>1, <4>2
      <4> QED BY <4>3 DEF c
    <3> QED BY <2>1, <2>2, <3>1, <3>2 DEF HasTaken, Since, TextChars
  <2> QED BY <2>4, <2>5 DEF RestIsKept
<1> QED BY <1>1, ParserHolds, PTL
=============================================================================
