------------------------ MODULE CommandChannelProofs ------------------------
(***************************************************************************)
(* The answers of a command channel are in step with its commands until    *)
(* one is given up, for any commands and any number of restarts.           *)
(***************************************************************************)
EXTENDS CommandChannel, SequenceTheorems, TLAPS

(* Dropping the tail of what is owed keeps it a sequence of commands, and  *)
(* leaves nothing else of a single command.                                *)
LEMMA LoseProperty ==
    ASSUME NEW s \in Seq(Commands), NEW n \in 0..Len(s)
    PROVE  /\ SubSeq(s, 1, n) \in Seq(Commands)
           /\ s = <<>> => SubSeq(s, 1, n) = <<>>
           /\ \A c \in Commands : s = <<c>> =>
                SubSeq(s, 1, n) = <<>> \/ SubSeq(s, 1, n) = <<c>>
<1>1. SubSeq(s, 1, n) \in Seq(Commands) /\ Len(SubSeq(s, 1, n)) = n
  OBVIOUS
<1>2. s = <<>> => SubSeq(s, 1, n) = <<>>
  BY <1>1
<1>3. ASSUME NEW c \in Commands, s = <<c>>
      PROVE  SubSeq(s, 1, n) = <<>> \/ SubSeq(s, 1, n) = <<c>>
  <2>1. n = 0 \/ n = 1
    BY <1>3
  <2>2. CASE n = 0
    BY <1>1, <2>2
  <2>3. CASE n = 1
    <3>1. Len(s) = n
      BY <1>3, <2>3
    <3> QED BY <1>3, <3>1, SubSeqFull
  <2> QED BY <2>1, <2>2, <2>3
<1> QED BY <1>1, <1>2, <1>3

(* Every step keeps the answers in step.                                   *)
LEMMA InStepInductive == InStepInv /\ [Next]_vars => InStepInv'
<1> SUFFICES ASSUME InStepInv, [Next]_vars PROVE InStepInv'
  OBVIOUS
<1> USE CommandsAssumption DEF InStepInv, TypeOK
<1>1. ASSUME NEW c \in Commands, Write(c) PROVE InStepInv'
  <2>1. owed' \in Seq(Commands) /\ c # 0
    BY <1>1 DEF Write
  <2>2. owed = <<>> => owed' = <<c>>
    BY <1>1 DEF Write
  <2>3. current = 0 /\ current' = c /\ answer' = answer /\ behind' = behind /\ answer = 0
    BY <1>1 DEF Write
  <2> QED BY <2>1, <2>2, <2>3
<1>2. CASE Respond
  <2>1. Head(owed) \in Commands /\ Tail(owed) \in Seq(Commands)
    BY <1>2 DEF Respond
  <2>2. owed = <<current>> => Head(owed) = current /\ Tail(owed) = <<>>
    OBVIOUS
  <2> QED BY <1>2, <2>1, <2>2 DEF Respond
<1>3. CASE Return
  BY <1>3 DEF Return
<1>4. CASE GiveUp
  BY <1>4 DEF GiveUp
<1>5. CASE Lose
  <2>1. PICK n \in 0..Len(owed) : owed' = SubSeq(owed, 1, n)
    BY <1>5 DEF Lose
  <2> QED BY <1>5, <2>1, LoseProperty DEF Lose
<1>6. CASE Restart
  <2>1. <<>> \in Seq(Commands)
    OBVIOUS
  <2>2. current = 0 /\ current' = 0 /\ owed' = <<>> /\ answer' = 0 /\ behind' = FALSE
    BY <1>6 DEF Restart
  <2> QED BY <2>1, <2>2
<1>7. CASE RestartUnder
  <2>1. <<>> \in Seq(Commands)
    OBVIOUS
  <2>2. /\ owed' = <<>> \/ owed' = owed
        /\ behind' = TRUE /\ current' = current /\ answer' = answer
    BY <1>7 DEF RestartUnder
  <2> QED BY <2>1, <2>2
<1>8. CASE UNCHANGED vars
  BY <1>8 DEF vars
<1> QED BY <1>1, <1>2, <1>3, <1>4, <1>5, <1>6, <1>7, <1>8 DEF Next

(* Without a command given up nothing but the answer of the command in     *)
(* flight is owed: the fixed cycle of send and read of execute().          *)
THEOREM InStepHolds == Spec => []InStepInv
<1>1. Init => InStepInv
  <2>1. <<>> \in Seq(Commands)
    OBVIOUS
  <2> QED BY <2>1 DEF Init, InStepInv, TypeOK
<1> QED BY <1>1, InStepInductive, PTL DEF Spec
=============================================================================
