--------------------------- MODULE TerminalProofs ---------------------------
(***************************************************************************)
(* Proofs about Terminal, for any methods, screens and bounds: the types,  *)
(* the transport and whose answer is whose for any callers, the state of   *)
(* the session for one.                                                    *)
(***************************************************************************)
EXTENDS Terminal, SequenceTheorems, TLAPS

Rests == {<<>>} \cup UNION {Suffixes(op) : op \in DOMAIN Script}

Local == [op : Methods \cup {"none"},
          phase : {"idle", "started", "stopped", "failed", "call", "wait", "took", "finish"},
          rest : Rests, cmd : 0..MaxIds, first : Reply, allOk : BOOLEAN]

Entry == [kind : Kinds \cup {"none"},
          reply : {NoReply} \cup [ok : BOOLEAN, locked : BOOLEAN, screen : 0..MaxScreens]]

-----------------------------------------------------------------------------
(***************************************************************************)
(* The commands of the methods.                                            *)
(***************************************************************************)
(* Every method has one to three commands.                                 *)
LEMMA ScriptType ==
    ASSUME NEW op \in DOMAIN Script
    PROVE  Script[op] \in Seq(Kinds) /\ Len(Script[op]) \in 1..3
<1> DEFINE A == Script[op]
<1>1. A \in {<<"Connect", "Wait(Unlock)", "Ascii1">>, <<"Key", "Wait(Unlock)", "Ascii1">>,
             <<"EraseInput", "Wait(Unlock)", "Ascii1">>, <<"Wait(Unlock)", "Ascii1">>,
             <<"MoveCursor", "String">>, <<"Wait(Unlock)", "Wait(Output)">>,
             <<"Key", "Query">>}
      \/ A \in {<<"Disconnect">>, <<"String">>, <<"MoveCursor">>, <<"Wait(Unlock)">>,
             <<"Wait(Output)">>, <<"Key">>, <<"Query">>}
  BY DEF Script
<1> HIDE DEF A
<1>2. A \in Seq(Kinds) /\ Len(A) \in 1..3
  <2>1. {"Connect", "Disconnect", "Key", "Wait(Unlock)", "Wait(Output)", "Ascii1",
         "MoveCursor", "String", "EraseInput", "Query"} \subseteq Kinds
    BY DEF Kinds
  <2>2. \A x, y, z \in Kinds : /\ <<x, y, z>> \in Seq(Kinds) /\ Len(<<x, y, z>>) = 3
                               /\ <<x, y>> \in Seq(Kinds) /\ Len(<<x, y>>) = 2
                               /\ <<x>> \in Seq(Kinds) /\ Len(<<x>>) = 1
    OBVIOUS
  <2>3. \E x, y, z \in Kinds : A \in {<<x, y, z>>, <<x, y>>, <<x>>}
    BY <1>1, <2>1
  <2>4. PICK x, y, z \in Kinds : A \in {<<x, y, z>>, <<x, y>>, <<x>>}
    BY <2>3
  <2>5. CASE A = <<x, y, z>>
    BY <2>2, <2>5
  <2>6. CASE A = <<x, y>>
    BY <2>2, <2>6
  <2>7. CASE A = <<x>>
    BY <2>2, <2>7
  <2> QED BY <2>4, <2>5, <2>6, <2>7
<1> QED BY <1>2 DEF A

(* What is left of them is a method's or none, begins with a command, and  *)
(* is shortened by its first command.                                      *)
LEMMA SuffixProperty ==
    ASSUME NEW op \in DOMAIN Script, NEW s \in Suffixes(op)
    PROVE  /\ Head(s) \in Kinds /\ Len(s) \in Nat \ {0} /\ s \in Seq(Kinds)
           /\ Len(s) = 1 => Tail(s) = <<>>
           /\ Len(s) # 1 => Tail(s) \in Suffixes(op)
<1> DEFINE n == Len(Script[op])
<1>1. Script[op] \in Seq(Kinds) /\ n \in 1..3
  BY ScriptType
<1>2. PICK i \in 1..n : s = SubSeq(Script[op], i, n)
  BY DEF Suffixes
<1>3. s \in Seq(Kinds) /\ Len(s) = n - i + 1
  <2>1. i \in 1..(n + 1) /\ i \in 1..Len(Script[op]) /\ n \in 0..Len(Script[op])
    BY <1>1
  <2> QED BY <1>1, <1>2, <2>1, SubSeqProperties
<1>4. Tail(s) = SubSeq(Script[op], i + 1, n)
  BY <1>1, <1>2, HeadTailOfSubSeq
<1>5. CASE Len(s) = 1
  <2>1. Head(s) \in Kinds /\ Tail(s) \in Seq(Kinds) /\ Len(Tail(s)) = 0
    BY <1>3, <1>5, HeadTailProperties
  <2>2. Tail(s) = <<>>
    BY <2>1, EmptySeq
  <2>3. Len(s) \in Nat \ {0}
    BY <1>5
  <2> QED BY <1>3, <1>5, <2>1, <2>2, <2>3, Zenon
<1>6. CASE Len(s) # 1
  <2>1. i + 1 \in 1..n
    BY <1>1, <1>3, <1>6
  <2>2. Tail(s) \in Suffixes(op)
    BY <1>4, <2>1 DEF Suffixes
  <2> QED BY <1>1, <1>3, <1>6, <2>2
<1> QED BY <1>5, <1>6

(* All of a method's commands are such a suffix.                           *)
LEMMA WholeIsSuffix ==
    ASSUME NEW op \in DOMAIN Script
    PROVE  Script[op] \in Suffixes(op) /\ Script[op] # <<>>
<1>1. Script[op] \in Seq(Kinds) /\ Len(Script[op]) \in 1..3
  BY ScriptType
<1>2. Script[op] = SubSeq(Script[op], 1, Len(Script[op]))
  BY <1>1, SubSeqFull
<1>3. \A n \in 1..3 : 1 \in 1..n
  OBVIOUS
<1> QED BY <1>1, <1>2, <1>3 DEF Suffixes

(* The same of what any method has left.                                   *)
LEMMA RestProperty ==
    ASSUME NEW s \in Rests, s # <<>>
    PROVE  /\ Head(s) \in Kinds /\ Len(s) \in Nat \ {0} /\ Tail(s) \in Rests
           /\ Len(s) # 1 <=> Tail(s) # <<>>
<1>1. PICK op \in DOMAIN Script : s \in Suffixes(op)
  BY DEF Rests
<1>2. /\ Head(s) \in Kinds /\ Len(s) \in Nat \ {0} /\ s \in Seq(Kinds)
      /\ Len(s) = 1 => Tail(s) = <<>>
      /\ Len(s) # 1 => Tail(s) \in Suffixes(op)
  BY <1>1, SuffixProperty
<1>3. Tail(s) \in Rests
  BY <1>1, <1>2 DEF Rests
<1>4. Len(s) # 1 => Tail(s) # <<>>
  <2> SUFFICES ASSUME Len(s) # 1 PROVE Len(Tail(s)) # 0
    OBVIOUS
  <2> QED BY <1>2, SuffixProperty
<1> QED BY <1>2, <1>3, <1>4

-----------------------------------------------------------------------------
(***************************************************************************)
(* The steps that only a caller's own state tells apart.                   *)
(***************************************************************************)
(* An idle caller has the type of one.                                     *)
LEMMA IdleType ==
    /\ Idle \in Local /\ Idle.op = "none" /\ Idle.phase = "idle" /\ Idle.rest = <<>>
    /\ Idle.cmd = 0 /\ Idle.first = NoReply /\ Idle.allOk = TRUE /\ NoReply \in Reply
<1>1. NoReply \in Reply /\ <<>> \in Rests /\ 0 \in 0..MaxIds
  BY BoundsAssumption DEF NoReply, Reply, Rests
<1> QED BY <1>1 DEF Local, Idle

(* Replies and kinds have their types.                                     *)
LEMMA EntryType == \A e \in Entry : e.reply \in Reply /\ e.kind \in Kinds \cup {"none"}
<1>1. 0..MaxScreens \subseteq -1..MaxScreens
  BY BoundsAssumption
<1>2. [ok : BOOLEAN, locked : BOOLEAN, screen : 0..MaxScreens] \subseteq Reply
  BY <1>1 DEF Reply
<1> QED BY <1>2, IdleType DEF Entry

(* What a caller that goes on, leaves or enters a method has from then on. *)
LEMMA GotoEffect ==
    ASSUME th \in [Callers -> Local], NEW t \in Callers,
           NEW p \in {"started", "stopped", "failed"}, Goto(t, p)
    PROVE  /\ th' \in [Callers -> Local] /\ \A u \in Callers \ {t} : th'[u] = th[u]
           /\ th'[t].phase = p /\ th'[t].op = th[t].op
<1>1. th'[t] = [Idle EXCEPT !.op = th[t].op, !.phase = p]
  BY DEF Goto
<1>2. th'[t] = [op |-> th[t].op, phase |-> p, rest |-> <<>>, cmd |-> 0,
                first |-> NoReply, allOk |-> TRUE]
  BY <1>1, IdleType DEF Local
<1>3. NoReply \in Reply /\ <<>> \in Rests /\ 0 \in 0..MaxIds
  BY BoundsAssumption DEF NoReply, Reply, Rests
<1>4. th[t].op \in Methods \cup {"none"}
  BY DEF Local
<1>5. th'[t] \in Local
  BY <1>2, <1>3, <1>4 DEF Local
<1>6. th' \in [Callers -> Local] /\ \A u \in Callers \ {t} : th'[u] = th[u]
  BY <1>5 DEF Goto
<1> QED BY <1>2, <1>6

(* A caller that leaves is idle.                                           *)
LEMMA LeaveEffect ==
    ASSUME th \in [Callers -> Local], NEW t \in Callers, Leave(t)
    PROVE  /\ th' \in [Callers -> Local] /\ \A u \in Callers \ {t} : th'[u] = th[u]
           /\ th'[t].phase = "idle" /\ th'[t].op = "none"
BY IdleType DEF Leave

(* A caller that enters a method has all of its commands to issue.         *)
LEMMA EnterEffect ==
    ASSUME th \in [Callers -> Local], NEW t \in Callers, NEW op \in DOMAIN Script,
           Enter(t, op, Script[op])
    PROVE  /\ th' \in [Callers -> Local] /\ \A u \in Callers \ {t} : th'[u] = th[u]
           /\ th'[t].phase = "call" /\ th'[t].op = op /\ th'[t].rest = Script[op]
           /\ th'[t].first = NoReply /\ th'[t].allOk
<1>1. th'[t] = [Idle EXCEPT !.op = op, !.phase = "call", !.rest = Script[op]]
  BY DEF Enter
<1>2. th'[t] = [op |-> op, phase |-> "call", rest |-> Script[op], cmd |-> 0,
                first |-> NoReply, allOk |-> TRUE]
  BY <1>1, IdleType DEF Local
<1>3. NoReply \in Reply /\ Script[op] \in Rests /\ 0 \in 0..MaxIds /\ op \in Methods
  BY BoundsAssumption, WholeIsSuffix DEF NoReply, Reply, Rests, Methods
<1>4. th'[t] \in Local
  BY <1>2, <1>3 DEF Local
<1>5. th' \in [Callers -> Local] /\ \A u \in Callers \ {t} : th'[u] = th[u]
  BY <1>4 DEF Enter
<1> QED BY <1>2, <1>5

(* What Take assigns to its caller.                                        *)
LEMMA TakeEffect ==
    ASSUME th \in [Callers -> Local], log \in [Commands -> Entry],
           NEW t \in Callers, th[t].rest # <<>>, th[t].cmd \in Commands, Take(t)
    PROVE  /\ th' \in [Callers -> Local] /\ \A u \in Callers \ {t} : th'[u] = th[u]
           /\ th'[t].op = th[t].op /\ th'[t].rest = Tail(th[t].rest) /\ th'[t].cmd = 0
           /\ th'[t].first = IF th[t].first = NoReply THEN log[th[t].cmd].reply ELSE th[t].first
           /\ th'[t].allOk = (th[t].allOk /\ log[th[t].cmd].reply.ok)
           /\ \/ Tail(th[t].rest) = <<>> /\ Len(th[t].rest) = 1 /\ th'[t].phase = "finish"
              \/ Tail(th[t].rest) # <<>> /\ th'[t].phase = "call"
<1> DEFINE rep == log[th[t].cmd].reply
           p   == IF Len(th[t].rest) = 1 THEN "finish" ELSE "call"
           f   == IF th[t].first = NoReply THEN rep ELSE th[t].first
           ok  == th[t].allOk /\ rep.ok
<1>1. th[t] \in Local /\ rep \in Reply /\ th[t].rest \in Rests
  BY EntryType DEF Local
<1>2. Tail(th[t].rest) \in Rests /\ (Len(th[t].rest) # 1 <=> Tail(th[t].rest) # <<>>)
  BY <1>1, RestProperty
<1>3. p \in {"finish", "call"} /\ f \in Reply /\ ok \in BOOLEAN /\ 0 \in 0..MaxIds
  BY <1>1, BoundsAssumption DEF Local, Reply
<1>4. th' = [th EXCEPT ![t] = [th[t] EXCEPT !.cmd = 0, !.rest = Tail(th[t].rest), !.phase = p,
                                             !.first = f, !.allOk = ok]]
  BY DEF Take, Store
<1> HIDE DEF p, f, ok
<1>5. th'[t] = [op |-> th[t].op, phase |-> p, rest |-> Tail(th[t].rest), cmd |-> 0,
                first |-> f, allOk |-> ok]
  BY <1>1, <1>4 DEF Local
<1>6. th'[t] \in Local
  BY <1>1, <1>2, <1>3, <1>5 DEF Local
<1>7. th' \in [Callers -> Local] /\ \A u \in Callers \ {t} : th'[u] = th[u]
  BY <1>4, <1>6
<1>8. \/ Tail(th[t].rest) = <<>> /\ Len(th[t].rest) = 1 /\ p = "finish"
      \/ Tail(th[t].rest) # <<>> /\ p = "call"
  BY <1>2 DEF p
<1> QED BY <1>5, <1>7, <1>8 DEF f, ok

(* A caller takes its number, and later the number it is answered for.     *)
LEMMA NumberEffect ==
    ASSUME th \in [Callers -> Local], NEW t \in Callers, NEW c \in Commands,
           NEW p \in {"wait", "took"},
           th' = [th EXCEPT ![t].phase = p, ![t].cmd = c]
    PROVE  /\ th' \in [Callers -> Local] /\ \A u \in Callers \ {t} : th'[u] = th[u]
           /\ th'[t].phase = p /\ th'[t].cmd = c /\ th'[t].op = th[t].op
           /\ th'[t].rest = th[t].rest /\ th'[t].first = th[t].first
           /\ th'[t].allOk = th[t].allOk
<1>1. th[t] \in Local /\ c \in 0..MaxIds
  BY BoundsAssumption DEF Commands
<1>2. th' = [th EXCEPT ![t] = [th[t] EXCEPT !.phase = p, !.cmd = c]]
  OBVIOUS
<1>3. th'[t] = [th[t] EXCEPT !.phase = p, !.cmd = c]
  BY <1>2
<1>4. th'[t] = [op |-> th[t].op, phase |-> p, rest |-> th[t].rest, cmd |-> c,
                first |-> th[t].first, allOk |-> th[t].allOk]
  BY <1>1, <1>3 DEF Local
<1>5. th'[t] \in Local
  BY <1>1, <1>4 DEF Local
<1> QED BY <1>2, <1>4, <1>5

-----------------------------------------------------------------------------
(***************************************************************************)
(* Types.                                                                  *)
(***************************************************************************)
Issuing(t) == th[t].phase \in {"call", "wait", "took"}

(* The type invariant, with screens that are the host's in every reply; a  *)
(* caller that issues a command has one to issue, and one that has an      *)
(* answer in hand knows of which command.                                  *)
Typed ==
    /\ connected \in BOOLEAN /\ state \in States
    /\ status \in {"unknown", "locked", "unlocked"}
    /\ buffer \in [kind : Kinds \cup {"none"}, ok : BOOLEAN, screen : 0..MaxScreens]
    /\ owed \in Seq(Commands) /\ current \in 0..MaxIds /\ answer \in 0..MaxIds
    /\ behind \in BOOLEAN /\ stopped \in BOOLEAN
    /\ log \in [Commands -> Entry]
    /\ alive \in BOOLEAN /\ host \in BOOLEAN /\ locked \in BOOLEAN /\ lost \in BOOLEAN
    /\ screen \in 0..MaxScreens
    /\ th \in [Callers -> Local]

TypeInv == /\ Typed
           /\ \A t \in Callers : /\ Issuing(t) => th[t].rest # <<>>
                                 /\ In(t, "took") => th[t].cmd # 0

(* Commands are numbers other than zero.                                   *)
LEMMA CommandType == Commands \subseteq Nat \ {0} /\ 0..MaxIds = Commands \cup {0}
BY BoundsAssumption DEF Commands

(* The strengthening implies the type invariant.                           *)
LEMMA TypedIsTypeOK == Typed => TypeOK
<1> SUFFICES ASSUME Typed PROVE TypeOK
  OBVIOUS
<1>1. Entry \subseteq [kind : Kinds \cup {"none"}, reply : Reply]
  BY EntryType DEF Entry
<1>2. log \in [Commands -> [kind : Kinds \cup {"none"}, reply : Reply]]
  BY <1>1 DEF Typed
<1> QED BY <1>2, CommandType DEF TypeOK, Ch!TypeOK, Local, Rests, Typed

(* What Forget() does to the ledger.                                       *)
LEMMA ForgetEffect ==
    ASSUME log \in [Commands -> Entry], NEW C, Forget(C)
    PROVE  /\ log' \in [Commands -> Entry]
           /\ \A c \in Commands : log'[c] = IF c \in C THEN Unused ELSE log[c]
<1>1. Unused \in Entry
  BY IdleType DEF Unused, Entry
<1> QED BY <1>1 DEF Forget

(* What start() does: the process is new, its line queue too, or a command *)
(* is out of step.                                                         *)
LEMMA StartEffect ==
    ASSUME Typed, NEW t \in Callers, StartOp(t)
    PROVE  /\ th' \in [Callers -> Local] /\ \A u \in Callers \ {t} : th'[u] = th[u]
           /\ th[t].phase = "idle" /\ th'[t].phase = "started"
           /\ current' = current /\ answer' = answer
           /\ \/ owed' = <<>> /\ behind' = FALSE /\ current = 0
              \/ (owed' = <<>> \/ owed' = owed) /\ behind' = TRUE /\ Overlapped
           /\ log' \in [Commands -> Entry]
           /\ \A c \in Commands :
                log'[c] = IF c \in Owed /\ c \notin Owed' THEN Unused ELSE log[c]
           /\ alive' = TRUE /\ host' = FALSE /\ locked' = TRUE /\ lost' = FALSE
           /\ stopped' = FALSE /\ UNCHANGED <<session, screen>>
<1>1. th \in [Callers -> Local] /\ log \in [Commands -> Entry]
  BY DEF Typed
<1>2. Launched(t) /\ Startable(t) /\ Forget(Owed \ Owed')
  BY DEF StartOp, Owed
<1>3. /\ th' \in [Callers -> Local] /\ \A u \in Callers \ {t} : th'[u] = th[u]
      /\ th'[t].phase = "started"
  BY <1>1, <1>2, GotoEffect DEF Launched
<1>4. /\ log' \in [Commands -> Entry]
      /\ \A c \in Commands : log'[c] = IF c \in Owed \ Owed' THEN Unused ELSE log[c]
  BY <1>1, <1>2, ForgetEffect
<1>5. Ch!Restart \/ (Overlapped /\ Ch!RestartUnder)
  BY DEF StartOp
<1>6. /\ current' = current /\ answer' = answer
      /\ \/ owed' = <<>> /\ behind' = FALSE /\ current = 0
         \/ (owed' = <<>> \/ owed' = owed) /\ behind' = TRUE /\ Overlapped
  BY <1>5 DEF Ch!Restart, Ch!RestartUnder
<1> QED BY <1>2, <1>3, <1>4, <1>6 DEF Launched, Startable, In

(* The initial state has the types.                                        *)
LEMMA TypeInit == Init => TypeInv
<1> SUFFICES ASSUME Init PROVE TypeInv
  OBVIOUS
<1>1. Unused \in Entry /\ 0 \in 0..MaxIds /\ 0 \in 0..MaxScreens /\ <<>> \in Seq(Commands)
  BY IdleType, BoundsAssumption DEF Unused, Entry
<1>2. Typed
  <2>1. th \in [Callers -> Local] /\ log \in [Commands -> Entry]
    BY <1>1, IdleType DEF Init
  <2>2. buffer \in [kind : Kinds \cup {"none"}, ok : BOOLEAN, screen : 0..MaxScreens]
    BY <1>1 DEF Init
  <2> QED BY <1>1, <2>1, <2>2 DEF Typed, Init, Ch!Init, States
<1>3. \A t \in Callers : th[t].phase = "idle"
  BY IdleType DEF Init
<1> QED BY <1>2, <1>3 DEF TypeInv, Issuing, In

-----------------------------------------------------------------------------
(***************************************************************************)
(* The transport.                                                          *)
(***************************************************************************)
ChP == INSTANCE CommandChannelProofs WITH MaxOwed <- MaxIds

(* What is proved of the channel holds of the Terminal's.                  *)
LEMMA ChannelInductive == Ch!InStepInv /\ [Ch!Next]_(Ch!vars) => Ch!InStepInv'
<1>1. ChP!InStepInv /\ [ChP!Next]_(ChP!vars) => ChP!InStepInv'
  BY ChP!InStepInductive, CommandType, BoundsAssumption
     DEF ChP!CommandsAssumption, ChP!MaxOwedAssumption
<1>2. Ch!InStepInv <=> ChP!InStepInv
  BY DEF Ch!InStepInv, ChP!InStepInv, Ch!TypeOK, ChP!TypeOK
<1>3. Ch!InStepInv' <=> ChP!InStepInv'
  BY DEF Ch!InStepInv, ChP!InStepInv, Ch!TypeOK, ChP!TypeOK
<1>4. /\ Ch!Respond => ChP!Respond
      /\ Ch!Return  => ChP!Return
      /\ Ch!GiveUp  => ChP!GiveUp
      /\ Ch!Restart => ChP!Restart
      /\ Ch!RestartUnder => ChP!RestartUnder
      /\ Ch!vars' = Ch!vars => ChP!vars' = ChP!vars
  BY DEF Ch!Respond, ChP!Respond, Ch!Return, ChP!Return, Ch!GiveUp, ChP!GiveUp,
         Ch!Restart, ChP!Restart, Ch!RestartUnder, ChP!RestartUnder, Ch!vars, ChP!vars
<1>5. Ch!Lose => ChP!Lose
  BY DEF Ch!Lose, ChP!Lose
<1>6. ASSUME NEW c \in Commands, Ch!Write(c) PROVE ChP!Write(c)
  BY <1>6 DEF Ch!Write, ChP!Write
<1>7. [Ch!Next]_(Ch!vars) => [ChP!Next]_(ChP!vars)
  BY <1>4, <1>5, <1>6 DEF Ch!Next, ChP!Next
<1> QED BY <1>1, <1>2, <1>3, <1>7

(* Every step of the session moves the transport as execute(), start() and *)
(* stop() do, or leaves it alone.                                          *)
LEMMA ChannelStep == [Next]_vars => [Ch!Next]_(Ch!vars)
<1> SUFFICES ASSUME [Next]_vars PROVE Ch!Next \/ UNCHANGED Ch!vars
  OBVIOUS
<1> USE DEF Ch!vars, channel
<1>1. ASSUME NEW t \in Callers, Starts(t) PROVE Ch!Next \/ UNCHANGED Ch!vars
  BY <1>1 DEF Starts, StartOp, StopOp, Gone, Begin, Ch!Next
<1>2. ASSUME NEW t \in Callers, Call(t) PROVE Ch!Next
  BY <1>2 DEF Call, Ch!Next
<1>3. ASSUME NEW t \in Callers, Command(t) PROVE Ch!Next \/ UNCHANGED Ch!vars
  BY <1>2, <1>3 DEF Command, TextRefused, CallDead, CallStopped, CallBusy, Answered, Returned, TimedOut,
                    Died, Failed, Take, Store, Ch!Next
<1>4. ASSUME NEW t \in Callers, Working(t) PROVE Ch!Next \/ UNCHANGED Ch!vars
  BY <1>3, <1>4 DEF Working, Started, Stopped, Finish, WaitForEnds, WaitForAgain
<1>5. Handle \/ HostSends \/ HostUnlocks \/ HostDrops \/ Die => Ch!Next \/ UNCHANGED Ch!vars
  BY DEF Handle, HostSends, HostUnlocks, HostDrops, Die, Gone, Ch!Next
<1> QED BY <1>1, <1>4, <1>5 DEF Next, vars

(* An outcome is three truth values.                                       *)
LEMMA OutcomeType ==
    ASSUME host \in BOOLEAN, locked \in BOOLEAN, NEW kind, NEW o \in Outcomes(kind)
    PROVE  o.ok \in BOOLEAN /\ o.host \in BOOLEAN /\ o.locked \in BOOLEAN
<1> DEFINE S == [ok : BOOLEAN, host : BOOLEAN, locked : BOOLEAN]
<1>1. /\ \A ok \in BOOLEAN : Same(ok) \in S
      /\ Outcome(TRUE, TRUE, TRUE) \in S /\ Outcome(TRUE, FALSE, TRUE) \in S
  BY DEF Same, Outcome
<1> HIDE DEF S
<1>2. o \in {Same(TRUE), Same(FALSE), Same(host /\ ~locked),
             Outcome(TRUE, TRUE, TRUE), Outcome(TRUE, FALSE, TRUE)}
  BY DEF Outcomes
<1>3. (host /\ ~locked) \in BOOLEAN /\ TRUE \in BOOLEAN /\ FALSE \in BOOLEAN
  OBVIOUS
<1>4. o \in S
  BY <1>1, <1>2, <1>3
<1> QED BY <1>4 DEF S

-----------------------------------------------------------------------------
(***************************************************************************)
(* The numbers of the commands at work.                                    *)
(***************************************************************************)
Elements(s) == {s[i] : i \in DOMAIN s}
Distinct(s) == \A i, j \in DOMAIN s : s[i] = s[j] => i = j

(* Appending to a queue adds the number appended.                          *)
LEMMA AppendNumbers ==
    ASSUME NEW s \in Seq(Commands), NEW c \in Commands
    PROVE  /\ Elements(Append(s, c)) = Elements(s) \cup {c}
           /\ Distinct(s) /\ c \notin Elements(s) => Distinct(Append(s, c))
<1>1. /\ DOMAIN Append(s, c) = 1..(Len(s) + 1) /\ DOMAIN s = 1..Len(s) /\ Len(s) \in Nat
      /\ \A i \in 1..Len(s) : Append(s, c)[i] = s[i]
      /\ Append(s, c)[Len(s) + 1] = c
  OBVIOUS
<1>2. 1..(Len(s) + 1) = 1..Len(s) \cup {Len(s) + 1}
  BY <1>1
<1> QED BY <1>1, <1>2 DEF Elements, Distinct

(* Taking the head of a queue takes its number out.                        *)
LEMMA TailNumbers ==
    ASSUME NEW s \in Seq(Commands), s # <<>>, Distinct(s)
    PROVE  /\ Head(s) \in Elements(s) /\ Elements(Tail(s)) = Elements(s) \ {Head(s)}
           /\ Distinct(Tail(s))
<1>1. /\ DOMAIN Tail(s) = 1..(Len(s) - 1) /\ DOMAIN s = 1..Len(s) /\ Len(s) \in Nat \ {0}
      /\ \A i \in 1..(Len(s) - 1) : Tail(s)[i] = s[i + 1]
      /\ Head(s) = s[1]
  OBVIOUS
<1>2. Head(s) \in Elements(s) /\ Distinct(Tail(s))
  BY <1>1 DEF Elements, Distinct
<1>3. ASSUME NEW x \in Elements(Tail(s)) PROVE x \in Elements(s) \ {Head(s)}
  <2>1. PICK i \in 1..(Len(s) - 1) : x = s[i + 1]
    BY <1>1, <1>3 DEF Elements
  <2>2. i + 1 \in 1..Len(s) /\ i + 1 # 1 /\ 1 \in 1..Len(s)
    BY <1>1
  <2> QED BY <1>1, <2>1, <2>2 DEF Elements, Distinct
<1>4. ASSUME NEW x \in Elements(s) \ {Head(s)} PROVE x \in Elements(Tail(s))
  <2>1. PICK i \in 1..Len(s) : x = s[i]
    BY <1>1, <1>4 DEF Elements
  <2>2. i # 1
    BY <1>1, <1>4, <2>1
  <2>3. i - 1 \in 1..(Len(s) - 1) /\ (i - 1) + 1 = i
    BY <1>1, <2>2
  <2>4. Tail(s)[i - 1] = x
    BY <1>1, <2>1, <2>3
  <2> QED BY <1>1, <2>3, <2>4 DEF Elements
<1> QED BY <1>2, <1>3, <1>4

(* Cutting a queue adds no number.                                         *)
LEMMA PrefixNumbers ==
    ASSUME NEW s \in Seq(Commands), NEW n \in 0..Len(s)
    PROVE  /\ Elements(SubSeq(s, 1, n)) \subseteq Elements(s)
           /\ DOMAIN SubSeq(s, 1, n) = 1..n
           /\ \A i \in 1..n : SubSeq(s, 1, n)[i] = s[i]
           /\ Distinct(s) => Distinct(SubSeq(s, 1, n))
<1>1. /\ DOMAIN SubSeq(s, 1, n) = 1..n /\ DOMAIN s = 1..Len(s) /\ 1..n \subseteq 1..Len(s)
      /\ \A i \in 1..n : SubSeq(s, 1, n)[i] = s[i]
  OBVIOUS
<1> QED BY <1>1 DEF Elements, Distinct

(* A number is that of one command only, from the write until the caller   *)
(* that was handed its answer is done with it, and an answer is handed     *)
(* over only when s3270 has replied.                                       *)
HandInv ==
    /\ Distinct(owed)
    /\ answer # 0 => current # 0 /\ answer \notin Owed /\ Replied(answer)
    /\ \A t \in Callers : In(t, "took") =>
         th[t].cmd \notin Owed /\ th[t].cmd # answer /\ Replied(th[t].cmd)
    /\ \A t, u \in Callers :
         In(t, "took") /\ In(u, "took") /\ th[t].cmd = th[u].cmd => t = u

(* Every step keeps the types: one case per action.                        *)
LEMMA TypeStep == TypeInv /\ HandInv /\ [Next]_vars => TypeInv'
<1> SUFFICES ASSUME TypeInv, HandInv, [Next]_vars PROVE TypeInv'
  OBVIOUS
<1>0. Typed /\ th \in [Callers -> Local] /\ log \in [Commands -> Entry]
  BY DEF TypeInv, Typed
<1> USE DEF In, Issuing, session, channel, emulator, Methods, Typed
(* A caller whose own state changes keeps the types if its new state does. *)
<1>A. ASSUME NEW t \in Callers, th' \in [Callers -> Local],
             \A u \in Callers \ {t} : th'[u] = th[u],
             th'[t].phase \in {"call", "wait", "took"} => th'[t].rest # <<>>,
             th'[t].phase = "took" => th'[t].cmd # 0
      PROVE  Typed' => TypeInv'
  BY <1>A DEF TypeInv
<1>1. ASSUME NEW t \in Callers, StartOp(t) PROVE TypeInv'
  <2>1. /\ th' \in [Callers -> Local] /\ \A u \in Callers \ {t} : th'[u] = th[u]
        /\ th'[t].phase = "started"
        /\ log' \in [Commands -> Entry]
        /\ owed' = <<>> \/ owed' = owed
        /\ behind' \in BOOLEAN /\ current' = current /\ answer' = answer
        /\ alive' = TRUE /\ host' = FALSE /\ locked' = TRUE /\ lost' = FALSE
        /\ stopped' = FALSE /\ UNCHANGED <<session, screen>>
    BY <1>0, <1>1, StartEffect
  <2>2. <<>> \in Seq(Commands)
    OBVIOUS
  <2>3. Typed'
    BY <1>0, <2>1, <2>2
  <2> QED BY <1>A, <2>1, <2>3
<1>2. ASSUME NEW t \in Callers, Started(t) PROVE TypeInv'
  <2>1. /\ th' \in [Callers -> Local] /\ \A u \in Callers \ {t} : th'[u] = th[u]
        /\ th'[t].phase = "idle"
    BY <1>0, <1>2, LeaveEffect DEF Started
  <2>2. Typed'
    BY <1>0, <1>2, <2>1 DEF Started, States
  <2> QED BY <1>A, <2>1, <2>2
<1>3. ASSUME Gone, lost' \in BOOLEAN, stopped' \in BOOLEAN, UNCHANGED session,
             th' \in [Callers -> Local]
      PROVE  Typed'
  <2>1. log' \in [Commands -> Entry]
    BY <1>0, <1>3, ForgetEffect DEF Gone
  <2>2. owed' \in Seq(Commands)
    BY <1>0, <1>3 DEF Gone, Ch!Lose
  <2> QED BY <1>0, <1>3, <2>1, <2>2 DEF Gone, Ch!Lose
<1>4. ASSUME NEW t \in Callers, StopOp(t) PROVE TypeInv'
  <2>1. /\ th' \in [Callers -> Local] /\ \A u \in Callers \ {t} : th'[u] = th[u]
        /\ th'[t].phase = "stopped"
    BY <1>0, <1>4, GotoEffect DEF StopOp
  <2>2. Typed'
    BY <1>3, <1>4, <2>1 DEF StopOp
  <2> QED BY <1>A, <2>1, <2>2
<1>5. ASSUME NEW t \in Callers, Stopped(t) PROVE TypeInv'
  <2>1. /\ th' \in [Callers -> Local] /\ \A u \in Callers \ {t} : th'[u] = th[u]
        /\ th'[t].phase = "idle"
    BY <1>0, <1>5, LeaveEffect DEF Stopped
  <2>2. Typed'
    BY <1>0, <1>5, <2>1 DEF Stopped, States
  <2> QED BY <1>A, <2>1, <2>2
<1>6. ASSUME NEW t \in Callers, NEW op \in DOMAIN Script, Begin(t, op) PROVE TypeInv'
  <2>1. /\ th' \in [Callers -> Local] /\ \A u \in Callers \ {t} : th'[u] = th[u]
        /\ th'[t].phase = "call" /\ th'[t].rest # <<>>
    BY <1>0, <1>6, EnterEffect, WholeIsSuffix DEF Begin
  <2>2. Typed'
    BY <1>0, <1>6, <2>1 DEF Begin
  <2> QED BY <1>A, <2>1, <2>2
<1>7. ASSUME NEW t \in Callers, Goto(t, "failed") \/ Leave(t),
             UNCHANGED <<session, log, emulator>>,
             UNCHANGED channel \/ (Ch!GiveUp /\ stopped' \in BOOLEAN)
      PROVE  TypeInv'
  <2>1. /\ th' \in [Callers -> Local] /\ \A u \in Callers \ {t} : th'[u] = th[u]
        /\ th'[t].phase \in {"failed", "idle"}
    BY <1>0, <1>7, GotoEffect, LeaveEffect
  <2>2. owed' = owed /\ answer' = answer /\ current' \in 0..MaxIds /\ behind' \in BOOLEAN
        /\ stopped' \in BOOLEAN
    BY <1>0, <1>7, CommandType DEF Ch!GiveUp
  <2>3. Typed'
    BY <1>0, <1>7, <2>1, <2>2
  <2> QED BY <1>A, <2>1, <2>3
<1>8. ASSUME NEW t \in Callers, Failed(t) PROVE TypeInv'
  <2>1. /\ th' \in [Callers -> Local] /\ \A u \in Callers \ {t} : th'[u] = th[u]
        /\ th'[t].phase = "idle"
    BY <1>0, <1>8, LeaveEffect DEF Failed
  <2>2. Typed'
    BY <1>0, <1>8, <2>1 DEF Failed, States
  <2> QED BY <1>A, <2>1, <2>2
<1>9. ASSUME NEW t \in Callers, Call(t) PROVE TypeInv'
  <2>1. PICK c \in Commands : /\ Ch!Write(c)
                              /\ log' = [log EXCEPT ![c].kind = Head(th[t].rest)]
                              /\ th' = [th EXCEPT ![t].phase = "wait", ![t].cmd = c]
    BY <1>9 DEF Call
  <2>2. /\ th' \in [Callers -> Local] /\ \A u \in Callers \ {t} : th'[u] = th[u]
        /\ th'[t].phase = "wait" /\ th'[t].rest = th[t].rest
    BY <1>0, <2>1, NumberEffect
  <2>3. th[t].rest # <<>> /\ th[t].rest \in Rests
    BY <1>0, <1>9 DEF Call, TypeInv, Local
  <2>4. Head(th[t].rest) \in Kinds
    BY <2>3, RestProperty
  <2>5. log' \in [Commands -> Entry]
    BY <1>0, <2>1, <2>4 DEF Entry
  <2>6. owed' \in Seq(Commands) /\ current' \in 0..MaxIds /\ answer' = answer /\ behind' = behind
    BY <1>0, <2>1, CommandType DEF Ch!Write
  <2>7. Typed'
    BY <1>0, <1>9, <2>2, <2>5, <2>6 DEF Call
  <2> QED BY <1>A, <2>2, <2>3, <2>7
<1>10. ASSUME NEW t \in Callers, Answered(t) PROVE TypeInv'
  <2>1. owed' \in Seq(Commands) /\ answer' \in 0..MaxIds
    BY <1>0, <1>10, CommandType DEF Answered, Ch!Respond
  <2>2. Typed'
    BY <1>0, <1>10, <2>1 DEF Answered, Ch!Respond
  <2> QED BY <1>10, <2>2 DEF Answered, TypeInv
<1>11. ASSUME NEW t \in Callers, Returned(t) PROVE TypeInv'
  <2>1. answer \in Commands /\ answer # 0
    BY <1>0, <1>11, CommandType DEF Returned, Ch!Return
  <2>2. /\ th' \in [Callers -> Local] /\ \A u \in Callers \ {t} : th'[u] = th[u]
        /\ th'[t].phase = "took" /\ th'[t].rest = th[t].rest /\ th'[t].cmd = answer
    BY <1>0, <1>11, <2>1, NumberEffect DEF Returned
  <2>3. th[t].rest # <<>>
    BY <1>11 DEF Returned, TypeInv
  <2>4. answer' = 0 /\ current' = 0 /\ owed' = owed /\ behind' = behind /\ 0 \in 0..MaxIds
    BY <1>11, CommandType DEF Returned, Ch!Return
  <2>5. Typed'
    BY <1>0, <1>11, <2>2, <2>4 DEF Returned
  <2> QED BY <1>A, <2>1, <2>2, <2>3, <2>5
<1>12. ASSUME NEW t \in Callers, Take(t) PROVE TypeInv'
  <2>1. th[t].rest # <<>> /\ th[t].cmd \in Commands
    BY <1>0, <1>12, CommandType DEF Take, Store, TypeInv, Local
  <2>2. /\ th' \in [Callers -> Local] /\ \A u \in Callers \ {t} : th'[u] = th[u]
        /\ th'[t].rest = Tail(th[t].rest)
        /\ \/ Tail(th[t].rest) = <<>> /\ th'[t].phase = "finish"
           \/ Tail(th[t].rest) # <<>> /\ th'[t].phase = "call"
    BY <1>0, <1>12, <2>1, TakeEffect DEF Entry
  <2>3. log' \in [Commands -> Entry]
    BY <1>0, <1>12, ForgetEffect DEF Take, Store
  <2>4. status' \in {"unknown", "locked", "unlocked"}
    BY <1>12 DEF Take, Store, Flag
  <2>5. buffer' \in [kind : Kinds \cup {"none"}, ok : BOOLEAN, screen : 0..MaxScreens]
    <3>1. buffer' = buffer \/ buffer' = Shown(th[t].cmd)
      BY <1>12 DEF Take, Store
    <3>2. Replied(th[t].cmd)
      BY <1>12 DEF Take, Store, HandInv
    <3>3. log[th[t].cmd].reply.screen \in 0..MaxScreens /\ log[th[t].cmd].reply.ok \in BOOLEAN
      BY <1>0, <2>1, <3>2 DEF Replied, Entry
    <3> QED BY <1>0, <2>1, <3>1, <3>3 DEF Shown, Entry
  <2>6. Typed'
    BY <1>0, <1>12, <2>2, <2>3, <2>4, <2>5 DEF Take, Store
  <2> QED BY <1>A, <2>2, <2>6
<1>13. ASSUME NEW t \in Callers, Finish(t) PROVE TypeInv'
  <2>1. /\ th' \in [Callers -> Local] /\ \A u \in Callers \ {t} : th'[u] = th[u]
        /\ th'[t].phase = "idle"
    BY <1>0, <1>13, LeaveEffect DEF Finish
  <2>2. th[t].first.ok \in BOOLEAN
    BY <1>0 DEF Local, Reply
  <2>3. connected' \in BOOLEAN /\ state' \in States
    <3>1. CASE th[t].op = "connect"
      BY <1>0, <1>13, <2>2, <3>1 DEF Finish, States
    <3>2. CASE th[t].op = "disconnect"
      BY <1>0, <1>13, <3>2 DEF Finish, States
    <3>3. CASE th[t].op # "connect" /\ th[t].op # "disconnect"
      BY <1>0, <1>13, <3>3 DEF Finish
    <3> QED BY <3>1, <3>2, <3>3
  <2>4. Typed'
    BY <1>0, <1>13, <2>1, <2>3 DEF Finish
  <2> QED BY <1>A, <2>1, <2>4
<1>14. ASSUME NEW t \in Callers, WaitForAgain(t) PROVE TypeInv'
  <2>1. "wait_for" \in DOMAIN Script
    BY DEF Script
  <2>2. /\ th' \in [Callers -> Local] /\ \A u \in Callers \ {t} : th'[u] = th[u]
        /\ th'[t].phase = "call" /\ th'[t].rest # <<>>
    BY <1>0, <1>14, <2>1, EnterEffect, WholeIsSuffix DEF WaitForAgain
  <2>3. Typed'
    BY <1>0, <1>14, <2>2 DEF WaitForAgain
  <2> QED BY <1>A, <2>2, <2>3
<1>15. CASE Handle
  <2>0. PICK i \in DOMAIN owed : \E o \in Outcomes(log[owed[i]].kind) :
           /\ log' = [log EXCEPT ![owed[i]].reply =
                        [ok |-> o.ok, locked |-> o.locked, screen |-> screen]]
           /\ host' = o.host /\ locked' = o.locked
           /\ lost' = (lost /\ ~(o.host /\ ~host))
           /\ UNCHANGED <<session, channel, alive, screen, th>>
    BY <1>15 DEF Handle
  <2>1. PICK o \in Outcomes(log[owed[i]].kind) :
           /\ log' = [log EXCEPT ![owed[i]].reply =
                        [ok |-> o.ok, locked |-> o.locked, screen |-> screen]]
           /\ host' = o.host /\ locked' = o.locked
           /\ lost' = (lost /\ ~(o.host /\ ~host))
           /\ UNCHANGED <<session, channel, alive, screen, th>>
    BY <2>0
  <2>2. o.ok \in BOOLEAN /\ o.host \in BOOLEAN /\ o.locked \in BOOLEAN
    BY <1>0, <2>1, OutcomeType
  <2>3. owed[i] \in Commands
    BY <1>0
  <2>4. log' \in [Commands -> Entry]
    BY <1>0, <2>1, <2>2, <2>3 DEF Entry
  <2>5. Typed'
    BY <1>0, <2>1, <2>2, <2>4
  <2> QED BY <2>1, <2>5 DEF TypeInv
<1>16. CASE HostSends \/ HostUnlocks
  <2>1. screen' \in 0..MaxScreens /\ locked' \in BOOLEAN
    <3>1. CASE HostSends
      BY <1>0, <3>1, BoundsAssumption DEF HostSends
    <3>2. CASE HostUnlocks
      BY <1>0, <3>2 DEF HostUnlocks
    <3> QED BY <1>16, <3>1, <3>2
  <2>2. UNCHANGED <<session, channel, log, alive, host, lost, th>>
    BY <1>16 DEF HostSends, HostUnlocks
  <2> QED BY <1>0, <2>1, <2>2 DEF TypeInv
<1>17. CASE HostDrops
  BY <1>0, <1>17 DEF HostDrops, TypeInv
<1>18. CASE Die
  <2>1. Typed'
    BY <1>0, <1>3, <1>18 DEF Die
  <2> QED BY <1>18, <2>1 DEF Die, TypeInv
<1>19. CASE UNCHANGED vars
  BY <1>0, <1>19 DEF vars, TypeInv
<1>20. ASSUME NEW t \in Callers, Command(t) PROVE TypeInv'
  <2>1. TextRefused(t) \/ CallDead(t) \/ CallStopped(t) \/ CallBusy(t) \/ TimedOut(t) \/ Died(t)
          => Goto(t, "failed") \/ Leave(t)
    BY DEF TextRefused, CallDead, CallStopped, CallBusy, TimedOut, Died
  <2>2. TextRefused(t) \/ CallDead(t) \/ CallStopped(t) \/ CallBusy(t) \/ TimedOut(t) \/ Died(t)
          => /\ UNCHANGED <<session, log, emulator>>
             /\ UNCHANGED channel \/ (Ch!GiveUp /\ stopped' \in BOOLEAN)
    BY <1>0 DEF TextRefused, CallDead, CallStopped, CallBusy, TimedOut, Died
  <2> QED BY <1>7, <1>8, <1>9, <1>10, <1>11, <1>12, <1>20, <2>1, <2>2 DEF Command
<1>21. ASSUME NEW t \in Callers, WaitForEnds(t) PROVE TypeInv'
  BY <1>7, <1>21 DEF WaitForEnds
<1> QED
  BY <1>1, <1>2, <1>4, <1>5, <1>6, <1>13, <1>14, <1>15, <1>16, <1>17, <1>18, <1>19, <1>20, <1>21
     DEF Next, Starts, Working

(* Every step keeps the numbers apart.                                     *)
LEMMA HandStep == TypeInv /\ HandInv /\ [Next]_vars => HandInv'
<1> SUFFICES ASSUME TypeInv, HandInv, [Next]_vars PROVE HandInv'
  OBVIOUS
<1>0. /\ th \in [Callers -> Local] /\ log \in [Commands -> Entry] /\ owed \in Seq(Commands)
      /\ current \in 0..MaxIds /\ answer \in 0..MaxIds
      /\ \A t \in Callers : In(t, "took") => th[t].cmd \in Commands
  BY CommandType DEF TypeInv, Typed, Local
<1>H. Owed = Elements(owed) /\ Owed' = Elements(owed')
  BY DEF Owed, Elements
<1> USE DEF In, session, channel, emulator, Replied
(* A caller without an answer in hand, and nothing else.                   *)
<1>A. ASSUME NEW t \in Callers, \A u \in Callers \ {t} : th'[u] = th[u],
             th'[t].phase # "took",
             owed' = owed, answer' = answer, answer' # 0 => current' # 0,
             \A c \in Commands :
                 c = answer \/ (\E u \in Callers \ {t} : In(u, "took") /\ c = th[u].cmd)
                 => log'[c] = log[c]
      PROVE  HandInv'
  <2>1. Owed' = Owed
    BY <1>A DEF Owed
  <2>2. answer # 0 => answer \in Commands
    BY <1>0, CommandType
  <2> QED BY <1>0, <1>A, <2>1, <2>2 DEF HandInv
<1>1. ASSUME NEW t \in Callers, StartOp(t) PROVE HandInv'
  <2>1. /\ \A u \in Callers \ {t} : th'[u] = th[u]
        /\ th'[t].phase = "started" /\ answer' = answer /\ current' = current
        /\ owed' = <<>> \/ owed' = owed
        /\ \A c \in Commands :
             log'[c] = IF c \in Owed /\ c \notin Owed' THEN Unused ELSE log[c]
    BY <1>1, StartEffect DEF TypeInv
  <2>2. Distinct(owed') /\ Owed' \subseteq Owed
    BY <2>1 DEF Owed, Distinct, HandInv
  <2>3. answer # 0 => answer \in Commands
    BY <1>0, CommandType
  <2>4. \A c \in Commands : c \notin Owed => log'[c] = log[c]
    BY <2>1
  <2> QED BY <1>0, <2>1, <2>2, <2>3, <2>4 DEF HandInv
<1>2. ASSUME Gone, \A u \in Callers : th'[u].phase # "took" \/ th'[u] = th[u]
      PROVE  HandInv'
  <2>1. PICK n \in 0..Len(owed) : owed' = SubSeq(owed, 1, n)
    BY <1>2 DEF Gone, Ch!Lose
  <2>2. Distinct(owed') /\ Owed' \subseteq Owed
    BY <1>0, <1>H, <2>1, PrefixNumbers DEF HandInv
  <2>3. answer' = answer /\ current' = current
    BY <1>2 DEF Gone, Ch!Lose
  <2>4. \A c \in Commands : Replied(c) => log'[c] = log[c]
    BY <1>0, <1>2, ForgetEffect DEF Gone
  <2>5. answer # 0 => answer \in Commands
    BY <1>0, CommandType
  <2> QED BY <1>0, <1>2, <2>2, <2>3, <2>4, <2>5 DEF HandInv
<1>3. ASSUME NEW t \in Callers, StopOp(t) PROVE HandInv'
  BY <1>0, <1>2, <1>3, GotoEffect DEF StopOp
<1>4. ASSUME NEW t \in Callers,
             Started(t) \/ Stopped(t) \/ Failed(t) \/ Finish(t) \/ WaitForEnds(t)
             \/ TextRefused(t) \/ CallStopped(t) \/ CallBusy(t) \/ CallDead(t)
      PROVE  HandInv'
  <2>1. (Leave(t) \/ Goto(t, "failed")) /\ UNCHANGED <<channel, log>>
    BY <1>4 DEF Started, Stopped, Failed, Finish, WaitForEnds, TextRefused, CallStopped, CallBusy, CallDead
  <2>2. /\ \A u \in Callers \ {t} : th'[u] = th[u]
        /\ th'[t].phase # "took"
    BY <1>0, <2>1, GotoEffect, LeaveEffect
  <2>3. owed' = owed /\ answer' = answer /\ current' = current /\ log' = log
    BY <2>1
  <2> QED BY <1>A, <2>2, <2>3 DEF HandInv
<1>5. ASSUME NEW t \in Callers, NEW op \in DOMAIN Script, Begin(t, op) PROVE HandInv'
  <2>1. /\ \A u \in Callers \ {t} : th'[u] = th[u]
        /\ th'[t].phase # "took"
    BY <1>0, <1>5, EnterEffect DEF Begin
  <2> QED BY <1>5, <1>A, <2>1 DEF Begin, HandInv
<1>6. ASSUME NEW t \in Callers, WaitForAgain(t) PROVE HandInv'
  <2>1. "wait_for" \in DOMAIN Script
    BY DEF Script
  <2>2. /\ \A u \in Callers \ {t} : th'[u] = th[u]
        /\ th'[t].phase # "took"
    BY <1>0, <1>6, <2>1, EnterEffect DEF WaitForAgain
  <2> QED BY <1>6, <1>A, <2>2 DEF WaitForAgain, HandInv
<1>7. ASSUME NEW t \in Callers, TimedOut(t) \/ Died(t) PROVE HandInv'
  <2>1. (Leave(t) \/ Goto(t, "failed")) /\ Ch!GiveUp /\ log' = log
    BY <1>7 DEF TimedOut, Died
  <2>2. /\ \A u \in Callers \ {t} : th'[u] = th[u]
        /\ th'[t].phase # "took"
    BY <1>0, <2>1, GotoEffect, LeaveEffect
  <2>3. owed' = owed /\ answer' = answer /\ answer = 0
    BY <2>1 DEF Ch!GiveUp
  <2> QED BY <1>A, <2>1, <2>2, <2>3
<1>8. ASSUME NEW t \in Callers, Call(t) PROVE HandInv'
  <2>1. PICK c \in Commands \ (Owed \cup InHand) :
              /\ Ch!Write(c)
              /\ log' = [log EXCEPT ![c].kind = Head(th[t].rest)]
              /\ th' = [th EXCEPT ![t].phase = "wait", ![t].cmd = c]
    BY <1>8 DEF Call
  <2>2. /\ \A u \in Callers \ {t} : th'[u] = th[u]
        /\ th'[t].phase = "wait"
    BY <1>0, <2>1, NumberEffect
  <2>3. owed' = Append(owed, c) /\ answer' = answer /\ current = 0
    BY <2>1 DEF Ch!Write
  <2>4. Distinct(owed') /\ Owed' = Owed \cup {c}
    BY <1>0, <1>H, <2>1, <2>3, AppendNumbers DEF HandInv
  <2>5. \A d \in Commands : d # c => log'[d] = log[d]
    BY <1>0, <2>1
  <2>6. \A u \in Callers : In(u, "took") => th[u].cmd # c
    BY <2>1 DEF InHand
  <2> QED BY <1>0, <2>2, <2>3, <2>4, <2>5, <2>6 DEF HandInv
<1>9. ASSUME NEW t \in Callers, Answered(t) PROVE HandInv'
  <2>1. /\ owed # <<>> /\ answer = 0 /\ current # 0 /\ answer' = Head(owed) /\ owed' = Tail(owed)
        /\ Replied(Head(owed)) /\ log' = log /\ th' = th /\ current' = current
    BY <1>9 DEF Answered, Ch!Respond
  <2>2. Distinct(owed') /\ Owed' = Owed \ {Head(owed)} /\ Head(owed) \in Owed
    BY <1>0, <1>H, <2>1, TailNumbers DEF HandInv
  <2> QED BY <2>1, <2>2 DEF HandInv
<1>10. ASSUME NEW t \in Callers, Returned(t) PROVE HandInv'
  <2>1. answer \in Commands /\ answer # 0
    BY <1>0, <1>10, CommandType DEF Returned, Ch!Return
  <2>2. /\ \A u \in Callers \ {t} : th'[u] = th[u]
        /\ th'[t].phase = "took" /\ th'[t].cmd = answer
    BY <1>0, <1>10, <2>1, NumberEffect DEF Returned
  <2>3. answer' = 0 /\ owed' = owed /\ log' = log /\ Owed' = Owed
    BY <1>10 DEF Returned, Ch!Return, Owed
  <2>4. \A u \in Callers : In(u, "took") => th[u].cmd # answer /\ th[u].cmd # 0
    BY <1>0, CommandType DEF HandInv
  <2> QED BY <2>1, <2>2, <2>3, <2>4 DEF HandInv
<1>11. ASSUME NEW t \in Callers, Take(t) PROVE HandInv'
  <2>1. th[t].rest # <<>> /\ th[t].cmd \in Commands /\ In(t, "took")
    BY <1>0, <1>11 DEF Take, Store, TypeInv, Issuing
  <2>2. /\ \A u \in Callers \ {t} : th'[u] = th[u]
        /\ th'[t].phase # "took"
    BY <1>0, <1>11, <2>1, TakeEffect
  <2>3. \A c \in Commands : c # th[t].cmd => log'[c] = log[c]
    BY <1>0, <1>11, ForgetEffect DEF Take, Store
  <2>4. UNCHANGED channel
    BY <1>11 DEF Take, Store
  <2>5. answer # th[t].cmd /\ \A u \in Callers \ {t} : In(u, "took") => th[u].cmd # th[t].cmd
    BY <2>1 DEF HandInv
  <2> QED BY <1>A, <2>2, <2>3, <2>4, <2>5 DEF HandInv
<1>12. CASE Handle
  <2>1. PICK i \in DOMAIN owed : \E o \in Outcomes(log[owed[i]].kind) :
           /\ log' = [log EXCEPT ![owed[i]].reply =
                        [ok |-> o.ok, locked |-> o.locked, screen |-> screen]]
           /\ UNCHANGED <<channel, th>>
    BY <1>12 DEF Handle
  <2>2. owed[i] \in Owed /\ \A c \in Commands : c # owed[i] => log'[c] = log[c]
    BY <1>0, <2>1 DEF Owed
  <2>3. UNCHANGED <<owed, answer, current, th>> /\ Owed' = Owed
    BY <2>1 DEF Owed
  <2>4. answer # 0 => answer \in Commands
    BY <1>0, CommandType
  <2> QED BY <1>0, <2>2, <2>3, <2>4 DEF HandInv
<1>13. CASE UNCHANGED <<channel, log, th>>
  BY <1>13 DEF HandInv, Owed
<1>14. CASE Die
  BY <1>2, <1>14 DEF Die
<1>15. ASSUME NEW t \in Callers, Working(t) PROVE HandInv'
  BY <1>4, <1>6, <1>7, <1>8, <1>9, <1>10, <1>11, <1>15 DEF Working, Command
<1> QED
  BY <1>1, <1>3, <1>5, <1>12, <1>13, <1>14, <1>15
     DEF Next, Starts, HostSends, HostUnlocks, HostDrops, vars

(* Every variable keeps its type, for any callers, methods and bounds.     *)
THEOREM TypeCorrect == Spec => []TypeOK
<1>1. Init => TypeInv /\ HandInv
  <2>1. ASSUME Init PROVE HandInv
    <3>1. owed = <<>> /\ answer = 0 /\ \A t \in Callers : th[t].phase = "idle"
      BY <2>1, IdleType DEF Init, Ch!Init
    <3> QED BY <3>1 DEF HandInv, Distinct, In
  <2> QED BY <2>1, TypeInit
<1>2. TypeInv /\ HandInv /\ [Next]_vars => (TypeInv /\ HandInv)'
  BY TypeStep, HandStep
<1>3. TypeInv => TypeOK
  BY TypedIsTypeOK DEF TypeInv
<1> QED BY <1>1, <1>2, <1>3, PTL DEF Spec

-----------------------------------------------------------------------------
(***************************************************************************)
(* Every caller gets its own answer.                                       *)
(***************************************************************************)
(* The command in flight is that of the one caller that waits.             *)
WaitInv ==
    /\ \A t \in Callers : In(t, "wait") => current # 0 /\ th[t].cmd = current
    /\ \A t, u \in Callers : In(t, "wait") /\ In(u, "wait") => t = u
    /\ current # 0 => \E t \in Callers : In(t, "wait")

(* Unless a command was given up, what s3270 has or will have replied to   *)
(* the command in flight is the reply to the command its caller issued.    *)
OwnInv ==
    ~behind => \A t \in Callers :
        /\ In(t, "wait") /\ (alive \/ Replied(current))
             => log[current].kind = Head(th[t].rest)
        /\ In(t, "took") => th[t].cmd # current

(* Every step keeps the command in flight its caller's.                    *)
LEMMA OwnStep ==
    TypeInv /\ HandInv /\ WaitInv /\ OwnInv /\ [Next]_vars => WaitInv' /\ OwnInv'
<1> SUFFICES ASSUME TypeInv, HandInv, WaitInv, OwnInv, [Next]_vars PROVE WaitInv' /\ OwnInv'
  OBVIOUS
<1>0. /\ th \in [Callers -> Local] /\ log \in [Commands -> Entry] /\ owed \in Seq(Commands)
      /\ current \in 0..MaxIds /\ answer \in 0..MaxIds
      /\ \A t \in Callers : In(t, "took") => th[t].cmd \in Commands /\ th[t].cmd # 0
      /\ 0 \notin Commands
  BY CommandType DEF TypeInv, Typed, Local
<1> USE DEF In, session, channel, emulator, Replied
(* A caller that neither waits nor has an answer in hand before and after. *)
<1>A. ASSUME NEW t \in Callers, \A u \in Callers \ {t} : th'[u] = th[u],
             th[t].phase # "wait", th'[t].phase \notin {"wait", "took"},
             current' = current, ~behind' => ~behind, alive' => alive,
             current # 0 => \/ log'[current] = log[current]
                            \/ log'[current].reply = NoReply /\ ~alive'
      PROVE  WaitInv' /\ OwnInv'
  BY <1>A DEF WaitInv, OwnInv
<1>1. ASSUME NEW t \in Callers, StartOp(t) PROVE WaitInv' /\ OwnInv'
  <2>1. /\ \A u \in Callers \ {t} : th'[u] = th[u]
        /\ th[t].phase = "idle" /\ th'[t].phase = "started" /\ current' = current
        /\ behind' \/ current = 0
    BY <1>0, <1>1, StartEffect DEF TypeInv
  <2>2. WaitInv'
    BY <2>1 DEF WaitInv
  <2>3. ASSUME ~behind' PROVE \A u \in Callers : th'[u].phase # "wait"
    BY <2>1, <2>3 DEF WaitInv
  <2> QED BY <1>0, <2>1, <2>2, <2>3 DEF OwnInv
<1>2. ASSUME Gone
      PROVE  /\ current' = current /\ behind' = behind /\ alive' = FALSE
             /\ current # 0 => log'[current] = log[current] \/ log'[current].reply = NoReply
  <2>1. current # 0 => current \in Commands
    BY <1>0, CommandType
  <2> QED BY <1>0, <1>2, <2>1, ForgetEffect DEF Gone, Ch!Lose, Unused
<1>3. ASSUME NEW t \in Callers, StopOp(t) PROVE WaitInv' /\ OwnInv'
  <2>1. /\ \A u \in Callers \ {t} : th'[u] = th[u]
        /\ th'[t].phase = "stopped" /\ th[t].phase = "idle"
    BY <1>0, <1>3, GotoEffect DEF StopOp
  <2> QED BY <1>A, <1>2, <1>3, <2>1 DEF StopOp
<1>4. ASSUME NEW t \in Callers,
             Started(t) \/ Stopped(t) \/ Failed(t) \/ Finish(t) \/ WaitForEnds(t)
             \/ TextRefused(t) \/ CallStopped(t) \/ CallBusy(t) \/ CallDead(t)
      PROVE  WaitInv' /\ OwnInv'
  <2>1. (Leave(t) \/ Goto(t, "failed")) /\ UNCHANGED <<channel, log, alive>>
        /\ th[t].phase # "wait"
    BY <1>4 DEF Started, Stopped, Failed, Finish, WaitForEnds, TextRefused, CallStopped, CallBusy, CallDead
  <2>2. /\ \A u \in Callers \ {t} : th'[u] = th[u]
        /\ th'[t].phase \notin {"wait", "took"}
    BY <1>0, <2>1, GotoEffect, LeaveEffect
  <2>3. current' = current /\ (~behind' => ~behind) /\ (alive' => alive) /\ log' = log
    BY <2>1
  <2> QED BY <1>A, <2>1, <2>2, <2>3
<1>5. ASSUME NEW t \in Callers, NEW op \in DOMAIN Script, Begin(t, op)
      PROVE  WaitInv' /\ OwnInv'
  <2>1. /\ \A u \in Callers \ {t} : th'[u] = th[u]
        /\ th'[t].phase = "call" /\ th[t].phase = "idle"
    BY <1>0, <1>5, EnterEffect DEF Begin
  <2>2. current' = current /\ (~behind' => ~behind) /\ (alive' => alive) /\ log' = log
    BY <1>5 DEF Begin
  <2> QED BY <1>A, <2>1, <2>2
<1>6. ASSUME NEW t \in Callers, WaitForAgain(t) PROVE WaitInv' /\ OwnInv'
  <2>1. "wait_for" \in DOMAIN Script
    BY DEF Script
  <2>2. /\ \A u \in Callers \ {t} : th'[u] = th[u]
        /\ th'[t].phase = "call" /\ th[t].phase = "finish"
    BY <1>0, <1>6, <2>1, EnterEffect DEF WaitForAgain
  <2>3. current' = current /\ (~behind' => ~behind) /\ (alive' => alive) /\ log' = log
    BY <1>6 DEF WaitForAgain
  <2> QED BY <1>A, <2>2, <2>3
<1>7. ASSUME NEW t \in Callers, TimedOut(t) \/ Died(t) PROVE WaitInv' /\ OwnInv'
  <2>1. (Leave(t) \/ Goto(t, "failed")) /\ Ch!GiveUp /\ th[t].phase = "wait"
    BY <1>7 DEF TimedOut, Died
  <2>2. /\ \A u \in Callers \ {t} : th'[u] = th[u]
        /\ th'[t].phase # "wait"
    BY <1>0, <2>1, GotoEffect, LeaveEffect
  <2>3. behind' /\ current' = 0
    BY <2>1 DEF Ch!GiveUp
  <2> QED BY <2>1, <2>2, <2>3 DEF WaitInv, OwnInv
<1>8. ASSUME NEW t \in Callers, Call(t) PROVE WaitInv' /\ OwnInv'
  <2>1. PICK c \in Commands \ (Owed \cup InHand) :
              /\ Ch!Write(c)
              /\ log' = [log EXCEPT ![c].kind = Head(th[t].rest)]
              /\ th' = [th EXCEPT ![t].phase = "wait", ![t].cmd = c]
    BY <1>8 DEF Call
  <2>2. /\ \A u \in Callers \ {t} : th'[u] = th[u]
        /\ th'[t].phase = "wait" /\ th'[t].cmd = c /\ th'[t].rest = th[t].rest
    BY <1>0, <2>1, NumberEffect
  <2>3. current' = c /\ current = 0
    BY <2>1 DEF Ch!Write
  <2>4. log'[c].kind = Head(th[t].rest)
    BY <1>0, <2>1 DEF Entry
  <2>5. \A u \in Callers : In(u, "took") => th[u].cmd # c
    BY <2>1 DEF InHand
  <2>6. \A u \in Callers \ {t} : th'[u].phase # "wait"
    BY <2>2, <2>3 DEF WaitInv
  <2> QED BY <1>0, <2>2, <2>3, <2>4, <2>5, <2>6 DEF WaitInv, OwnInv
<1>9. ASSUME NEW t \in Callers, Answered(t) PROVE WaitInv' /\ OwnInv'
  BY <1>9 DEF Answered, Ch!Respond, WaitInv, OwnInv
<1>10. ASSUME NEW t \in Callers, Returned(t) PROVE WaitInv' /\ OwnInv'
  <2>1. answer \in Commands /\ th[t].phase = "wait"
    BY <1>0, <1>10, CommandType DEF Returned, Ch!Return
  <2>2. /\ \A u \in Callers \ {t} : th'[u] = th[u]
        /\ th'[t].phase = "took" /\ th'[t].cmd = answer
    BY <1>0, <1>10, <2>1, NumberEffect DEF Returned
  <2>3. current' = 0
    BY <1>10 DEF Returned, Ch!Return
  <2>4. \A u \in Callers : th'[u].phase # "wait"
    BY <2>1, <2>2 DEF WaitInv
  <2> QED BY <1>0, <2>1, <2>2, <2>3, <2>4 DEF WaitInv, OwnInv
<1>11. ASSUME NEW t \in Callers, Take(t) PROVE WaitInv' /\ OwnInv'
  <2>1. th[t].rest # <<>> /\ th[t].cmd \in Commands /\ In(t, "took")
    BY <1>0, <1>11 DEF Take, Store, TypeInv, Issuing
  <2>2. /\ \A u \in Callers \ {t} : th'[u] = th[u]
        /\ th'[t].phase \notin {"wait", "took"}
    BY <1>0, <1>11, <2>1, TakeEffect
  <2>3. \A c \in Commands : c # th[t].cmd => log'[c] = log[c]
    BY <1>0, <1>11, ForgetEffect DEF Take, Store
  <2>4. /\ UNCHANGED <<channel, alive>>
        /\ current' = current /\ (~behind' => ~behind) /\ (alive' => alive)
    BY <1>11 DEF Take, Store
  <2>5. CASE behind
    BY <2>1, <2>2, <2>4, <2>5 DEF WaitInv, OwnInv
  <2>6. CASE ~behind
    <3>1. current # 0 => current \in Commands /\ current # th[t].cmd
      BY <1>0, <2>1, <2>6, CommandType DEF OwnInv
    <3> QED BY <1>A, <2>1, <2>2, <2>3, <2>4, <3>1
  <2> QED BY <2>5, <2>6
<1>12. CASE Handle
  <2>1. PICK i \in DOMAIN owed : \E o \in Outcomes(log[owed[i]].kind) :
           /\ log' = [log EXCEPT ![owed[i]].reply =
                        [ok |-> o.ok, locked |-> o.locked, screen |-> screen]]
           /\ UNCHANGED <<channel, th, alive>>
    BY <1>12 DEF Handle
  <2>2. owed[i] \in Commands /\ \A c \in Commands : log'[c].kind = log[c].kind
    BY <1>0, <2>1 DEF Entry
  <2>3. current # 0 => current \in Commands
    BY <1>0, CommandType
  <2>4. alive
    BY <1>12 DEF Handle
  <2> QED BY <2>1, <2>2, <2>3, <2>4 DEF WaitInv, OwnInv
<1>13. CASE UNCHANGED <<channel, log, th, alive>>
  BY <1>13 DEF WaitInv, OwnInv
<1>14. CASE Die
  BY <1>2, <1>14 DEF Die, WaitInv, OwnInv
<1>15. ASSUME NEW t \in Callers, Working(t) PROVE WaitInv' /\ OwnInv'
  BY <1>4, <1>6, <1>7, <1>8, <1>9, <1>10, <1>11, <1>15 DEF Working, Command
<1> QED
  BY <1>1, <1>3, <1>5, <1>12, <1>13, <1>14, <1>15
     DEF Next, Starts, HostSends, HostUnlocks, HostDrops, vars

SharedInv == TypeInv /\ HandInv /\ Ch!InStepInv /\ WaitInv /\ OwnInv

(* The invariant of any number of callers holds at first.                  *)
LEMMA SharedInit == Init => SharedInv
<1> SUFFICES ASSUME Init PROVE SharedInv
  OBVIOUS
<1>1. owed = <<>> /\ answer = 0 /\ current = 0 /\ \A t \in Callers : th[t].phase = "idle"
  BY IdleType DEF Init, Ch!Init
<1>2. TypeInv /\ HandInv
  BY <1>1, TypeInit DEF HandInv, Distinct, In
<1>3. Ch!TypeOK
  BY <1>2, TypedIsTypeOK DEF TypeInv, TypeOK
<1>4. Ch!InStepInv
  BY <1>1, <1>3 DEF Ch!InStepInv
<1> QED BY <1>1, <1>2, <1>4 DEF SharedInv, WaitInv, OwnInv, In

(* Every step keeps it.                                                    *)
LEMMA SharedStep == SharedInv /\ [Next]_vars => SharedInv'
BY TypeStep, HandStep, OwnStep, ChannelStep, ChannelInductive DEF SharedInv

(* execute() hands a caller the answer of the very command it wrote, with  *)
(* any callers writing before and between and any restarts, unless a       *)
(* command was given up or a start() overlapped another caller's method    *)
(* (terminal.py 152, transport.py 193-204).                                *)
THEOREM OwnAnswers == Spec => AnswerIsOwn
<1>1. ASSUME SharedInv, NEW t \in Callers, Returned(t), ~behind
      PROVE  answer = th[t].cmd
  <2>1. answer # 0 /\ In(t, "wait")
    BY <1>1 DEF Returned, Ch!Return
  <2>2. answer = current
    BY <1>1, <2>1 DEF SharedInv, Ch!InStepInv
  <2> QED BY <1>1, <2>1, <2>2 DEF SharedInv, WaitInv
<1>2. SharedInv /\ [Next]_vars
        => [\A t \in Callers : Returned(t) /\ ~behind => answer = th[t].cmd]_vars
  BY <1>1
<1> QED BY <1>2, SharedInit, SharedStep, PTL DEF Spec, AnswerIsOwn

-----------------------------------------------------------------------------
(***************************************************************************)
(* What the numbers that are free stand for, and the age of the screens.   *)
(***************************************************************************)
(* A number that no command at work has is as new.                         *)
LogInv == \A c \in Commands : c \notin Owed \cup InHand \cup {answer} => log[c] = Unused

(* No reply and no buffer holds a screen the host has yet to send.         *)
ScreenInv == /\ \A c \in Commands : log[c].reply.screen <= screen
             /\ buffer.screen <= screen

(* Every step keeps free numbers as new.                                   *)
LEMMA LogStep == TypeInv /\ HandInv /\ LogInv /\ [Next]_vars => LogInv'
<1> SUFFICES ASSUME TypeInv, HandInv, LogInv, [Next]_vars PROVE LogInv'
  OBVIOUS
<1>0. /\ th \in [Callers -> Local] /\ log \in [Commands -> Entry] /\ owed \in Seq(Commands)
      /\ answer \in 0..MaxIds
      /\ \A t \in Callers : In(t, "took") => th[t].cmd \in Commands
  BY CommandType DEF TypeInv, Typed, Local
<1>H. /\ \A c \in Commands :
              c \in InHand <=> \E u \in Callers : th[u].phase = "took" /\ th[u].cmd = c
      /\ \A c \in Commands :
              c \in InHand' <=> \E u \in Callers : th'[u].phase = "took" /\ th'[u].cmd = c
      /\ Owed = Elements(owed) /\ Owed' = Elements(owed')
  BY DEF InHand, In, Owed, Elements
<1> USE DEF In, session, channel, emulator, Replied
<1>A. ASSUME NEW t \in Callers, \A u \in Callers \ {t} : th'[u] = th[u],
             th[t].phase # "took", owed' = owed, answer' = answer, log' = log
      PROVE  LogInv'
  BY <1>A, <1>H DEF LogInv
<1>1. ASSUME NEW t \in Callers, StartOp(t) PROVE LogInv'
  <2>1. /\ \A u \in Callers \ {t} : th'[u] = th[u]
        /\ th[t].phase = "idle" /\ answer' = answer
        /\ \A c \in Commands :
             log'[c] = IF c \in Owed /\ c \notin Owed' THEN Unused ELSE log[c]
    BY <1>1, StartEffect DEF TypeInv
  <2> QED BY <1>H, <2>1 DEF LogInv
<1>2. ASSUME Gone, \A u \in Callers : th[u].phase = "took" => th'[u] = th[u]
      PROVE  LogInv'
  <2>1. PICK n \in 0..Len(owed) : owed' = SubSeq(owed, 1, n)
    BY <1>2 DEF Gone, Ch!Lose
  <2>2. /\ \A c \in Commands : log'[c] = IF c \in {d \in Owed : ~Replied(d)} THEN Unused ELSE log[c]
        /\ \A i \in DOMAIN owed : Replied(owed[i]) <=> i \in DOMAIN owed'
        /\ answer' = answer
    BY <1>0, <1>2, ForgetEffect DEF Gone, Ch!Lose
  <2>3. ASSUME NEW c \in Owed, c \notin Owed' PROVE ~Replied(c)
    <3>1. PICK i \in DOMAIN owed : c = owed[i]
      BY <1>H, <2>3 DEF Elements
    <3>2. i \notin DOMAIN owed'
      BY <1>0, <1>H, <2>1, <2>3, <3>1, PrefixNumbers DEF Elements
    <3> QED BY <2>2, <3>1, <3>2
  <2> QED BY <1>2, <1>H, <2>2, <2>3 DEF LogInv
<1>3. ASSUME NEW t \in Callers, StopOp(t) PROVE LogInv'
  BY <1>0, <1>2, <1>3, GotoEffect DEF StopOp
<1>4. ASSUME NEW t \in Callers,
             Started(t) \/ Stopped(t) \/ Failed(t) \/ Finish(t) \/ WaitForEnds(t)
             \/ TextRefused(t) \/ CallStopped(t) \/ CallBusy(t) \/ CallDead(t) \/ TimedOut(t) \/ Died(t)
      PROVE  LogInv'
  <2>1. (Leave(t) \/ Goto(t, "failed")) /\ owed' = owed /\ answer' = answer /\ log' = log
        /\ th[t].phase # "took"
    BY <1>4 DEF Started, Stopped, Failed, Finish, WaitForEnds, TextRefused, CallStopped, CallBusy, CallDead,
                TimedOut, Died, Ch!GiveUp
  <2>2. \A u \in Callers \ {t} : th'[u] = th[u]
    BY <1>0, <2>1, GotoEffect, LeaveEffect
  <2> QED BY <1>A, <2>1, <2>2
<1>5. ASSUME NEW t \in Callers, NEW op \in DOMAIN Script, Begin(t, op) PROVE LogInv'
  <2>1. /\ \A u \in Callers \ {t} : th'[u] = th[u]
        /\ th[t].phase # "took" /\ owed' = owed /\ answer' = answer /\ log' = log
    BY <1>0, <1>5, EnterEffect DEF Begin
  <2> QED BY <1>A, <2>1
<1>6. ASSUME NEW t \in Callers, WaitForAgain(t) PROVE LogInv'
  <2>1. "wait_for" \in DOMAIN Script
    BY DEF Script
  <2>2. /\ \A u \in Callers \ {t} : th'[u] = th[u]
        /\ th[t].phase # "took" /\ owed' = owed /\ answer' = answer /\ log' = log
    BY <1>0, <1>6, <2>1, EnterEffect DEF WaitForAgain
  <2> QED BY <1>A, <2>2
<1>8. ASSUME NEW t \in Callers, Call(t) PROVE LogInv'
  <2>1. PICK c \in Commands \ (Owed \cup InHand) :
              /\ Ch!Write(c)
              /\ log' = [log EXCEPT ![c].kind = Head(th[t].rest)]
              /\ th' = [th EXCEPT ![t].phase = "wait", ![t].cmd = c]
    BY <1>8 DEF Call
  <2>2. /\ \A u \in Callers \ {t} : th'[u] = th[u]
        /\ th[t].phase # "took"
    BY <1>0, <1>8, <2>1, NumberEffect DEF Call
  <2>3. owed' = Append(owed, c) /\ answer' = answer
    BY <2>1 DEF Ch!Write
  <2>4. Owed' = Owed \cup {c}
    BY <1>0, <1>H, <2>1, <2>3, AppendNumbers
  <2>5. \A d \in Commands : d # c => log'[d] = log[d]
    BY <1>0, <2>1
  <2> QED BY <1>H, <2>2, <2>3, <2>4, <2>5 DEF LogInv
<1>9. ASSUME NEW t \in Callers, Answered(t) PROVE LogInv'
  <2>1. /\ owed # <<>> /\ answer = 0 /\ answer' = Head(owed) /\ owed' = Tail(owed)
        /\ log' = log /\ th' = th
    BY <1>9 DEF Answered, Ch!Respond
  <2>2. Owed' = Owed \ {Head(owed)} /\ InHand' = InHand
    BY <1>0, <1>H, <2>1, TailNumbers DEF HandInv, InHand
  <2>3. 0 \notin Commands
    BY CommandType
  <2> QED BY <2>1, <2>2, <2>3 DEF LogInv
<1>10. ASSUME NEW t \in Callers, Returned(t) PROVE LogInv'
  <2>1. answer \in Commands /\ th[t].phase = "wait"
    BY <1>0, <1>10, CommandType DEF Returned, Ch!Return
  <2>2. /\ \A u \in Callers \ {t} : th'[u] = th[u]
        /\ th'[t].phase = "took" /\ th'[t].cmd = answer
    BY <1>0, <1>10, <2>1, NumberEffect DEF Returned
  <2>3. owed' = owed /\ log' = log
    BY <1>10 DEF Returned, Ch!Return
  <2> QED BY <1>H, <2>1, <2>2, <2>3 DEF LogInv
<1>11. ASSUME NEW t \in Callers, Take(t) PROVE LogInv'
  <2>1. th[t].rest # <<>> /\ th[t].cmd \in Commands
    BY <1>0, <1>11 DEF Take, Store, TypeInv, Issuing
  <2>2. \A u \in Callers \ {t} : th'[u] = th[u]
    BY <1>0, <1>11, <2>1, TakeEffect
  <2>3. \A c \in Commands : log'[c] = IF c \in {th[t].cmd} THEN Unused ELSE log[c]
    BY <1>0, <1>11, ForgetEffect DEF Take, Store
  <2>4. UNCHANGED channel
    BY <1>11 DEF Take, Store
  <2> QED BY <1>H, <2>2, <2>3, <2>4 DEF LogInv
<1>12. CASE Handle
  <2>1. PICK i \in DOMAIN owed : \E o \in Outcomes(log[owed[i]].kind) :
           /\ log' = [log EXCEPT ![owed[i]].reply =
                        [ok |-> o.ok, locked |-> o.locked, screen |-> screen]]
           /\ UNCHANGED <<channel, th>>
    BY <1>12 DEF Handle
  <2>2. owed[i] \in Owed /\ \A c \in Commands : c # owed[i] => log'[c] = log[c]
    BY <1>0, <2>1 DEF Owed
  <2>3. Owed' = Owed /\ InHand' = InHand /\ answer' = answer
    BY <2>1 DEF Owed, InHand
  <2> QED BY <2>2, <2>3 DEF LogInv
<1>13. CASE UNCHANGED <<channel, log, th>>
  BY <1>13, <1>H DEF LogInv
<1>14. CASE Die
  BY <1>2, <1>14 DEF Die
<1>15. ASSUME NEW t \in Callers, Working(t) PROVE LogInv'
  BY <1>4, <1>6, <1>8, <1>9, <1>10, <1>11, <1>15 DEF Working, Command
<1> QED
  BY <1>1, <1>3, <1>5, <1>12, <1>13, <1>14, <1>15
     DEF Next, Starts, HostSends, HostUnlocks, HostDrops, vars

-----------------------------------------------------------------------------
(***************************************************************************)
(* How far a method has come.                                              *)
(***************************************************************************)
(* What a suffix of a method's commands tells of the method.               *)
LEMMA SuffixTells ==
    ASSUME NEW op \in DOMAIN Script, NEW s \in Suffixes(op)
    PROVE  /\ Head(s) = "Connect" <=> op = "connect" /\ s = Script[op]
           /\ Head(s) = "Disconnect" <=> op = "disconnect"
           /\ op = "disconnect" => Tail(s) = <<>>
           /\ op = "connect" => Head(s) # "String"
           /\ op = "key" =>
                \/ s = Script[op] /\ Head(s) = "Key" /\ Head(Tail(s)) = "Wait(Unlock)"
                \/ s # Script[op] /\ Head(s) = "Wait(Unlock)" /\ Head(Tail(s)) = "Ascii1"
                \/ s # Script[op] /\ Head(s) = "Ascii1" /\ Tail(s) = <<>>
           /\ op = "key" /\ Head(s) # "Ascii1" => Tail(s) # <<>>
           /\ Tail(s) # Script[op]
<1> DEFINE A == Script[op]
           n == Len(A)
<1>1. A \in Seq(Kinds) /\ n \in 1..3
  BY ScriptType
<1>2. PICK i \in 1..n : s = SubSeq(A, i, n)
  BY DEF Suffixes
<1>3. s \in Seq(Kinds) /\ Len(s) = n - i + 1
  <2>1. i \in 1..(n + 1) /\ i \in 1..Len(A) /\ n \in 0..Len(A)
    BY <1>1
  <2> QED BY <1>1, <1>2, <2>1, SubSeqProperties
<1>4. Head(s) = A[i] /\ Tail(s) = SubSeq(A, i + 1, n)
  BY <1>1, <1>2, HeadTailOfSubSeq
<1>5. Len(Tail(s)) = n - i /\ Tail(s) \in Seq(Kinds)
  BY <1>1, <1>3, HeadTailProperties
<1>6. i < n => Head(Tail(s)) = A[i + 1]
  <2>1. i < n => i + 1 \in 1..Len(A) /\ n \in (i + 1)..Len(A)
    BY <1>1
  <2> QED BY <1>1, <1>4, <2>1, HeadTailOfSubSeq
<1>7. s = A <=> i = 1
  BY <1>1, <1>2, <1>3, SubSeqFull
<1>8. Tail(s) # A
  BY <1>1, <1>5
<1>9. Tail(s) = <<>> <=> i = n
  <2>1. Tail(s) = <<>> <=> Len(Tail(s)) = 0
    BY <1>5, EmptySeq
  <2> QED BY <1>1, <1>5, <2>1
<1>10. CASE op = "connect"
  <2>1. n = 3 /\ A[1] = "Connect" /\ A[2] = "Wait(Unlock)" /\ A[3] = "Ascii1"
    BY <1>10 DEF Script
  <2>2. i = 1 \/ i = 2 \/ i = 3
    BY <2>1
  <2> QED BY <1>4, <1>7, <1>8, <1>10, <2>1, <2>2
<1>11. CASE op = "key"
  <2>1. n = 3 /\ A[1] = "Key" /\ A[2] = "Wait(Unlock)" /\ A[3] = "Ascii1"
    BY <1>11 DEF Script
  <2>2. i = 1 \/ i = 2 \/ i = 3
    BY <2>1
  <2> QED BY <1>4, <1>6, <1>7, <1>8, <1>9, <1>11, <2>1, <2>2
<1>12. CASE op = "disconnect"
  <2>1. n = 1 /\ A[1] = "Disconnect"
    BY <1>12 DEF Script
  <2> QED BY <1>4, <1>8, <1>9, <1>12, <2>1
<1>13. CASE op \notin {"connect", "key", "disconnect"}
  <2>1. \A j \in 1..n : A[j] \notin {"Connect", "Disconnect"}
    <3>1. \A x, y, z : /\ Len(<<x, y, z>>) = 3 /\ Len(<<x, y>>) = 2 /\ Len(<<x>>) = 1
                       /\ <<x, y, z>>[1] = x /\ <<x, y, z>>[2] = y /\ <<x, y, z>>[3] = z
                       /\ <<x, y>>[1] = x /\ <<x, y>>[2] = y /\ <<x>>[1] = x
      OBVIOUS
    <3>2. A \in {<<"EraseInput", "Wait(Unlock)", "Ascii1">>, <<"Wait(Unlock)", "Ascii1">>,
                 <<"MoveCursor", "String">>, <<"Wait(Unlock)", "Wait(Output)">>, <<"Key", "Query">>,
                 <<"String">>, <<"MoveCursor">>, <<"Wait(Unlock)">>, <<"Wait(Output)">>,
                 <<"Key">>, <<"Query">>}
      BY <1>13 DEF Script
    <3> HIDE DEF A
    <3>3. ASSUME NEW j \in 1..n PROVE A[j] \notin {"Connect", "Disconnect"}
      <4>1. j = 1 \/ j = 2 \/ j = 3
        <5>1. \A m \in 1..3 : \A k \in 1..m : k = 1 \/ k = 2 \/ k = 3
          OBVIOUS
        <5> QED BY <1>1, <5>1
      <4> QED BY <3>1, <3>2, <3>3, <4>1
    <3> QED BY <3>3
  <2> QED BY <1>4, <1>8, <1>13, <2>1
<1> QED BY <1>10, <1>11, <1>12, <1>13

(* Every step keeps the screens in order.                                  *)
LEMMA ScreenStep == TypeInv /\ HandInv /\ ScreenInv /\ [Next]_vars => ScreenInv'
<1> SUFFICES ASSUME TypeInv, HandInv, ScreenInv, [Next]_vars PROVE ScreenInv'
  OBVIOUS
<1>0. /\ log \in [Commands -> Entry] /\ screen \in Nat /\ buffer.screen \in Nat
      /\ owed \in Seq(Commands)
      /\ \A t \in Callers : In(t, "took") => th[t].cmd \in Commands
  BY CommandType, BoundsAssumption DEF TypeInv, Typed, Local
<1> USE DEF session, channel, emulator
<1>1. ASSUME NEW C, Forget(C), buffer'.screen <= screen, screen' = screen PROVE ScreenInv'
  <2>1. \A c \in Commands : log'[c] = Unused \/ log'[c] = log[c]
    BY <1>0, <1>1, ForgetEffect
  <2>2. Unused.reply.screen = -1
    BY DEF Unused, NoReply
  <2> QED BY <1>0, <1>1, <2>1, <2>2 DEF ScreenInv
<1>2. ASSUME NEW t \in Callers, Starts(t) PROVE ScreenInv'
  <2>1. CASE StartOp(t)
    BY <1>1, <2>1 DEF StartOp, Launched, ScreenInv
  <2>2. CASE StopOp(t)
    BY <1>1, <2>2 DEF StopOp, Gone, ScreenInv
  <2>3. CASE \E op \in DOMAIN Script : Begin(t, op)
    BY <2>3 DEF Begin, ScreenInv
  <2> QED BY <1>2, <2>1, <2>2, <2>3 DEF Starts
<1>3. ASSUME NEW t \in Callers, Call(t) PROVE ScreenInv'
  <2>1. PICK c \in Commands : log' = [log EXCEPT ![c].kind = Head(th[t].rest)]
    BY <1>3 DEF Call
  <2>2. \A d \in Commands : log'[d].reply = log[d].reply
    BY <1>0, <2>1 DEF Entry
  <2> QED BY <1>3, <2>2 DEF Call, ScreenInv
<1>4. ASSUME NEW t \in Callers, Take(t) PROVE ScreenInv'
  <2>1. buffer' = buffer \/ buffer'.screen = log[th[t].cmd].reply.screen
    BY <1>4 DEF Take, Store, Shown
  <2>2. th[t].cmd \in Commands
    BY <1>0, <1>4 DEF Take, Store
  <2> QED BY <1>1, <1>4, <2>1, <2>2 DEF Take, Store, ScreenInv
<1>5. ASSUME NEW t \in Callers, Working(t) PROVE ScreenInv'
  <2>1. Call(t) \/ Take(t) \/ UNCHANGED <<log, screen, buffer>>
    BY <1>5 DEF Working, Command, Started, Stopped, Failed, Finish, WaitForEnds, WaitForAgain,
                TextRefused, CallStopped, CallBusy, CallDead, Answered, Returned, TimedOut, Died
  <2> QED BY <1>3, <1>4, <2>1 DEF ScreenInv
<1>6. CASE Handle
  <2>1. PICK i \in DOMAIN owed : \E o \in Outcomes(log[owed[i]].kind) :
           /\ log' = [log EXCEPT ![owed[i]].reply =
                        [ok |-> o.ok, locked |-> o.locked, screen |-> screen]]
           /\ UNCHANGED <<screen, buffer>>
    BY <1>6 DEF Handle
  <2>2. \A c \in Commands : log'[c] = log[c] \/ log'[c].reply.screen = screen
    BY <1>0, <2>1 DEF Entry
  <2> QED BY <1>0, <2>1, <2>2 DEF ScreenInv
<1>7. CASE HostSends
  <2>1. screen' = screen + 1 /\ log' = log /\ buffer' = buffer
    BY <1>7 DEF HostSends
  <2>2. \A c \in Commands : log[c].reply.screen \in Int
    BY <1>0, BoundsAssumption DEF Entry, NoReply
  <2> QED BY <1>0, <2>1, <2>2 DEF ScreenInv
<1>8. CASE Die
  BY <1>1, <1>8 DEF Die, Gone, ScreenInv
<1>9. CASE HostUnlocks \/ HostDrops \/ UNCHANGED vars
  BY <1>9 DEF HostUnlocks, HostDrops, vars, ScreenInv
<1> QED BY <1>2, <1>5, <1>6, <1>7, <1>8, <1>9 DEF Next

-----------------------------------------------------------------------------
(***************************************************************************)
(* One caller.  The session object carries no lock of its own: what its    *)
(* state says is promised to one thread only.                              *)
(***************************************************************************)
Alone == \E t : Callers = {t}

Next1(t)   == Head(th[t].rest)              \* the command it issues
Got(t)     == log[th[t].cmd].reply          \* the reply to it
HasGot(t)  == th[t].phase \in {"wait", "took"} /\ Replied(th[t].cmd)
Within(t)  == Issuing(t) \/ In(t, "finish")

(* connect() has the reply that the host is there.                         *)
Opened(t)  == \/ HasGot(t) /\ Next1(t) = "Connect" /\ Got(t).ok
              \/ Within(t) /\ th[t].op = "connect" /\ th[t].first # NoReply /\ th[t].first.ok

(* disconnect() has the reply that it is gone.                             *)
Closed(t)  == \/ HasGot(t) /\ Next1(t) = "Disconnect"
              \/ In(t, "finish") /\ th[t].op = "disconnect"

(* A method has taken no reply yet only at its first command.              *)
StageInv(t) ==
    /\ Issuing(t) => /\ th[t].op \in DOMAIN Script /\ th[t].rest \in Suffixes(th[t].op)
                     /\ (th[t].first = NoReply) <=> (th[t].rest = Script[th[t].op])
    /\ In(t, "finish") => th[t].op \in DOMAIN Script /\ th[t].first # NoReply

(* A failure is the process's end: a caller that waits on a process that   *)
(* runs is owed an answer.                                                 *)
FailInv(t) ==
    /\ host => alive
    /\ alive => ~stopped
    /\ In(t, "wait") /\ alive /\ answer = 0 => owed # <<>>
    /\ In(t, "failed") => ~alive
    /\ state = "Failed" => ~alive \/ In(t, "started")

(* The reply at hand is that of the command, and nothing has locked the    *)
(* keyboard, or sent a newer screen, behind its back.                      *)
ReplyInv(t) ==
    /\ In(t, "took") => log[th[t].cmd].kind = Next1(t)
    /\ HasGot(t) /\ ~Got(t).locked => ~locked \/ ~host
    /\ status = "unlocked" /\ host /\ locked => HasGot(t) /\ Got(t).locked
    /\ HasGot(t) => Got(t).screen >= buffer.screen

(* What the state says of the host, but for what connect() or disconnect() *)
(* is about to say.                                                        *)
StateInv(t) ==
    /\ Opened(t) => host \/ lost
    /\ Closed(t) => ~host
    /\ state = "Disconnected" /\ host => Opened(t)
    /\ state = "Connected" => host \/ lost \/ In(t, "started") \/ In(t, "stopped") \/ Closed(t)

(* After the Wait(Unlock) behind a key the keyboard stays free, and no     *)
(* screen is older than the key's reply.                                   *)
KeyInv(t) == th[t].op = "key" /\ th[t].allOk =>
    /\ Issuing(t) => th[t].first.screen <= screen
    /\ HasGot(t) /\ Next1(t) = "Wait(Unlock)" /\ Got(t).ok => ~locked \/ lost
    /\ Issuing(t) /\ Next1(t) = "Ascii1" => ~locked \/ lost
    /\ HasGot(t) /\ Next1(t) = "Ascii1" =>
         Got(t).screen >= th[t].first.screen /\ (~Got(t).locked \/ lost)
    /\ In(t, "finish") => /\ buffer.screen >= th[t].first.screen /\ buffer.kind = "Ascii1"
                          /\ status = "unlocked" \/ lost

Good(t) == /\ StageInv(t) /\ FailInv(t)
           /\ ~behind => ReplyInv(t) /\ StateInv(t) /\ KeyInv(t)

SoloInv == SharedInv /\ LogInv /\ ScreenInv /\ \A t \in Callers : Good(t)

(* What an outcome says of the command and of the host.                    *)
LEMMA OutcomeTells ==
    ASSUME host \in BOOLEAN, locked \in BOOLEAN, NEW kind, NEW o \in Outcomes(kind)
    PROVE  /\ kind = "Connect" /\ o.ok => o.host
           /\ o.host /\ ~host => kind = "Connect" /\ o.ok
           /\ host /\ ~o.host => kind = "Disconnect"
           /\ kind = "Disconnect" => ~o.host
           /\ kind = "Key" /\ o.ok => o.locked
           /\ kind = "Wait(Unlock)" => (o.locked <=> locked) /\ (o.ok => ~locked)
           /\ kind = "Ascii1" => (o.locked <=> locked)
<1>1. \A ok, h, l : /\ Outcome(ok, h, l).ok = ok /\ Outcome(ok, h, l).host = h
                    /\ Outcome(ok, h, l).locked = l
  BY DEF Outcome
<1>2. \A ok : Same(ok).ok = ok /\ Same(ok).host = host /\ Same(ok).locked = locked
  BY <1>1 DEF Same
<1>F. /\ ~Same(FALSE).ok
      /\ Outcome(TRUE, TRUE, TRUE).ok /\ Outcome(TRUE, TRUE, TRUE).host
      /\ Outcome(TRUE, TRUE, TRUE).locked
  BY DEF Same, Outcome
<1>3. CASE kind = "Connect"
  <2>1. o = Same(FALSE) \/ o = Outcome(TRUE, TRUE, TRUE)
    BY <1>3 DEF Outcomes
  <2>2. \/ ~o.ok /\ o.host = host /\ o.locked = locked
        \/ o.ok /\ o.host
    BY <1>2, <1>F, <2>1
  <2> QED BY <1>3, <2>2
<1>4. CASE kind = "Disconnect"
  <2>1. o = Outcome(TRUE, FALSE, TRUE)
    BY <1>4 DEF Outcomes
  <2> QED BY <1>1, <1>4, <2>1
<1>5. CASE kind = "Key"
  <2>1. (host /\ o = Outcome(TRUE, TRUE, TRUE)) \/ o = Same(FALSE)
    BY <1>5 DEF Outcomes
  <2>2. \/ ~o.ok /\ o.host = host /\ o.locked = locked
        \/ o.ok /\ o.host /\ o.locked /\ host
    BY <1>2, <1>F, <2>1
  <2> QED BY <1>5, <2>2
<1>6. CASE kind = "Wait(Unlock)"
  <2>1. (~locked /\ o = Same(TRUE)) \/ o = Same(FALSE)
    BY <1>6 DEF Outcomes
  <2>2. o.host = host /\ o.locked = locked /\ (o.ok => ~locked)
    BY <1>1, <1>2, <2>1
  <2> QED BY <1>6, <2>2
<1>7. CASE kind \notin {"Connect", "Disconnect", "Key", "Wait(Unlock)"}
  <2>1. \E ok : o = Same(ok)
    BY <1>7 DEF Outcomes
  <2> QED BY <1>1, <1>2, <1>7, <2>1
<1> QED BY <1>3, <1>4, <1>5, <1>6, <1>7

(* With no command given up, s3270 replies to the caller that waits.       *)
LEMMA HandleEffect ==
    ASSUME Alone, SharedInv, ~behind, Handle, NEW t \in Callers
    PROVE  /\ th[t].phase = "wait" /\ th[t].cmd = current /\ current \in Commands
           /\ ~Replied(current) /\ alive
           /\ log[current].kind = Next1(t) /\ log'[current].kind = Next1(t)
           /\ \E o \in Outcomes(Next1(t)) :
                /\ log'[current].reply = [ok |-> o.ok, locked |-> o.locked, screen |-> screen]
                /\ host' = o.host /\ locked' = o.locked
                /\ lost' = (lost /\ ~(o.host /\ ~host))
           /\ UNCHANGED <<session, channel, alive, screen, th>>
<1>0. /\ owed \in Seq(Commands) /\ log \in [Commands -> Entry] /\ current \in 0..MaxIds
  BY DEF SharedInv, TypeInv, Typed
<1>1. PICK i \in DOMAIN owed :
           /\ alive /\ ~Replied(owed[i])
           /\ \E o \in Outcomes(log[owed[i]].kind) :
                /\ log' = [log EXCEPT ![owed[i]].reply =
                        [ok |-> o.ok, locked |-> o.locked, screen |-> screen]]
                /\ host' = o.host /\ locked' = o.locked
                /\ lost' = (lost /\ ~(o.host /\ ~host))
           /\ UNCHANGED <<session, channel, alive, screen, th>>
  BY DEF Handle
<1>2. owed # <<>>
  BY <1>0, <1>1
<1>3. current # 0 /\ answer = 0 /\ owed = <<current>>
  BY <1>2 DEF SharedInv, Ch!InStepInv
<1>4. owed[i] = current
  BY <1>1, <1>3
<1>5. th[t].phase = "wait" /\ th[t].cmd = current
  BY <1>3 DEF SharedInv, WaitInv, In, Alone
<1>6. current \in Commands
  BY <1>0, <1>3, CommandType
<1>7. log[current].kind = Next1(t)
  BY <1>1, <1>5 DEF SharedInv, OwnInv, In, Next1
<1>8. PICK o \in Outcomes(Next1(t)) :
                /\ log' = [log EXCEPT ![current].reply =
                        [ok |-> o.ok, locked |-> o.locked, screen |-> screen]]
                /\ host' = o.host /\ locked' = o.locked
                /\ lost' = (lost /\ ~(o.host /\ ~host))
  BY <1>1, <1>4, <1>7
<1>9. /\ log'[current].reply = [ok |-> o.ok, locked |-> o.locked, screen |-> screen]
      /\ log'[current].kind = log[current].kind
  BY <1>0, <1>6, <1>8 DEF Entry
<1> QED BY <1>1, <1>4, <1>5, <1>6, <1>7, <1>8, <1>9

(* Every step keeps what is promised to the one caller.                    *)
LEMMA SoloStep ==
    ASSUME Alone, SharedInv, LogInv, ScreenInv, NEW t \in Callers, Good(t), [Next]_vars
    PROVE  Good(t)'
<1>0. /\ th \in [Callers -> Local] /\ log \in [Commands -> Entry] /\ owed \in Seq(Commands)
      /\ current \in 0..MaxIds /\ answer \in 0..MaxIds
      /\ th[t].phase = "took" => th[t].cmd \in Commands
      /\ host \in BOOLEAN /\ locked \in BOOLEAN /\ lost \in BOOLEAN
      /\ screen \in Nat /\ buffer.screen \in Nat /\ th[t].first.screen \in Int
      /\ th[t].rest \in Rests
      /\ \A c \in Commands : log[c].reply.screen \in Int
  <2>1. TypeInv /\ Typed
    BY DEF SharedInv, TypeInv
  <2>2. th[t] \in Local
    BY <2>1 DEF Typed
  <2>3. th[t].rest \in Rests /\ th[t].first.screen \in Int
    BY <2>2, BoundsAssumption DEF Local, Reply
  <2>4. th[t].phase = "took" => th[t].cmd \in Commands
    BY <2>1, <2>2, CommandType DEF TypeInv, Local, In
  <2>5. screen \in Nat /\ buffer.screen \in Nat
    BY <2>1, BoundsAssumption DEF Typed
  <2>6. \A c \in Commands : log[c].reply.screen \in Int
    BY <2>1, BoundsAssumption DEF Typed, Entry, NoReply
  <2> QED BY <2>1, <2>3, <2>4, <2>5, <2>6 DEF Typed
<1>1. StageInv(t) /\ FailInv(t) /\ (~behind => ReplyInv(t) /\ StateInv(t) /\ KeyInv(t))
  BY DEF Good
<1> USE DEF In, session, channel, emulator, Replied, Issuing, HasGot, Got, Next1, Within
(* A caller between two methods, or out of one.                            *)
<1>Q. ASSUME th'[t].phase \in {"idle", "failed", "started", "stopped"},
             FailInv(t)',
             ~behind' => /\ status' = "unlocked" /\ host' => ~locked'
                         /\ state' = "Disconnected" => ~host'
                         /\ state' = "Connected" => \/ host' \/ lost'
                                                    \/ th'[t].phase \in {"started", "stopped"}
      PROVE  Good(t)'
  BY <1>Q DEF Good, StageInv, ReplyInv, StateInv, KeyInv, Opened, Closed
<1>2. CASE StartOp(t)
  <2>1. th'[t].phase = "started" /\ ~host' /\ alive' /\ ~stopped'
    BY <1>2, StartEffect DEF SharedInv, TypeInv
  <2>2. FailInv(t)'
    BY <2>1 DEF FailInv
  <2> QED BY <1>Q, <2>1, <2>2
<1>3. CASE Started(t)
  <2>1. /\ th'[t].phase = "idle" /\ th[t].phase = "started" /\ state' = "Started"
        /\ UNCHANGED <<status, channel, emulator>>
    BY <1>0, <1>3, LeaveEffect DEF Started
  <2>2. FailInv(t)'
    BY <1>1, <2>1 DEF FailInv
  <2>3. ~behind' => (status' = "unlocked" /\ host' => ~locked')
    BY <1>1, <2>1 DEF ReplyInv
  <2> QED BY <1>Q, <2>1, <2>2, <2>3
<1>4. CASE StopOp(t)
  <2>1. th'[t].phase = "stopped" /\ ~host' /\ ~alive'
    BY <1>0, <1>4, GotoEffect DEF StopOp, Gone
  <2>2. FailInv(t)'
    BY <2>1 DEF FailInv
  <2> QED BY <1>Q, <2>1, <2>2
<1>5. CASE Stopped(t)
  <2>1. /\ th'[t].phase = "idle" /\ th[t].phase = "stopped" /\ state' = "Stopped"
        /\ UNCHANGED <<status, channel, emulator>>
    BY <1>0, <1>5, LeaveEffect DEF Stopped
  <2>2. FailInv(t)'
    BY <1>1, <2>1 DEF FailInv
  <2>3. ~behind' => (status' = "unlocked" /\ host' => ~locked')
    BY <1>1, <2>1 DEF ReplyInv
  <2> QED BY <1>Q, <2>1, <2>2, <2>3
(* A caller that begins a method, or its loop anew.                        *)
<1>6. ASSUME NEW op \in DOMAIN Script, Begin(t, op) \/ (op = "wait_for" /\ WaitForAgain(t))
      PROVE  Good(t)'
  <2>0. /\ Enter(t, op, Script[op])
        /\ UNCHANGED <<session, channel, log, emulator>>
        /\ th[t].phase = "idle" \/ (th[t].phase = "finish" /\ th[t].op = "wait_for")
    BY <1>6 DEF Begin, WaitForAgain
  <2>1. /\ th'[t].phase = "call" /\ th'[t].op = op /\ th'[t].rest = Script[op]
        /\ th'[t].first = NoReply
    BY <1>0, <2>0, EnterEffect
  <2>2. Script[op] \in Suffixes(op)
    BY WholeIsSuffix
  <2>3. StageInv(t)'
    BY <2>1, <2>2 DEF StageInv, Suffixes
  <2>4. FailInv(t)'
    BY <1>1, <2>0, <2>1 DEF FailInv
  <2>5. ASSUME ~behind' PROVE ReplyInv(t)'
    BY <1>1, <2>0, <2>1, <2>5 DEF ReplyInv
  <2>6. ~Closed(t)' /\ ~Opened(t)' /\ ~Opened(t) /\ ~Closed(t)
    BY <2>0, <2>1 DEF Closed, Opened
  <2>7. ASSUME ~behind' PROVE StateInv(t)'
    BY <1>1, <2>0, <2>1, <2>6, <2>7 DEF StateInv
  <2>8. KeyInv(t)'
    <3>1. op = "key" => Head(Script[op]) = "Key"
      BY DEF Script
    <3>2. NoReply.screen <= screen /\ screen' = screen
      BY <1>0, <2>0 DEF NoReply
    <3> QED BY <2>1, <3>1, <3>2 DEF KeyInv
  <2> QED BY <2>3, <2>4, <2>5, <2>7, <2>8 DEF Good
<1>7. CASE \E op \in DOMAIN Script : Begin(t, op)
  BY <1>6, <1>7
<1>8. CASE WaitForAgain(t)
  <2>1. "wait_for" \in DOMAIN Script
    BY DEF Script
  <2> QED BY <1>6, <1>8, <2>1
(* A caller that is refused before the write.                              *)
<1>9. CASE TextRefused(t) \/ CallStopped(t) \/ CallBusy(t) \/ CallDead(t)
  <2>1. /\ th'[t].phase \in {"idle", "failed"} /\ th[t].phase = "call"
        /\ th'[t].phase = "failed" => ~alive
        /\ UNCHANGED <<session, channel, log, emulator>>
    <3>1. /\ Leave(t) \/ (Goto(t, "failed") /\ ~alive)
          /\ UNCHANGED <<session, channel, log, emulator>>
          /\ th[t].phase = "call"
      BY <1>9 DEF TextRefused, CallStopped, CallBusy, CallDead
    <3> QED BY <1>0, <3>1, GotoEffect, LeaveEffect
  <2>2. FailInv(t)'
    BY <1>1, <2>1 DEF FailInv
  <2>3. current = 0
    BY <2>1 DEF SharedInv, WaitInv, Alone
  <2>4. Opened(t) => ~host
    <3>1. CASE TextRefused(t)
      <4>1. th[t].op # "connect"
        BY <1>1, <2>1, <3>1, SuffixTells DEF StageInv, TextRefused
      <4> QED BY <2>1, <4>1 DEF Opened
    <3>2. CASE CallBusy(t) \/ CallStopped(t)
      BY <1>1, <2>3, <3>2 DEF CallBusy, CallStopped, FailInv
    <3>3. CASE CallDead(t)
      BY <1>1, <3>3 DEF CallDead, FailInv
    <3> QED BY <1>9, <3>1, <3>2, <3>3
  <2>5. ~Closed(t)
    BY <2>1 DEF Closed
  <2>6. ASSUME ~behind' PROVE status' = "unlocked" /\ host' => ~locked'
    BY <1>1, <2>1, <2>6 DEF ReplyInv
  <2>7. ASSUME ~behind' PROVE /\ state' = "Disconnected" => ~host'
                              /\ state' = "Connected" => host' \/ lost'
    BY <1>1, <2>1, <2>4, <2>5, <2>7 DEF StateInv
  <2> QED BY <1>Q, <2>1, <2>2, <2>6, <2>7
<1>10. CASE Failed(t)
  <2>1. /\ th'[t].phase = "idle" /\ th[t].phase = "failed" /\ state' = "Failed"
        /\ UNCHANGED <<status, channel, emulator>>
    BY <1>0, <1>10, LeaveEffect DEF Failed
  <2>2. FailInv(t)'
    BY <1>1, <2>1 DEF FailInv
  <2>3. ~behind' => (status' = "unlocked" /\ host' => ~locked')
    BY <1>1, <2>1 DEF ReplyInv
  <2> QED BY <1>Q, <2>1, <2>2, <2>3
<1>11. CASE WaitForEnds(t)
  <2>1. /\ th'[t].phase = "idle" /\ th[t].phase = "finish" /\ th[t].op = "wait_for"
        /\ UNCHANGED <<session, channel, emulator>>
    BY <1>0, <1>11, LeaveEffect DEF WaitForEnds
  <2>2. FailInv(t)'
    BY <1>1, <2>1 DEF FailInv
  <2>3. ~behind' => (status' = "unlocked" /\ host' => ~locked')
    BY <1>1, <2>1 DEF ReplyInv
  <2>4. ~Opened(t) /\ ~Closed(t)
    BY <2>1 DEF Opened, Closed
  <2>5. ~behind' => /\ state' = "Disconnected" => ~host'
                    /\ state' = "Connected" => host' \/ lost'
    BY <1>1, <2>1, <2>4 DEF StateInv
  <2> QED BY <1>Q, <2>1, <2>2, <2>3, <2>5
<1>12. CASE Finish(t)
  <2>1. /\ th'[t].phase = "idle" /\ th[t].phase = "finish"
        /\ UNCHANGED <<status, channel, emulator>>
        /\ \/ /\ state' = state /\ th[t].op # "disconnect"
              /\ th[t].op = "connect" => ~th[t].first.ok
           \/ state' = "Connected" /\ th[t].op = "connect" /\ th[t].first.ok
           \/ state' = "Disconnected" /\ th[t].op = "disconnect"
    <3>1. Leave(t) /\ th[t].phase = "finish" /\ UNCHANGED <<status, channel, emulator>>
      BY <1>12 DEF Finish
    <3>2. CASE th[t].op = "connect"
      BY <1>0, <1>12, <3>1, <3>2, LeaveEffect DEF Finish
    <3>3. CASE th[t].op = "disconnect"
      BY <1>0, <1>12, <3>1, <3>3, LeaveEffect DEF Finish
    <3>4. CASE th[t].op # "connect" /\ th[t].op # "disconnect"
      BY <1>0, <1>12, <3>1, <3>4, LeaveEffect DEF Finish
    <3> QED BY <3>2, <3>3, <3>4
  <2>2. FailInv(t)'
    BY <1>1, <2>1 DEF FailInv
  <2>3. ~behind' => (status' = "unlocked" /\ host' => ~locked')
    BY <1>1, <2>1 DEF ReplyInv
  <2>4. th[t].first # NoReply
    BY <1>1, <2>1 DEF StageInv
  <2>5. ASSUME ~behind' PROVE /\ state' = "Disconnected" => ~host'
                              /\ state' = "Connected" => host' \/ lost'
    <3>1. StateInv(t)
      BY <1>1, <2>1, <2>5
    <3>2. CASE /\ state' = state /\ th[t].op # "disconnect"
               /\ th[t].op = "connect" => ~th[t].first.ok
      <4>1. ~Opened(t) /\ ~Closed(t)
        BY <2>1, <3>2 DEF Opened, Closed
      <4> QED BY <2>1, <3>1, <3>2, <4>1 DEF StateInv
    <3>3. CASE state' = "Connected" /\ th[t].op = "connect" /\ th[t].first.ok
      <4>1. Opened(t)
        BY <2>1, <2>4, <3>3 DEF Opened
      <4> QED BY <2>1, <3>1, <3>3, <4>1 DEF StateInv
    <3>4. CASE state' = "Disconnected" /\ th[t].op = "disconnect"
      <4>1. Closed(t)
        BY <2>1, <3>4 DEF Closed
      <4> QED BY <2>1, <3>1, <3>4, <4>1 DEF StateInv
    <3> QED BY <2>1, <3>2, <3>3, <3>4
  <2> QED BY <1>Q, <2>1, <2>2, <2>3, <2>5
<1>13. CASE TimedOut(t) \/ Died(t)
  <2>1. /\ Leave(t) \/ (Goto(t, "failed") /\ ~alive)
        /\ Ch!GiveUp /\ UNCHANGED <<session, log, emulator>>
        /\ th[t].phase = "wait"
        /\ stopped' = stopped \/ ~alive
    BY <1>1, <1>13 DEF TimedOut, Died, FailInv, Ch!GiveUp
  <2>2. th'[t].phase \in {"idle", "failed"} /\ (th'[t].phase = "failed" => ~alive)
    BY <1>0, <2>1, GotoEffect, LeaveEffect
  <2>3. FailInv(t)'
    BY <1>1, <2>1, <2>2 DEF FailInv
  <2>4. behind'
    BY <2>1 DEF Ch!GiveUp
  <2> QED BY <1>Q, <2>2, <2>3, <2>4
<1>14. CASE Call(t)
  <2>1. PICK c \in Commands \ (Owed \cup InHand) :
              /\ Ch!Write(c)
              /\ log' = [log EXCEPT ![c].kind = Head(th[t].rest)]
              /\ th' = [th EXCEPT ![t].phase = "wait", ![t].cmd = c]
    BY <1>14 DEF Call
  <2>2. /\ th'[t].phase = "wait" /\ th'[t].cmd = c /\ th'[t].op = th[t].op
        /\ th'[t].rest = th[t].rest /\ th'[t].first = th[t].first
        /\ th'[t].allOk = th[t].allOk /\ th[t].phase = "call"
        /\ UNCHANGED <<session, emulator>> /\ behind' = behind /\ stopped' = stopped
    BY <1>0, <1>14, <2>1, NumberEffect DEF Call, Ch!Write
  <2>3. log'[c].reply = NoReply
    <3>1. answer = 0 /\ 0 \notin Commands
      BY <2>1, CommandType DEF Ch!Write, SharedInv, HandInv
    <3>2. log[c].reply = NoReply
      BY <2>1, <3>1 DEF LogInv, Unused
    <3> QED BY <1>0, <2>1, <3>2 DEF Entry
  <2>4. ~HasGot(t)' /\ ~HasGot(t)
    BY <2>2, <2>3
  <2>5. StageInv(t)'
    BY <1>1, <2>2 DEF StageInv
  <2>6. FailInv(t)'
    <3>1. owed' # <<>>
      <4>1. owed' = Append(owed, c)
        BY <2>1 DEF Ch!Write
      <4> QED BY <1>0, <4>1
    <3> QED BY <1>1, <2>2, <3>1 DEF FailInv
  <2>7. ASSUME ~behind' PROVE ReplyInv(t)'
    BY <1>1, <2>2, <2>4, <2>7 DEF ReplyInv
  <2>8. (Opened(t)' <=> Opened(t)) /\ (Closed(t)' <=> Closed(t))
    BY <2>2, <2>4 DEF Opened, Closed
  <2>9. ASSUME ~behind' PROVE StateInv(t)'
    BY <1>1, <2>2, <2>8, <2>9 DEF StateInv
  <2>10. ASSUME ~behind' PROVE KeyInv(t)'
    BY <1>1, <2>2, <2>4, <2>10 DEF KeyInv
  <2> QED BY <2>5, <2>6, <2>7, <2>9, <2>10 DEF Good
<1>15. CASE Answered(t)
  <2>1. UNCHANGED <<session, behind, stopped, log, emulator, th>> /\ answer' # 0
    <3>1. owed # <<>> /\ Head(owed) \in Commands
      BY <1>0, <1>15 DEF Answered, Ch!Respond
    <3> QED BY <1>15, <3>1, CommandType DEF Answered, Ch!Respond
  <2> QED
    BY <1>1, <2>1 DEF Good, StageInv, FailInv, ReplyInv, StateInv, KeyInv, Opened, Closed
<1>16. CASE Returned(t)
  <2>1. answer \in Commands /\ answer # 0
    BY <1>0, <1>16, CommandType DEF Returned, Ch!Return
  <2>2. /\ th'[t].phase = "took" /\ th'[t].cmd = answer /\ th'[t].op = th[t].op
        /\ th'[t].rest = th[t].rest /\ th'[t].first = th[t].first
        /\ th'[t].allOk = th[t].allOk /\ th[t].phase = "wait"
        /\ UNCHANGED <<session, log, emulator>> /\ behind' = behind /\ stopped' = stopped
    BY <1>0, <1>16, <2>1, NumberEffect DEF Returned, Ch!Return
  <2>3. ~behind => th[t].cmd = answer /\ log[answer].kind = Next1(t)
    <3>1. Replied(answer)
      BY <2>1 DEF SharedInv, HandInv
    <3> QED BY <2>1, <2>2, <3>1 DEF SharedInv, Ch!InStepInv, WaitInv, OwnInv
  <2>4. ~behind => /\ HasGot(t)' = HasGot(t) /\ Got(t)' = Got(t) /\ Next1(t)' = Next1(t)
                   /\ (HasGot(t)' <=> HasGot(t))
    BY <2>2, <2>3
  <2>5. StageInv(t)'
    BY <1>1, <2>2 DEF StageInv
  <2>6. FailInv(t)'
    BY <1>1, <2>2 DEF FailInv
  <2>7. ASSUME ~behind' PROVE ReplyInv(t)'
    BY <1>1, <2>2, <2>3, <2>4, <2>7 DEF ReplyInv
  <2>8. ASSUME ~behind PROVE (Opened(t)' <=> Opened(t)) /\ (Closed(t)' <=> Closed(t))
    BY <2>2, <2>4, <2>8 DEF Opened, Closed
  <2>9. ASSUME ~behind' PROVE StateInv(t)'
    BY <1>1, <2>2, <2>8, <2>9 DEF StateInv
  <2>10. ASSUME ~behind' PROVE KeyInv(t)'
    BY <1>1, <2>2, <2>4, <2>10 DEF KeyInv
  <2> QED BY <2>5, <2>6, <2>7, <2>9, <2>10 DEF Good
<1>17. CASE Take(t)
  <2>1. th[t].rest # <<>> /\ th[t].cmd \in Commands /\ th[t].phase = "took" /\ Replied(th[t].cmd)
    BY <1>0, <1>17 DEF Take, Store, SharedInv, TypeInv, HandInv
  <2>2. /\ th'[t].op = th[t].op /\ th'[t].rest = Tail(th[t].rest)
        /\ th'[t].first = IF th[t].first = NoReply THEN Got(t) ELSE th[t].first
        /\ th'[t].allOk = (th[t].allOk /\ Got(t).ok)
        /\ \/ Tail(th[t].rest) = <<>> /\ th'[t].phase = "finish"
           \/ Tail(th[t].rest) # <<>> /\ th'[t].phase = "call"
    BY <1>0, <1>17, <2>1, TakeEffect
  <2>3. /\ UNCHANGED <<connected, state, channel, emulator>>
        /\ status' = "unlocked" <=> ~Got(t).locked
        /\ Next1(t) # "Ascii1" => buffer' = buffer
        /\ Next1(t) = "Ascii1" => /\ buffer'.screen = Got(t).screen
                                  /\ buffer'.kind = log[th[t].cmd].kind
    BY <1>17 DEF Take, Store, Flag, Shown
  <2>4. HasGot(t) /\ ~HasGot(t)' /\ Got(t) # NoReply
    BY <2>1, <2>2
  <2>5. th[t].op \in DOMAIN Script /\ th[t].rest \in Suffixes(th[t].op)
        /\ (th[t].first = NoReply <=> th[t].rest = Script[th[t].op])
    BY <1>1, <2>1 DEF StageInv
  <2>6. StageInv(t)'
    <3>1. th'[t].first # NoReply
      BY <2>2, <2>4
    <3>2. Tail(th[t].rest) # Script[th[t].op]
      BY <2>5, SuffixTells
    <3>3. Tail(th[t].rest) # <<>> => Tail(th[t].rest) \in Suffixes(th[t].op)
      BY <2>5, SuffixProperty
    <3> QED BY <2>2, <2>5, <3>1, <3>2, <3>3 DEF StageInv
  <2>7. FailInv(t)'
    BY <1>1, <2>1, <2>2, <2>3 DEF FailInv
  <2>8. ASSUME ~behind' PROVE ReplyInv(t)'
    BY <1>1, <2>2, <2>3, <2>4, <2>8 DEF ReplyInv
  <2>9. Opened(t)' <=> Opened(t)
    <3>1. Next1(t) = "Connect" <=> th[t].op = "connect" /\ th[t].first = NoReply
      BY <2>5, SuffixTells
    <3> QED BY <2>1, <2>2, <2>4, <3>1 DEF Opened
  <2>10. Closed(t)' <=> Closed(t)
    <3>1. /\ Next1(t) = "Disconnect" <=> th[t].op = "disconnect"
          /\ th[t].op = "disconnect" => Tail(th[t].rest) = <<>>
      BY <2>5, SuffixTells
    <3> QED BY <2>1, <2>2, <2>4, <3>1 DEF Closed
  <2>11. ASSUME ~behind' PROVE StateInv(t)'
    BY <1>1, <2>1, <2>2, <2>3, <2>9, <2>10, <2>11 DEF StateInv
  <2>12. ASSUME ~behind', th[t].op = "key", th'[t].allOk PROVE KeyInv(t)'
    <3>0. KeyInv(t) /\ th[t].allOk /\ Got(t).ok
      BY <1>1, <2>2, <2>3, <2>12
    <3>1. \/ /\ th[t].first = NoReply /\ Next1(t) = "Key" /\ Next1(t)' = "Wait(Unlock)"
             /\ th'[t].phase = "call"
          \/ /\ th[t].first # NoReply /\ Next1(t) = "Wait(Unlock)" /\ Next1(t)' = "Ascii1"
             /\ th'[t].phase = "call"
          \/ /\ th[t].first # NoReply /\ Next1(t) = "Ascii1" /\ th'[t].phase = "finish"
      BY <2>2, <2>5, <2>12, SuffixTells
    <3>2. Got(t).screen <= screen /\ log[th[t].cmd].kind = Next1(t)
      BY <1>1, <2>1, <2>3, <2>12 DEF ScreenInv, ReplyInv
    <3>3. UNCHANGED <<screen, locked, lost>>
      BY <2>3
    <3> QED BY <2>1, <2>2, <2>3, <2>4, <2>12, <3>0, <3>1, <3>2, <3>3 DEF KeyInv
  <2> QED BY <2>2, <2>6, <2>7, <2>8, <2>11, <2>12 DEF Good, KeyInv
<1>18. CASE Handle
  <2>1. UNCHANGED <<session, channel, alive, screen, th>> /\ alive
    BY <1>18 DEF Handle
  <2>2. StageInv(t)' /\ FailInv(t)'
    BY <1>1, <2>1 DEF StageInv, FailInv
  <2>3. ASSUME ~behind PROVE ReplyInv(t)' /\ StateInv(t)' /\ KeyInv(t)'
    <3>1. /\ th[t].phase = "wait" /\ th[t].cmd = current /\ current \in Commands
          /\ ~Replied(current) /\ log'[current].kind = Next1(t)
      BY <1>18, <2>3, HandleEffect
    <3>2. PICK o \in Outcomes(Next1(t)) :
                /\ log'[current].reply = [ok |-> o.ok, locked |-> o.locked, screen |-> screen]
                /\ host' = o.host /\ locked' = o.locked
                /\ lost' = (lost /\ ~(o.host /\ ~host))
      BY <1>18, <2>3, HandleEffect
    <3>3. /\ Next1(t) = "Connect" /\ o.ok => o.host
          /\ o.host /\ ~host => Next1(t) = "Connect" /\ o.ok
          /\ host /\ ~o.host => Next1(t) = "Disconnect"
          /\ Next1(t) = "Disconnect" => ~o.host
          /\ Next1(t) = "Key" /\ o.ok => o.locked
          /\ Next1(t) = "Wait(Unlock)" => (o.locked <=> locked) /\ (o.ok => ~locked)
          /\ Next1(t) = "Ascii1" => (o.locked <=> locked)
      BY <1>0, OutcomeTells
    <3>4. /\ Got(t)'.ok = o.ok /\ Got(t)'.locked = o.locked /\ Got(t)'.screen = screen
          /\ Got(t)' # NoReply
      BY <1>0, <2>1, <3>1, <3>2 DEF NoReply
    <3>5. HasGot(t)' /\ ~HasGot(t) /\ Next1(t)' = Next1(t) /\ th[t].phase = "wait"
      BY <2>1, <3>1, <3>4
    <3>6. ReplyInv(t)'
      <4>1. buffer.screen <= screen
        BY DEF ScreenInv
      <4> QED BY <1>0, <2>1, <3>1, <3>2, <3>4, <3>5, <4>1 DEF ReplyInv
    <3>7. ~Closed(t) /\ (Closed(t)' <=> Next1(t) = "Disconnect")
      BY <2>1, <3>5 DEF Closed
    <3>8. Opened(t)' <=> Opened(t) \/ (Next1(t) = "Connect" /\ o.ok)
      BY <2>1, <3>4, <3>5 DEF Opened
    <3>9. /\ host' => host \/ (Next1(t) = "Connect" /\ o.ok)
          /\ ~host' => ~host \/ Next1(t) = "Disconnect"
          /\ lost' => lost
          /\ lost => lost' \/ host'
          /\ Next1(t) = "Connect" /\ o.ok => host'
          /\ Next1(t) = "Disconnect" => ~host'
      BY <3>2, <3>3
    <3>10. StateInv(t)'
      <4>1. StateInv(t) /\ UNCHANGED <<state, th>>
        BY <1>1, <2>1, <2>3
      <4>2. Opened(t) => Next1(t) # "Disconnect"
        <5>1. th[t].op \in DOMAIN Script /\ th[t].rest \in Suffixes(th[t].op)
          BY <1>1, <3>1 DEF StageInv
        <5>2. Next1(t) = "Disconnect" => th[t].op = "disconnect"
          BY <5>1, SuffixTells
        <5> QED BY <3>5, <5>2 DEF Opened
      <4> QED BY <3>7, <3>8, <3>9, <4>1, <4>2 DEF StateInv
    <3>11. KeyInv(t)'
      <4>1. KeyInv(t) /\ UNCHANGED <<th, buffer, screen>>
        BY <1>1, <2>1, <2>3
      <4>2. /\ Next1(t) = "Wait(Unlock)" => (locked' <=> locked) /\ (o.ok => ~locked)
            /\ Next1(t) = "Ascii1" => /\ (locked' <=> locked) /\ (o.locked <=> locked)
                                      /\ lost' <=> lost
        BY <1>0, <3>2, <3>3
      <4> QED BY <1>0, <3>4, <3>5, <4>1, <4>2 DEF KeyInv
    <3> QED BY <3>6, <3>10, <3>11
  <2> QED BY <2>1, <2>2, <2>3 DEF Good
<1>19. CASE HostSends \/ HostUnlocks
  <2>1. /\ UNCHANGED <<session, channel, log, alive, host, lost, th>>
        /\ host /\ (~locked' \/ locked' = locked) /\ screen' \in Nat /\ screen' >= screen
    BY <1>0, <1>19 DEF HostSends, HostUnlocks
  <2>2. StageInv(t)' /\ FailInv(t)'
    BY <1>1, <2>1 DEF StageInv, FailInv
  <2>3. ASSUME ~behind PROVE ReplyInv(t)'
    BY <1>1, <2>1, <2>3 DEF ReplyInv
  <2>4. ASSUME ~behind PROVE StateInv(t)'
    BY <1>1, <2>1, <2>4 DEF StateInv, Opened, Closed
  <2>5. ASSUME ~behind PROVE KeyInv(t)'
    <3>1. HasGot(t) => th[t].cmd \in Commands
      BY <1>0, <2>5, CommandType DEF SharedInv, WaitInv
    <3>2. HasGot(t) => Got(t).screen <= screen /\ Got(t).screen \in Int
      BY <1>0, <3>1 DEF ScreenInv
    <3>3. KeyInv(t) /\ UNCHANGED <<th, buffer, log>>
      BY <1>1, <2>1, <2>5
    <3> QED BY <1>0, <2>1, <3>2, <3>3 DEF KeyInv
  <2> QED BY <2>1, <2>2, <2>3, <2>4, <2>5 DEF Good
<1>20. CASE HostDrops
  <2>1. /\ UNCHANGED <<session, channel, log, alive, screen, th>>
        /\ ~host' /\ locked' /\ lost'
    BY <1>20 DEF HostDrops
  <2>2. StageInv(t)' /\ FailInv(t)'
    BY <1>1, <2>1 DEF StageInv, FailInv
  <2>3. ASSUME ~behind PROVE ReplyInv(t)' /\ StateInv(t)'
    BY <1>1, <2>1, <2>3 DEF ReplyInv, StateInv
  <2>4. ASSUME ~behind PROVE KeyInv(t)'
    BY <1>1, <2>1, <2>4 DEF KeyInv
  <2> QED BY <2>1, <2>2, <2>3, <2>4 DEF Good
<1>21. CASE Die
  <2>1. /\ UNCHANGED <<session, current, behind, locked, screen, th>>
        /\ ~host' /\ ~alive' /\ lost'
    BY <1>21 DEF Die, Gone, Ch!Lose
  <2>2. \A c \in Commands : log'[c] = log[c] \/ log'[c].reply = NoReply
    BY <1>0, <1>21, ForgetEffect DEF Die, Gone, Unused
  <2>3. StageInv(t)' /\ FailInv(t)'
    BY <1>1, <2>1 DEF StageInv, FailInv
  <2>4. ASSUME ~behind, HasGot(t)' PROVE HasGot(t) /\ log'[th[t].cmd] = log[th[t].cmd]
    <3>1. th[t].cmd \in Commands
      BY <1>0, <2>1, <2>4, CommandType DEF SharedInv, WaitInv
    <3> QED BY <2>1, <2>2, <2>4, <3>1
  <2>5. ASSUME ~behind PROVE ReplyInv(t)'
    <3>1. th[t].phase = "took" => log'[th[t].cmd] = log[th[t].cmd]
      <4>1. th[t].phase = "took" => Replied(th[t].cmd)
        BY DEF SharedInv, HandInv
      <4>2. \A c \in Commands : Replied(c) => log'[c] = log[c]
        BY <1>0, <1>21, ForgetEffect DEF Die, Gone
      <4> QED BY <1>0, <4>1, <4>2
    <3> QED BY <1>1, <2>1, <2>4, <2>5, <3>1 DEF ReplyInv
  <2>6. ASSUME ~behind PROVE StateInv(t)'
    BY <1>1, <2>1, <2>6 DEF StateInv
  <2>7. ASSUME ~behind PROVE KeyInv(t)'
    BY <1>1, <2>1, <2>4, <2>7 DEF KeyInv
  <2> QED BY <2>1, <2>3, <2>5, <2>6, <2>7 DEF Good
<1>22. CASE UNCHANGED vars
  BY <1>1, <1>22 DEF vars, Good, StageInv, FailInv, ReplyInv, StateInv, KeyInv, Opened, Closed
<1>23. CASE Starts(t)
  BY <1>2, <1>4, <1>7, <1>23 DEF Starts
<1>24. CASE Working(t)
  BY <1>3, <1>5, <1>8, <1>9, <1>10, <1>11, <1>12, <1>13, <1>14, <1>15, <1>16, <1>17, <1>24
     DEF Working, Command
<1>25. (\E u \in Callers : Starts(u) \/ Working(u)) => Starts(t) \/ Working(t)
  BY DEF Alone
<1> QED BY <1>18, <1>19, <1>20, <1>21, <1>22, <1>23, <1>24, <1>25 DEF Next

(* The invariant of one caller.                                            *)
LEMMA SoloHolds == ASSUME Alone PROVE Spec => []SoloInv
<1>1. Init => SoloInv
  <2> SUFFICES ASSUME Init PROVE SoloInv
    OBVIOUS
  <2>1. SharedInv
    BY SharedInit
  <2>2. LogInv /\ ScreenInv
    BY BoundsAssumption DEF LogInv, ScreenInv, Init, Unused, NoReply
  <2>3. ASSUME NEW t \in Callers PROVE Good(t)
    <3>1. /\ th[t].phase = "idle" /\ ~host /\ status = "unknown" /\ state = "Initial" /\ ~alive
      BY IdleType DEF Init
    <3> QED BY <3>1 DEF Good, StageInv, FailInv, ReplyInv, StateInv, KeyInv, HasGot, Issuing,
                        Opened, Closed, Within, In
  <2> QED BY <2>1, <2>2, <2>3 DEF SoloInv
<1>2. SoloInv /\ [Next]_vars => SoloInv'
  <2> SUFFICES ASSUME SoloInv, [Next]_vars PROVE SoloInv'
    OBVIOUS
  <2>1. SharedInv' /\ LogInv' /\ ScreenInv'
    BY SharedStep, LogStep, ScreenStep DEF SoloInv, SharedInv
  <2>2. ASSUME NEW t \in Callers PROVE Good(t)'
    BY SoloStep DEF SoloInv
  <2> QED BY <2>1, <2>2 DEF SoloInv
<1> QED BY <1>1, <1>2, PTL DEF Spec

(* The caller itself, when all of them are idle.                           *)
LEMMA SoloQuiet ==
    ASSUME Alone, SoloInv, Quiet
    PROVE  \E t \in Callers : th[t].phase = "idle" /\ Good(t)
BY DEF Alone, SoloInv, Quiet, In

(* A session of one thread that says Failed has no process between calls   *)
(* (terminal.py 66, 123, 153-155).                                         *)
THEOREM SoloFailure == ASSUME Alone PROVE Spec => []FailedMeansDead
<1>1. SoloInv => FailedMeansDead
  BY SoloQuiet DEF FailedMeansDead, Good, FailInv, In
<1> QED BY <1>1, SoloHolds, PTL

(* A session of one thread that says Disconnected has no host, unless a    *)
(* command of this process was given up (terminal.py 231-243).             *)
THEOREM SoloDisconnected == ASSUME Alone PROVE Spec => []DisconnectedMeansNoHost
<1>1. SoloInv => DisconnectedMeansNoHost
  BY SoloQuiet DEF DisconnectedMeansNoHost, Good, StateInv, Opened, HasGot, Within, Issuing, In
<1> QED BY <1>1, SoloHolds, PTL

(* A session of one thread that says Connected has a host, unless the host *)
(* or s3270 went away on its own or a command was given up (terminal.py    *)
(* 123, 129, 232-234, 242-243).                                            *)
THEOREM SoloConnected == ASSUME Alone PROVE Spec => []ConnectedMeansHost
<1>1. SoloInv => ConnectedMeansHost
  BY SoloQuiet DEF ConnectedMeansHost, Good, StateInv, Closed, HasGot, In
<1> QED BY <1>1, SoloHolds, PTL

(* One thread never reads that the keyboard is free while the host has it  *)
(* locked (terminal.py 157-158, 286-298).                                  *)
THEOREM SoloKeyboard == ASSUME Alone PROVE Spec => []KeyboardFlagIsTrue
<1>1. SoloInv => KeyboardFlagIsTrue
  BY SoloQuiet DEF KeyboardFlagIsTrue, Good, ReplyInv, HasGot
<1> QED BY <1>1, SoloHolds, PTL

(* A key press of one thread ends with the screen and the status of a      *)
(* keyboard that the host has unlocked, whatever the host sends and when   *)
(* (terminal.py 314-316, 430-434).                                         *)
THEOREM SoloKey == ASSUME Alone PROVE Spec => []KeyWaitsForUnlock
<1>1. SoloInv => KeyWaitsForUnlock
  BY DEF SoloInv, KeyWaitsForUnlock, Good, KeyInv
<1> QED BY <1>1, SoloHolds, PTL

(* The screen buffer of one thread's session takes Ascii1 output only and  *)
(* never goes back, until a command is given up (terminal.py 308-317).     *)
THEOREM SoloBuffer == ASSUME Alone PROVE Spec => BufferMovesForward
<1>1. ASSUME SoloInv, Next, buffer' # buffer, ~behind
      PROVE  buffer'.kind = "Ascii1" /\ buffer'.screen >= buffer.screen
  <2>1. PICK t \in Callers : Take(t)
    BY <1>1 DEF Next, Starts, StartOp, StopOp, Begin, Working, Command, Started, Stopped, Failed,
                Finish, WaitForEnds, WaitForAgain, TextRefused, CallStopped, CallBusy, CallDead, Call, Answered,
                Returned, TimedOut, Died, Handle, HostSends, HostUnlocks, HostDrops, Die,
                Launched, session
  <2>2. buffer' = Shown(th[t].cmd) /\ Next1(t) = "Ascii1" /\ In(t, "took")
    BY <1>1, <2>1 DEF Take, Store, Next1
  <2>3. ReplyInv(t) /\ Replied(th[t].cmd)
    BY <1>1, <2>2 DEF SoloInv, Good, SharedInv, HandInv
  <2> QED BY <2>2, <2>3 DEF ReplyInv, HasGot, Got, Shown, In
<1>2. SoloInv /\ [Next]_vars
        => [buffer' # buffer /\ ~behind
              => buffer'.kind = "Ascii1" /\ buffer'.screen >= buffer.screen]_vars
  BY <1>1
<1> QED BY <1>2, SoloHolds, PTL DEF Spec, BufferMovesForward
=============================================================================
