------------------------------ MODULE Terminal ------------------------------
(***************************************************************************)
(* ibm3270/terminal.py: the session object over its transport.  A method   *)
(* is the sequence of s3270 commands it issues through command(), and the  *)
(* assignments to the object between and after them.  The transport is the *)
(* CommandChannel it implements; the in-flight lock is its "current".      *)
(*                                                                         *)
(* execute() gives the lock back before command() stores the status and    *)
(* refresh() the screen: a caller has its answer in hand (phase "took")    *)
(* while another one may already be in execute().                          *)
(***************************************************************************)
EXTENDS Integers, Sequences

CONSTANTS Callers,      \* threads that share the Terminal
          Ops,          \* the methods each of them calls
          Target,       \* the screen wait_for() looks for
          MaxBehind,    \* bound: answers owed when a method is called
          MaxIds,       \* bound: commands written and not yet done with
          MaxScreens    \* bound: screens the host sends

Kinds == {"Connect", "Disconnect", "Key", "Wait(Unlock)", "Wait(Output)", "Ascii1",
          "MoveCursor", "String", "EraseInput", "Query"}

(* The commands of each method; "key" is enter, clear, pf and pa, "refresh"*)
(* also read_screen and read_many, "command" also query, get and tab,      *)
(* "run_step" is command() with a key, "workflow" a run_workflow() of two  *)
(* commands, "wait_output" also wait, and "wait_for" one turn of the loop, *)
(* also for expect.                                                        *)
Script == [connect    |-> <<"Connect", "Wait(Unlock)", "Ascii1">>,
           disconnect |-> <<"Disconnect">>,
           key        |-> <<"Key", "Wait(Unlock)", "Ascii1">>,
           erase      |-> <<"EraseInput", "Wait(Unlock)", "Ascii1">>,
           refresh    |-> <<"Wait(Unlock)", "Ascii1">>,
           write      |-> <<"MoveCursor", "String">>,
           string     |-> <<"String">>,
           move       |-> <<"MoveCursor">>,
           wait_unlock |-> <<"Wait(Unlock)">>,
           wait_output |-> <<"Wait(Output)">>,
           wait_ready |-> <<"Wait(Unlock)", "Wait(Output)">>,
           wait_for   |-> <<"Wait(Unlock)", "Ascii1">>,
           run_step   |-> <<"Key">>,
           workflow   |-> <<"Key", "Query">>,
           command    |-> <<"Query">>]

Methods == DOMAIN Script \cup {"start", "stop"}

ASSUME OpsAssumption    == Ops \in [Callers -> SUBSET Methods]
ASSUME BoundsAssumption == {MaxBehind, MaxIds, MaxScreens, Target} \subseteq Nat

Commands == 1..MaxIds
States   == {"Initial", "Started", "Connected", "Disconnected", "Stopped", "Failed"}

VARIABLES
    connected, state,                   \* self._connected, self._state
    status,                             \* self._last_status_info: locked, or none yet
    buffer,                             \* self._screen_buffer: the answer it was taken from
    owed, current, answer, behind,      \* the transport, as in CommandChannel
    stopped,                            \* its self._stopped
    log,                                \* the commands at work, with s3270's replies
    alive, host, locked, screen,        \* s3270: running, connected, keyboard, screen shown
    lost,                               \* history: the host or s3270 went away on its own
                                        \* since the last connection, start() or stop()
    th                                  \* the callers' local state

session  == <<connected, state, status, buffer>>
channel  == <<owed, current, answer, behind, stopped>>
emulator == <<alive, host, locked, screen, lost>>
vars     == <<session, channel, log, emulator, th>>

Ch == INSTANCE CommandChannel WITH MaxOwed <- MaxIds

NoReply == [ok |-> FALSE, locked |-> TRUE, screen |-> -1]
Unused  == [kind |-> "none", reply |-> NoReply]

(* first is the response the method returns; allOk is a history variable.  *)
Idle == [op |-> "none", phase |-> "idle", rest |-> <<>>, cmd |-> 0,
         first |-> NoReply, allOk |-> TRUE]

Init == /\ connected = FALSE /\ state = "Initial"
        /\ status = "unknown" /\ buffer = [kind |-> "none", ok |-> TRUE, screen |-> 0]
        /\ Ch!Init /\ stopped = FALSE
        /\ log = [c \in Commands |-> Unused]
        /\ alive = FALSE /\ host = FALSE /\ locked = TRUE /\ screen = 0 /\ lost = FALSE
        /\ th = [t \in Callers |-> Idle]

In(t, phase) == th[t].phase = phase
Goto(t, phase) == th' = [th EXCEPT ![t] = [Idle EXCEPT !.op = th[t].op, !.phase = phase]]
Leave(t)     == th' = [th EXCEPT ![t] = Idle]       \* returns or raises
Enter(t, op, script) == th' = [th EXCEPT ![t] = [Idle EXCEPT !.op = op, !.phase = "call",
                                                             !.rest = script]]

Replied(c)   == log[c].reply # NoReply
Owed         == {owed[i] : i \in DOMAIN owed}
InHand       == {th[t].cmd : t \in {u \in Callers : In(u, "took")}}
Forget(C)    == log' = [c \in Commands |-> IF c \in C THEN Unused ELSE log[c]]

(***************************************************************************)
(* start() and stop(), lines 118-129.  The transport's part is one step    *)
(* here.  A start() while another caller is in a method can come before or *)
(* after the line queue is read for that method's command (transport.py    *)
(* 109, 193): the answers left in the old queue are gone, or are still     *)
(* taken for answers of the new process.                                   *)
(***************************************************************************)
Startable(t) == In(t, "idle") /\ "start" \in Ops[t] /\ ~alive
Overlapped   == \E u \in Callers : In(u, "call") \/ In(u, "wait")

Launched(t) ==
    /\ alive' = TRUE /\ host' = FALSE /\ locked' = TRUE /\ lost' = FALSE
    /\ stopped' = FALSE
    /\ Goto(t, "started")
    /\ UNCHANGED <<session, screen>>

(* Faulty variant: answers of the process before are still read.           *)
StartKeeps(t) ==
    /\ Startable(t)
    /\ Ch!RestartKeeps /\ UNCHANGED log
    /\ Launched(t)

StartOp(t) ==           \* 120-122
    /\ Startable(t)
    /\ IF Overlapped THEN Ch!RestartUnder ELSE Ch!Restart
    /\ Forget(Owed \ {owed'[i] : i \in DOMAIN owed'})
    /\ Launched(t)

Started(t) ==           \* 123
    /\ In(t, "started")
    /\ state' = "Started"
    /\ Leave(t)
    /\ UNCHANGED <<connected, status, buffer, channel, log, emulator>>

(* The process ends: commands it has not answered stay unanswered.         *)
Gone == /\ Ch!Lose
        /\ \A i \in DOMAIN owed : Replied(owed[i]) <=> i \in DOMAIN owed'
        /\ Forget({c \in Owed : ~Replied(c)})
        /\ alive' = FALSE /\ host' = FALSE
        /\ UNCHANGED <<locked, screen>>

StopOp(t) ==            \* 127
    /\ In(t, "idle") /\ "stop" \in Ops[t]
    /\ Gone /\ lost' = FALSE /\ stopped' = TRUE
    /\ Goto(t, "stopped")
    /\ UNCHANGED session

Stopped(t) ==           \* 128-129
    /\ In(t, "stopped")
    /\ connected' = FALSE /\ state' = "Stopped"
    /\ Leave(t)
    /\ UNCHANGED <<status, buffer, channel, log, emulator>>

(***************************************************************************)
(* The methods that issue commands.                                        *)
(***************************************************************************)
(* Faulty variant: refresh() without the wait_unlock() of line 314.        *)
BeginHasty(t, op) ==
    /\ In(t, "idle") /\ op \in Ops[t] \cap DOMAIN Script
    /\ op = "disconnect" => connected
    /\ Len(owed) < MaxBehind
    /\ Enter(t, op, SelectSeq(Script[op],
                         LAMBDA c : c = "Wait(Unlock)" => Len(Script[op]) = 1))
    /\ UNCHANGED <<session, channel, log, emulator>>

Begin(t, op) ==          \* 239-240: disconnect() may be a no-op
    /\ In(t, "idle") /\ op \in Ops[t] \cap DOMAIN Script
    /\ op = "disconnect" => connected
    /\ Len(owed) < MaxBehind
    /\ Enter(t, op, Script[op])
    /\ UNCHANGED <<session, channel, log, emulator>>

(* command(): _assert_running() and the write, or what refuses it.         *)
CallDead(t) ==          \* 65
    /\ In(t, "call") /\ ~alive
    /\ Goto(t, "failed")
    /\ UNCHANGED <<session, channel, log, emulator>>

Failed(t) ==            \* 66-67 and 154-155
    /\ In(t, "failed")
    /\ state' = "Failed"
    /\ Leave(t)
    /\ UNCHANGED <<connected, status, buffer, channel, log, emulator>>

CallStopped(t) ==       \* transport.py 158-159
    /\ In(t, "call") /\ alive /\ stopped
    /\ Leave(t)
    /\ UNCHANGED <<session, channel, log, emulator>>

CallBusy(t) ==          \* transport.py 160-161
    /\ In(t, "call") /\ alive /\ ~stopped /\ current # 0
    /\ Leave(t)
    /\ UNCHANGED <<session, channel, log, emulator>>

(* string() raises on a text with an escape that is not valid: write() has *)
(* moved the cursor by then.                                               *)
TextRefused(t) ==       \* 423
    /\ In(t, "call") /\ Head(th[t].rest) = "String"
    /\ Leave(t)
    /\ UNCHANGED <<session, channel, log, emulator>>

Call(t) ==              \* 152
    /\ In(t, "call") /\ alive /\ ~stopped
    /\ \E c \in Commands \ (Owed \cup InHand) :
         /\ \A d \in 1..(c - 1) : d \in Owed \cup InHand
         /\ Ch!Write(c)
         /\ log' = [log EXCEPT ![c].kind = Head(th[t].rest)]
         /\ th' = [th EXCEPT ![t].phase = "wait", ![t].cmd = c]
    /\ UNCHANGED <<session, stopped, emulator>>

Answered(t) ==          \* the lines of the oldest answer owed
    /\ In(t, "wait")
    /\ Ch!Respond /\ Replied(Head(owed))
    /\ UNCHANGED <<session, stopped, log, emulator, th>>

Returned(t) ==          \* execute() returns
    /\ In(t, "wait")
    /\ Ch!Return
    /\ th' = [th EXCEPT ![t].phase = "took", ![t].cmd = answer]
    /\ UNCHANGED <<session, stopped, log, emulator>>

(* Faulty variant: line 153 catches every SessionError.                    *)
TimeoutFails(t) ==
    /\ In(t, "wait")
    /\ Ch!GiveUp
    /\ Goto(t, "failed")
    /\ UNCHANGED <<session, stopped, log, emulator>>

TimedOut(t) ==          \* SessionTimeoutError passes through
    /\ In(t, "wait")
    /\ Ch!GiveUp
    /\ Leave(t)
    /\ UNCHANGED <<session, stopped, log, emulator>>

(* The end marker: the process is gone and nothing is left to read.  With  *)
(* a start() in between, the flag it sets stops the new process.           *)
Died(t) ==              \* 153, transport.py 197-199
    /\ In(t, "wait") /\ owed = <<>>
    /\ Ch!GiveUp /\ stopped' = TRUE
    /\ Goto(t, "failed")
    /\ UNCHANGED <<session, log, emulator>>

Shown(c) == [kind |-> log[c].kind, ok |-> log[c].reply.ok, screen |-> log[c].reply.screen]
Flag(c)  == IF log[c].reply.locked THEN "locked" ELSE "unlocked"

(* What the caller does with the answer to its command.                    *)
Store(t, newStatus, newBuffer) ==
    /\ In(t, "took")
    /\ status' = newStatus /\ buffer' = newBuffer
    /\ LET reply == log[th[t].cmd].reply
       IN th' = [th EXCEPT
            ![t].cmd = 0,
            ![t].rest = Tail(@),
            ![t].phase = IF Len(th[t].rest) = 1 THEN "finish" ELSE "call",
            ![t].first = IF @ = NoReply THEN reply ELSE @,
            ![t].allOk = @ /\ reply.ok]
    /\ Forget({th[t].cmd})
    /\ UNCHANGED <<connected, state, channel, emulator>>

(* Faulty variants: every command's output is stored as the screen; a      *)
(* screen that could not be read is stored as no screen; the status is     *)
(* stored with the screen only.                                            *)
TakeAny(t) == Store(t, Flag(th[t].cmd), Shown(th[t].cmd))

TakeNone(t) ==
    Store(t, Flag(th[t].cmd),
             IF Head(th[t].rest) # "Ascii1" THEN buffer
             ELSE IF Shown(th[t].cmd).ok THEN Shown(th[t].cmd)
             ELSE [Shown(th[t].cmd) EXCEPT !.screen = -1])

TakeLate(t) ==
    Store(t, IF Head(th[t].rest) = "Ascii1" THEN Flag(th[t].cmd) ELSE status,
             IF Head(th[t].rest) = "Ascii1" THEN Shown(th[t].cmd) ELSE buffer)

Take(t) ==              \* 157-158, and 316 when the command was Ascii1()
    Store(t, Flag(th[t].cmd),
             IF Head(th[t].rest) = "Ascii1" THEN Shown(th[t].cmd) ELSE buffer)

(* Faulty variants: disconnect() without line 243; connect() without lines *)
(* 233-234.                                                                *)
FinishConnected(t) ==
    /\ In(t, "finish") /\ th[t].op # "wait_for"
    /\ CASE th[t].op = "connect"    ->
              /\ connected' = th[t].first.ok
              /\ state' = IF th[t].first.ok THEN "Connected" ELSE state
         [] th[t].op = "disconnect" -> connected' = FALSE /\ UNCHANGED state
         [] OTHER                   -> UNCHANGED <<connected, state>>
    /\ Leave(t)
    /\ UNCHANGED <<status, buffer, channel, log, emulator>>

FinishSilently(t) ==
    /\ In(t, "finish") /\ th[t].op # "wait_for"
    /\ CASE th[t].op = "connect"    -> connected' = th[t].first.ok /\ UNCHANGED state
         [] th[t].op = "disconnect" -> connected' = FALSE /\ state' = "Disconnected"
         [] OTHER                   -> UNCHANGED <<connected, state>>
    /\ Leave(t)
    /\ UNCHANGED <<status, buffer, channel, log, emulator>>

Finish(t) ==
    /\ In(t, "finish") /\ th[t].op # "wait_for"
    /\ CASE th[t].op = "connect"    ->                  \* 232-234
              /\ connected' = th[t].first.ok
              /\ state' = IF th[t].first.ok THEN "Connected" ELSE state
         [] th[t].op = "disconnect" ->                  \* 242-243
              connected' = FALSE /\ state' = "Disconnected"
         [] OTHER                   -> UNCHANGED <<connected, state>>
    /\ Leave(t)
    /\ UNCHANGED <<status, buffer, channel, log, emulator>>

Found == buffer.kind = "Ascii1" /\ buffer.ok /\ buffer.screen = Target

(* Faulty variant: a loop without the deadline.                            *)
EndsIfFound(t) ==
    /\ In(t, "finish") /\ th[t].op = "wait_for" /\ Found
    /\ Leave(t)
    /\ UNCHANGED <<session, channel, log, emulator>>

WaitForEnds(t) ==       \* 571-575: found, or the deadline has passed
    /\ In(t, "finish") /\ th[t].op = "wait_for"
    /\ Leave(t)
    /\ UNCHANGED <<session, channel, log, emulator>>

WaitForAgain(t) ==      \* 573-570: one more turn of the loop
    /\ In(t, "finish") /\ th[t].op = "wait_for" /\ ~Found
    /\ Len(owed) < MaxBehind
    /\ Enter(t, "wait_for", Script["wait_for"])
    /\ UNCHANGED <<session, channel, log, emulator>>

(***************************************************************************)
(* s3270 and the host, external.  A command has one of some outcomes, or   *)
(* none while it blocks.                                                   *)
(***************************************************************************)
Outcome(ok, h, l) == [ok |-> ok, host |-> h, locked |-> l]
Same(ok)          == Outcome(ok, host, locked)

Outcomes(kind) ==
    CASE kind = "Connect"      -> {Same(FALSE)} \cup
                                  (IF host THEN {} ELSE {Outcome(TRUE, TRUE, TRUE)})
      [] kind = "Disconnect"   -> {Outcome(TRUE, FALSE, TRUE)}
      [] kind = "Key"          -> IF host /\ ~locked THEN {Outcome(TRUE, TRUE, TRUE)}
                                                     ELSE {Same(FALSE)}
      [] kind = "Wait(Unlock)" -> IF ~host THEN {Same(FALSE)}
                                  ELSE IF locked THEN {} ELSE {Same(TRUE)}
      [] kind = "Ascii1"       -> {Same(TRUE)} \cup (IF host THEN {} ELSE {Same(FALSE)})
      [] kind \in {"MoveCursor", "String", "EraseInput"} -> {Same(host /\ ~locked)}
      [] OTHER                 -> {Same(TRUE), Same(FALSE)}

Handle ==               \* the oldest command not yet answered
    \E i \in DOMAIN owed :
      /\ alive
      /\ ~Replied(owed[i]) /\ \A j \in 1..(i - 1) : Replied(owed[j])
      /\ \E o \in Outcomes(log[owed[i]].kind) :
           /\ log' = [log EXCEPT ![owed[i]].reply =
                        [ok |-> o.ok, locked |-> o.locked, screen |-> screen]]
           /\ host' = o.host /\ locked' = o.locked
           /\ lost' = (lost /\ ~(o.host /\ ~host))
      /\ UNCHANGED <<session, channel, alive, screen, th>>

HostSends ==            \* the host sends a screen, with or without a key before it
    /\ host /\ screen < MaxScreens
    /\ screen' = screen + 1
    /\ UNCHANGED <<session, channel, log, alive, host, locked, lost, th>>

HostUnlocks ==          \* the host unlocks the keyboard, before or after its screen
    /\ host /\ locked
    /\ locked' = FALSE
    /\ UNCHANGED <<session, channel, log, alive, host, screen, lost, th>>

HostDrops ==            \* the host, or the network, ends the connection
    /\ host
    /\ host' = FALSE /\ locked' = TRUE /\ lost' = TRUE
    /\ UNCHANGED <<session, channel, log, alive, screen, th>>

Die ==                  \* s3270 crashes
    /\ alive
    /\ Gone /\ lost' = TRUE
    /\ UNCHANGED <<session, stopped, th>>

Command(t) == \/ TextRefused(t) \/ CallDead(t) \/ CallStopped(t) \/ CallBusy(t) \/ Call(t)
              \/ Answered(t) \/ Returned(t) \/ TimedOut(t) \/ Died(t) \/ Failed(t) \/ Take(t)
Working(t) == \/ Started(t) \/ Stopped(t) \/ Command(t)
              \/ Finish(t) \/ WaitForEnds(t) \/ WaitForAgain(t)
Starts(t)  == \/ StartOp(t) \/ StopOp(t)
              \/ \E op \in DOMAIN Script : Begin(t, op)

Next == \/ \E t \in Callers : Starts(t) \/ Working(t)
        \/ Handle \/ HostSends \/ HostUnlocks \/ HostDrops \/ Die

(* A method that was called goes on, whatever s3270 and the host do: the   *)
(* deadline of execute() (transport.py 185) comes, and so does that of     *)
(* wait_for() (569), whose loop looks at it again and again.               *)
Spec == /\ Init /\ [][Next]_vars
        /\ \A t \in Callers : WF_vars(Working(t)) /\ SF_vars(WaitForEnds(t))
-----------------------------------------------------------------------------
Reply == [ok : BOOLEAN, locked : BOOLEAN, screen : -1..MaxScreens]

(* What is left of a method's commands while it issues them.              *)
Suffixes(op) == {SubSeq(Script[op], i, Len(Script[op])) : i \in 1..Len(Script[op])}

(* Every variable has its type.                                            *)
TypeOK ==
    /\ connected \in BOOLEAN /\ state \in States
    /\ status \in {"unknown", "locked", "unlocked"}
    /\ buffer \in [kind : Kinds \cup {"none"}, ok : BOOLEAN, screen : 0..MaxScreens]
    /\ Ch!TypeOK
    /\ log \in [Commands -> [kind : Kinds \cup {"none"}, reply : Reply]]
    /\ {stopped, alive, host, locked, lost} \subseteq BOOLEAN
    /\ screen \in 0..MaxScreens
    /\ th \in [Callers -> [op : Methods \cup {"none"},
                           phase : {"idle", "started", "stopped", "failed",
                                    "call", "wait", "took", "finish"},
                           rest : {<<>>} \cup UNION {Suffixes(op) : op \in DOMAIN Script},
                           cmd : 0..MaxIds, first : Reply, allOk : BOOLEAN]]

Quiet == \A t \in Callers : In(t, "idle")

(* Between the calls of one thread a session that says Failed has no       *)
(* process: no other failure, and no restart, leaves it so (lines 66, 123, *)
(* 153-155).                                                               *)
FailedMeansDead == Quiet /\ state = "Failed" => ~alive

(* Between calls a session that says Disconnected has an emulator without  *)
(* a host, unless a command of this process was given up: what connect()   *)
(* leaves half done when it raises is never a connection (lines 231-243).  *)
DisconnectedMeansNoHost == Quiet /\ state = "Disconnected" /\ ~behind => ~host

(* Between calls a session that says Connected has a host, unless the host *)
(* or s3270 went away on its own, which nothing in the code notices: after *)
(* a refused or repeated connect(), a disconnect() or a restart it does    *)
(* not go on saying so, unless a command of this process was given up      *)
(* (lines 123, 129, 232-234, 242-243).                                     *)
ConnectedMeansHost == Quiet /\ state = "Connected" /\ ~behind => host \/ lost

(* execute() hands a caller the answer of the very command it wrote, also  *)
(* with other callers' commands before and between and after a restart,    *)
(* unless a command of this process was given up or a start() overlapped   *)
(* another caller's method (line 152).                                     *)
AnswerIsOwn == [][\A t \in Callers : Returned(t) /\ ~behind => answer = th[t].cmd]_vars

(* enter(), clear() and the others that press a key return when the host   *)
(* has unlocked the keyboard again: the status is that of the screen they  *)
(* leave in the buffer, the keyboard was free when both were taken, and    *)
(* the screen is not older than the key (lines 314-316, 430-434, and what  *)
(* 445 says of clear()).                                                   *)
KeyWaitsForUnlock ==
    \A t \in Callers :
        In(t, "finish") /\ th[t].op = "key" /\ th[t].allOk /\ ~behind
            => /\ status = "unlocked" \/ lost
               /\ buffer.kind = "Ascii1" /\ buffer.screen >= th[t].first.screen

(* is_(KeyboardLock) of one thread's session never says that the keyboard  *)
(* is free while the host has it locked, whatever keys, failures, drops    *)
(* and restarts came before (lines 157-158, 286-298).                      *)
KeyboardFlagIsTrue == Quiet /\ status = "unlocked" /\ host /\ ~behind => ~locked

(* The screen buffer of one thread's session only moves forward: refresh() *)
(* never stores the output of a command other than Ascii1(), nor an older  *)
(* screen than the one it holds, until a command is given up (lines        *)
(* 308-317).                                                               *)
BufferMovesForward ==
    [][buffer' # buffer /\ ~behind
         => buffer'.kind = "Ascii1" /\ buffer'.screen >= buffer.screen]_vars

(* Every method returns or raises.                                         *)
MethodsReturn == \A t \in Callers : ~In(t, "idle") ~> In(t, "idle")

(* terminal.py 238 as a property of the code: disconnect() is a no-op only *)
(* when there is no connection to end.                                     *)
DisconnectDisconnects == Quiet /\ ~connected => ~host

(* 06_waiting_for_changes.md 30 as a property of the code: wait_for() does *)
(* not raise an exception on a timeout.                                    *)
WaitForReturnsFalse ==
    [][\A t \in Callers : th[t].op = "wait_for" => ~TimedOut(t)]_vars
=============================================================================
