----------------------------- MODULE Transport -----------------------------
(***************************************************************************)
(* ibm3270/transport.py: one s3270 subprocess, the thread that reads its   *)
(* stdout, and the caller threads that share the Transport object.         *)
(*                                                                         *)
(* A step of a caller is one access to an attribute that another thread    *)
(* may change (_process, _line_queue, _reader, _stopped, the in-flight     *)
(* lock), with the one call made on the object found there (poll, write,   *)
(* kill, get, start): between two of them any other thread may run.  Popen *)
(* and the assignment of what it returns are one step.  Time is not        *)
(* modelled: a wait with a timeout may end at any moment at which the code *)
(* would let the timeout win.                                              *)
(*                                                                         *)
(* The start() call that launches process p also makes queue p and reader  *)
(* p; queue 0 is the one __init__ makes and 0 stands for None elsewhere.   *)
(***************************************************************************)
EXTENDS Naturals, Sequences

CONSTANTS Threads,      \* caller threads
          Ops,          \* the methods each of them calls
          Replies,      \* answers of s3270, as sequences of line kinds
          MaxLaunches,  \* bound: successful Popen calls
          MaxCalls      \* bound: calls of these methods

Methods   == {"start", "stop", "execute", "look"}
Kinds     == {"data", "status", "ok", "error"}
EndKinds  == {"ok", "error"}

ASSUME ThreadsAssumption == 0 \notin Threads
ASSUME OpsAssumption     == Ops \in [Threads -> SUBSET Methods]
ASSUME BoundsAssumption  == MaxLaunches \in Nat /\ MaxCalls \in Nat
ASSUME RepliesAssumption ==
    \A r \in Replies : /\ r \in Seq(Kinds) /\ Len(r) > 0
                       /\ \A i \in 1..Len(r) : r[i] \in EndKinds <=> i = Len(r)

Launches == 1..MaxLaunches
Commands == 1..MaxCalls
EOF      == [cmd |-> 0, kind |-> "eof"]
Lines    == [cmd : Commands, kind : Kinds]

VARIABLES
    process,    \* self._process: a launch, or 0
    lineQueue,  \* self._line_queue: the launch whose start() made it, or 0
    reader,     \* self._reader: likewise, 0 for None
    stopped,    \* self._stopped
    lock,       \* self._inflight_lock: its holder, or 0
    emu,        \* the processes: poll() status, stdin closed, both pipes
    rdr,        \* the reader threads: status, the stdout each reads, the queue it fills
    queue,      \* the contents of every line queue
    th,         \* the callers' local state
    calls,      \* number of calls made, which also numbers the commands
    abandoned   \* history: launches with a command written but not answered to its caller

attrs == <<process, lineQueue, reader, stopped, lock>>
vars  == <<attrs, emu, rdr, queue, th, calls, abandoned>>

(* to is the launch of a start(), or the one a command was written to; from*)
(* the process whose stdout a start() has read, or the queue that an       *)
(* execute() reads.                                                        *)
Idle(r) == [pc |-> "idle", cmd |-> 0, to |-> 0, from |-> 0, got |-> <<>>, result |-> r]

Init == /\ process = 0 /\ lineQueue = 0 /\ reader = 0 /\ stopped = FALSE /\ lock = 0
        /\ emu = [p \in Launches |->
                    [st |-> "none", closed |-> FALSE, inbox |-> <<>>, out |-> <<>>]]
        /\ rdr = [q \in Launches |-> [st |-> "none", stream |-> 0, sink |-> 0]]
        /\ queue = [q \in 0..MaxLaunches |-> <<>>]
        /\ th = [t \in Threads |-> Idle("none")]
        /\ calls = 0
        /\ abandoned = {}

At(t, l)     == th[t].pc = l
Goto(t, l)   == th' = [th EXCEPT ![t].pc = l]

(* Of how a call ended only an exception that the code does not convert is *)
(* kept.                                                                   *)
Return(t, r) == th' = [th EXCEPT ![t] = Idle(IF r = "internal" THEN r ELSE "none")]

Call(t, op) == /\ At(t, "idle") /\ op \in Ops[t] /\ calls < MaxCalls
               /\ calls' = calls + 1

(***************************************************************************)
(* start(): lines 94-112.                                                  *)
(***************************************************************************)
StartCall(t) ==         \* 94, the first read in available()
    /\ Call(t, "start")
    /\ Goto(t, IF process = 0 THEN "launch" ELSE "startPoll")
    /\ UNCHANGED <<attrs, emu, rdr, queue, abandoned>>

StartPoll(t) ==         \* 94, the second read in available()
    /\ At(t, "startPoll")
    /\ \/ process = 0 /\ Return(t, "internal")
       \/ process # 0 /\ emu[process].st = "exited" /\ Goto(t, "launch")
       \/ process # 0 /\ emu[process].st # "exited" /\ Return(t, "returned")
    /\ UNCHANGED <<attrs, emu, rdr, queue, calls, abandoned>>

Launch(t, p) ==         \* 98
    /\ At(t, "launch")
    /\ emu[p].st = "none" /\ \A q \in 1..(p - 1) : emu[q].st # "none"
    /\ emu' = [emu EXCEPT ![p].st = "running"]
    /\ process' = p
    /\ th' = [th EXCEPT ![t].pc = "checkStdout", ![t].to = p]
    /\ UNCHANGED <<lineQueue, reader, stopped, lock, rdr, queue, calls, abandoned>>

LaunchFails(t) ==       \* 98, Popen raises
    /\ At(t, "launch")
    /\ Return(t, "raised")
    /\ UNCHANGED <<attrs, emu, rdr, queue, calls, abandoned>>

CheckStdout(t) ==       \* 108
    /\ At(t, "checkStdout")
    /\ IF process = 0 THEN Return(t, "internal") ELSE Goto(t, "newQueue")
    /\ UNCHANGED <<attrs, emu, rdr, queue, calls, abandoned>>

(* Faulty variant: without line 109 all launches share one line queue.     *)
KeepQueue(t) ==
    /\ At(t, "newQueue")
    /\ Goto(t, "readStdout")
    /\ UNCHANGED <<attrs, emu, rdr, queue, calls, abandoned>>

NewQueue(t) ==          \* 109
    /\ At(t, "newQueue")
    /\ lineQueue' = th[t].to
    /\ Goto(t, "readStdout")
    /\ UNCHANGED <<process, reader, stopped, lock, emu, rdr, queue, calls, abandoned>>

(* The arguments of _StdoutReader() are read one after the other, and the  *)
(* reader is stored after both: with two racing start() calls it may get   *)
(* the stdout of one and the queue of the other.                           *)
ReadStdout(t) ==        \* 110, the first argument
    /\ At(t, "readStdout")
    /\ IF process = 0 THEN Return(t, "internal")
       ELSE th' = [th EXCEPT ![t].pc = "readQueue", ![t].from = process]
    /\ UNCHANGED <<attrs, emu, rdr, queue, calls, abandoned>>

ReadQueue(t) ==         \* 110, the second argument
    /\ At(t, "readQueue")
    /\ rdr' = [rdr EXCEPT ![th[t].to] =
                 [st |-> "created", stream |-> th[t].from, sink |-> lineQueue]]
    /\ Goto(t, "newReader")
    /\ UNCHANGED <<attrs, emu, queue, calls, abandoned>>

NewReader(t) ==         \* 110, the assignment
    /\ At(t, "newReader")
    /\ reader' = th[t].to
    /\ Goto(t, "startReader")
    /\ UNCHANGED <<process, lineQueue, stopped, lock, emu, rdr, queue, calls, abandoned>>

StartReader(t) ==       \* 111: no such attribute, or started by another start() already
    /\ At(t, "startReader")
    /\ IF reader # 0 /\ rdr[reader].st = "created"
       THEN rdr' = [rdr EXCEPT ![reader].st = "running"] /\ Goto(t, "clearStopped")
       ELSE Return(t, "internal") /\ UNCHANGED rdr
    /\ UNCHANGED <<attrs, emu, queue, calls, abandoned>>

(* Faulty variant: without line 112 a restarted transport stays stopped.   *)
KeepStopped(t) ==
    /\ At(t, "clearStopped")
    /\ Return(t, "returned")
    /\ UNCHANGED <<attrs, emu, rdr, queue, calls, abandoned>>

ClearStopped(t) ==      \* 112
    /\ At(t, "clearStopped")
    /\ stopped' = FALSE
    /\ Return(t, "returned")
    /\ UNCHANGED <<process, lineQueue, reader, lock, emu, rdr, queue, calls, abandoned>>

(***************************************************************************)
(* stop(): lines 116-141.                                                  *)
(***************************************************************************)
StopCall(t) ==          \* 116
    /\ Call(t, "stop")
    /\ stopped' = TRUE
    /\ Goto(t, "stopCheck")
    /\ UNCHANGED <<process, lineQueue, reader, lock, emu, rdr, queue, abandoned>>

StopCheck(t) ==         \* 117-118
    /\ At(t, "stopCheck")
    /\ IF process = 0 THEN Return(t, "returned") ELSE Goto(t, "closeStdin")
    /\ UNCHANGED <<attrs, emu, rdr, queue, calls, abandoned>>

CloseStdin(t) ==        \* 120-124, every exception swallowed
    /\ At(t, "closeStdin")
    /\ emu' = IF process = 0 THEN emu ELSE [emu EXCEPT ![process].closed = TRUE]
    /\ Goto(t, "terminate")
    /\ UNCHANGED <<attrs, rdr, queue, calls, abandoned>>

(* SIGTERM only asks: the emulator may take its time, or ignore it.        *)
Terminate(t) ==         \* 127-128
    /\ At(t, "terminate")
    /\ Goto(t, IF process = 0 THEN "kill"
               ELSE IF emu[process].st = "exited" THEN "joinCheck" ELSE "wait")
    /\ UNCHANGED <<attrs, emu, rdr, queue, calls, abandoned>>

WaitExit(t) ==          \* 129: it exits, or TimeoutExpired
    /\ At(t, "wait")
    /\ Goto(t, IF process # 0 /\ emu[process].st = "exited" THEN "joinCheck" ELSE "kill")
    /\ UNCHANGED <<attrs, emu, rdr, queue, calls, abandoned>>

(* Faulty variant: a SIGTERM that is ignored is not followed by kill().    *)
SkipKill(t) ==
    /\ At(t, "kill")
    /\ Goto(t, "joinCheck")
    /\ UNCHANGED <<attrs, emu, rdr, queue, calls, abandoned>>

Kill(t) ==              \* 130-135, every exception swallowed
    /\ At(t, "kill")
    /\ emu' = IF process # 0 /\ emu[process].st = "running"
              THEN [emu EXCEPT ![process].st = "dying", ![process].inbox = <<>>]
              ELSE emu
    /\ Goto(t, "joinCheck")
    /\ UNCHANGED <<attrs, rdr, queue, calls, abandoned>>

JoinCheck(t) ==         \* 137
    /\ At(t, "joinCheck")
    /\ Goto(t, IF reader = 0 THEN "dropProcess" ELSE "join")
    /\ UNCHANGED <<attrs, emu, rdr, queue, calls, abandoned>>

Join(t) ==              \* 138: the reader ends, or one second passes
    /\ At(t, "join")
    /\ IF reader = 0 \/ rdr[reader].st = "created"
       THEN Return(t, "internal") ELSE Goto(t, "dropReader")
    /\ UNCHANGED <<attrs, emu, rdr, queue, calls, abandoned>>

DropReader(t) ==        \* 139
    /\ At(t, "dropReader")
    /\ reader' = 0
    /\ Goto(t, "dropProcess")
    /\ UNCHANGED <<process, lineQueue, stopped, lock, emu, rdr, queue, calls, abandoned>>

DropProcess(t) ==       \* 141
    /\ At(t, "dropProcess")
    /\ process' = 0
    /\ Return(t, "returned")
    /\ UNCHANGED <<lineQueue, reader, stopped, lock, emu, rdr, queue, calls, abandoned>>

(***************************************************************************)
(* execute(): lines 158-168, with _send_raw and _read_response.            *)
(***************************************************************************)
ExecCall(t) ==          \* 158-159
    /\ Call(t, "execute")
    /\ IF stopped THEN Return(t, "stopped")
       ELSE th' = [th EXCEPT ![t] = [Idle("none") EXCEPT !.pc = "acquire", !.cmd = calls']]
    /\ UNCHANGED <<attrs, emu, rdr, queue, abandoned>>

(* Faulty variant: what acquire(blocking=False) returns is not looked at.  *)
AcquireAnyway(t) ==
    /\ At(t, "acquire")
    /\ lock' = t
    /\ Goto(t, "check")
    /\ UNCHANGED <<process, lineQueue, reader, stopped, emu, rdr, queue, calls, abandoned>>

Acquire(t) ==           \* 160-161
    /\ At(t, "acquire")
    /\ IF lock = 0 THEN lock' = t /\ Goto(t, "check")
                   ELSE Return(t, "busy") /\ UNCHANGED lock
    /\ UNCHANGED <<process, lineQueue, reader, stopped, emu, rdr, queue, calls, abandoned>>

(* The body of the try statement ends, with a response or an exception.    *)
End(t, r) ==
    /\ th' = [th EXCEPT ![t].pc = "release", ![t].result = r]
    /\ abandoned' = IF r = "answered" THEN abandoned ELSE abandoned \cup ({th[t].to} \ {0})

(* Faulty variant: available() without its first half.                     *)
CheckNothing(t) ==
    /\ At(t, "check")
    /\ Goto(t, "poll")
    /\ UNCHANGED <<attrs, emu, rdr, queue, calls, abandoned>>

Check(t) ==             \* 171, the first read in available()
    /\ At(t, "check")
    /\ IF process = 0 THEN End(t, "disconnected")
                      ELSE Goto(t, "poll") /\ UNCHANGED abandoned
    /\ UNCHANGED <<attrs, emu, rdr, queue, calls>>

Poll(t) ==              \* 171-172, the second read in available()
    /\ At(t, "poll")
    /\ IF process = 0 THEN End(t, "internal")
       ELSE IF emu[process].st = "exited" THEN End(t, "disconnected")
       ELSE Goto(t, "send") /\ UNCHANGED abandoned
    /\ UNCHANGED <<attrs, emu, rdr, queue, calls>>

(* A write to a stdin closed by stop() is a ValueError, a write to a dead  *)
(* process an OSError; only the second becomes SessionProcessError.        *)
Send(t) ==              \* 176-182
    /\ At(t, "send")
    /\ IF process = 0 \/ emu[process].closed THEN End(t, "internal") /\ UNCHANGED emu
       ELSE IF emu[process].st # "running" THEN End(t, "process") /\ UNCHANGED emu
       ELSE /\ emu' = [emu EXCEPT ![process].inbox = Append(@, th[t].cmd)]
            /\ th' = [th EXCEPT ![t].pc = "fetch", ![t].to = process]
            /\ UNCHANGED abandoned
    /\ UNCHANGED <<attrs, rdr, queue, calls>>

Fetch(t) ==             \* 189-193, self._line_queue read again for every line
    /\ At(t, "fetch")
    /\ \/ End(t, "timeout")
       \/ /\ th' = [th EXCEPT ![t].pc = "get", ![t].from = lineQueue]
          /\ UNCHANGED abandoned
    /\ UNCHANGED <<attrs, emu, rdr, queue, calls>>

(* The body of the loop of _read_response() over the line q has next, with *)
(* the lines that end a response.                                          *)
Consume(t, ends) ==
    /\ At(t, "get") /\ queue[th[t].from] # <<>>
    /\ LET q == th[t].from
           item == Head(queue[q])
       IN /\ queue' = [queue EXCEPT ![q] = Tail(@)]
          /\ stopped' = (stopped \/ item = EOF)
          /\ IF item.kind \in ends
             THEN /\ th' = [th EXCEPT ![t].pc = "release", ![t].result = "answered",
                                      ![t].got = Append(@, item)]
                  /\ UNCHANGED abandoned
             ELSE IF item = EOF
             THEN End(t, "process")
             ELSE /\ th' = [th EXCEPT ![t].pc = "fetch", ![t].got = Append(@, item)]
                  /\ UNCHANGED abandoned
    /\ UNCHANGED <<process, lineQueue, reader, lock, emu, rdr, calls>>

(* Faulty variants: a response ends with its status line; the end marker   *)
(* is taken for a line of the response.                                    *)
GetToStatus(t) == Consume(t, {"status"})
GetEOF(t)      == Consume(t, EndKinds \cup {"eof"})

Get(t) == Consume(t, EndKinds)      \* 193, 197-204

(* Faulty variant: get() without a timeout.                                *)
GetForever(t) == FALSE /\ At(t, "get") /\ UNCHANGED vars

GetTimeout(t) ==        \* 194-195
    /\ At(t, "get") /\ queue[th[t].from] = <<>>
    /\ End(t, "timeout")
    /\ UNCHANGED <<attrs, emu, rdr, queue, calls>>

(* Faulty variant: the lock is given back after an answer only.            *)
ReleaseAnswered(t) ==
    /\ At(t, "release")
    /\ lock' = IF th[t].result = "answered" THEN 0 ELSE lock
    /\ Return(t, th[t].result)
    /\ UNCHANGED <<process, lineQueue, reader, stopped, emu, rdr, queue, calls, abandoned>>

Release(t) ==           \* 168
    /\ At(t, "release")
    /\ lock' = 0
    /\ Return(t, th[t].result)
    /\ UNCHANGED <<process, lineQueue, reader, stopped, emu, rdr, queue, calls, abandoned>>

(***************************************************************************)
(* pid() and available(), "look", which take no lock and read _process     *)
(* twice: lines 79 and 83-85.  Terminal.command() calls the first for its  *)
(* log after every response, and the second before every command.          *)
(***************************************************************************)
LookCall(t) ==          \* 79, 83-84
    /\ Call(t, "look")
    /\ IF process = 0 THEN Return(t, "returned") ELSE Goto(t, "look")
    /\ UNCHANGED <<attrs, emu, rdr, queue, abandoned>>

LookAgain(t) ==         \* 79, 85
    /\ At(t, "look")
    /\ Return(t, IF process = 0 THEN "internal" ELSE "returned")
    /\ UNCHANGED <<attrs, emu, rdr, queue, calls, abandoned>>

(***************************************************************************)
(* _StdoutReader.run(): lines 49-55.                                       *)
(***************************************************************************)
ReadLine(q) ==
    /\ rdr[q].st = "running"
    /\ LET p == rdr[q].stream
       IN /\ emu[p].out # <<>>
          /\ queue' = [queue EXCEPT ![rdr[q].sink] = Append(@, Head(emu[p].out))]
          /\ emu' = [emu EXCEPT ![p].out = Tail(@)]
    /\ UNCHANGED <<attrs, rdr, th, calls, abandoned>>

(* Faulty variants: the end of the stream is taken for one more blank      *)
(* line; the thread goes on reading after the end marker.                  *)
SkipEOF(q) ==
    /\ rdr[q].st = "running"
    /\ emu[rdr[q].stream].st # "running" /\ emu[rdr[q].stream].out = <<>>
    /\ UNCHANGED vars

ReadOn(q) ==
    /\ rdr[q].st = "running"
    /\ emu[rdr[q].stream].st # "running" /\ emu[rdr[q].stream].out = <<>>
    /\ queue' = [queue EXCEPT ![rdr[q].sink] = Append(@, EOF)]
    /\ UNCHANGED <<attrs, emu, rdr, th, calls, abandoned>>

ReadEOF(q) ==
    /\ rdr[q].st = "running"
    /\ emu[rdr[q].stream].st # "running" /\ emu[rdr[q].stream].out = <<>>
    /\ queue' = [queue EXCEPT ![rdr[q].sink] = Append(@, EOF)]
    /\ rdr' = [rdr EXCEPT ![q].st = "done"]
    /\ UNCHANGED <<attrs, emu, th, calls, abandoned>>

(***************************************************************************)
(* s3270, external: it answers its commands one at a time and in order,    *)
(* and may die at any moment, also in the middle of an answer.  Its pipes  *)
(* close (dying) before poll() can see that it is gone (exited).           *)
(***************************************************************************)
Answered(c, r) == [i \in DOMAIN r |-> [cmd |-> c, kind |-> r[i]]]

Answer(p) ==
    /\ emu[p].st = "running" /\ emu[p].inbox # <<>>
    /\ \E r \in Replies :
         emu' = [emu EXCEPT ![p].inbox = Tail(@),
                            ![p].out = @ \o Answered(Head(emu[p].inbox), r)]
    /\ UNCHANGED <<attrs, rdr, queue, th, calls, abandoned>>

Die(p) ==
    /\ emu[p].st = "running"
    /\ \E r \in Replies : \E n \in 0..(Len(r) - 1) :
         /\ n > 0 => emu[p].inbox # <<>>
         /\ emu' = [emu EXCEPT ![p].st = "dying", ![p].inbox = <<>>,
                      ![p].out = IF n = 0 THEN @ ELSE
                          @ \o SubSeq(Answered(Head(emu[p].inbox), r), 1, n)]
    /\ UNCHANGED <<attrs, rdr, queue, th, calls, abandoned>>

Exit(p) ==
    /\ emu[p].st = "dying"
    /\ emu' = [emu EXCEPT ![p].st = "exited"]
    /\ UNCHANGED <<attrs, rdr, queue, th, calls, abandoned>>

Start(t)   == \/ StartCall(t) \/ StartPoll(t) \/ LaunchFails(t) \/ CheckStdout(t)
              \/ NewQueue(t) \/ ReadStdout(t) \/ ReadQueue(t) \/ NewReader(t)
              \/ StartReader(t) \/ ClearStopped(t)
              \/ \E p \in Launches : Launch(t, p)
Stop(t)    == \/ StopCall(t) \/ StopCheck(t) \/ CloseStdin(t) \/ Terminate(t) \/ WaitExit(t)
              \/ Kill(t) \/ JoinCheck(t) \/ Join(t) \/ DropReader(t) \/ DropProcess(t)
Execute(t) == \/ ExecCall(t) \/ Acquire(t) \/ Check(t) \/ Poll(t) \/ Send(t)
              \/ Fetch(t) \/ Get(t) \/ GetTimeout(t) \/ Release(t)
Look(t)    == LookCall(t) \/ LookAgain(t)
Caller(t)  == Start(t) \/ Stop(t) \/ Execute(t) \/ Look(t)
Emulator(p) == Answer(p) \/ Die(p) \/ Exit(p)
Reader(q)  == ReadLine(q) \/ ReadEOF(q)

Next == \/ \E t \in Threads : Caller(t)
        \/ \E p \in Launches : Emulator(p) \/ Reader(p)

(* A caller that is inside a call is scheduled, and so is a reader thread  *)
(* whose readline() can return; nobody has to make a call, and s3270 need  *)
(* not answer.                                                             *)
Fairness == /\ \A t \in Threads : WF_vars(~At(t, "idle") /\ Caller(t))
            /\ \A q \in Launches : WF_vars(Reader(q))

Spec == Init /\ [][Next]_vars /\ Fairness

-----------------------------------------------------------------------------
Labels  == {"idle", "startPoll", "launch", "checkStdout", "newQueue", "readStdout",
            "readQueue", "newReader", "startReader", "clearStopped", "stopCheck",
            "closeStdin", "terminate", "wait", "kill", "joinCheck", "join",
            "dropReader", "dropProcess",
            "acquire", "check", "poll", "send", "fetch", "get", "release", "look"}
Results == {"none", "returned", "raised", "internal", "stopped", "busy",
            "disconnected", "process", "timeout", "answered"}

LaunchOr0 == 0..MaxLaunches

InTry(t)     == th[t].pc \in {"check", "poll", "send", "fetch", "get", "release"}
InControl(t) == ~InTry(t) /\ th[t].pc \notin {"idle", "acquire", "look"}

Process == [st : {"none", "running", "dying", "exited"}, closed : BOOLEAN,
            inbox : Seq(Commands), out : Seq(Lines)]
ReaderThread == [st : {"none", "created", "running", "done"},
                 stream : LaunchOr0, sink : LaunchOr0]
CallerState == [pc : Labels, cmd : 0..MaxCalls, to : LaunchOr0, from : LaunchOr0,
                got : Seq(Lines), result : Results]

AttrsOK ==
    /\ process \in LaunchOr0 /\ lineQueue \in LaunchOr0 /\ reader \in LaunchOr0
    /\ stopped \in BOOLEAN /\ lock \in Threads \cup {0}
    /\ calls \in 0..MaxCalls /\ abandoned \subseteq Launches

PipesOK ==
    /\ emu \in [Launches -> Process]
    /\ rdr \in [Launches -> ReaderThread]
    /\ \A q \in Launches : rdr[q].st # "none" => rdr[q].stream \in Launches
    /\ queue \in [LaunchOr0 -> Seq(Lines \cup {EOF})]

CallersOK ==
    /\ th \in [Threads -> CallerState]
    /\ \A t \in Threads : /\ At(t, "acquire") \/ InTry(t) => th[t].cmd \in Commands
                          /\ At(t, "readQueue") => th[t].from \in Launches

(* Every variable has its type; a caller inside execute() has a command,   *)
(* and a reader thread, made or about to be made, a stream.                *)
TypeOK == AttrsOK /\ PipesOK /\ CallersOK

(* The in-flight lock (lines 160 and 168): at most one caller is between   *)
(* writing a command and taking its answer, and the lock is held only      *)
(* while there is one: no exception, and no restart of the process under   *)
(* it, keeps the lock for good.                                            *)
OneInFlight == /\ \A t, u \in Threads : InTry(t) /\ InTry(u) => t = u
               /\ lock # 0 => \E t \in Threads : InTry(t)

(* The inductive form: the lock names the caller it admitted.              *)
LockInv == \A t \in Threads : InTry(t) <=> lock = t

Responded(t) == At(t, "release") /\ th[t].result = "answered"

(* execute() returns the answer of its own command, whole, as long as no   *)
(* earlier command of this launch was given up: whatever timed out or died *)
(* before a restart cannot reach a caller after it (lines 109-110, 193).   *)
ResponseIsOwn ==
    \A t \in Threads : Responded(t) /\ th[t].from \notin abandoned =>
        \E r \in Replies : th[t].got = Answered(th[t].cmd, r)

(* Also once commands have been given up, the lines of a response are the  *)
(* end of one single answer: on one launch, two threads never share out    *)
(* the lines of an answer (lines 160, 193-204).                            *)
ResponseNeverMixed ==
    \A t \in Threads : Responded(t) =>
        \E c \in Commands, r \in Replies : \E n \in 1..Len(r) :
            th[t].got = SubSeq(Answered(c, r), n, Len(r))

(* With one thread that starts and stops, no process runs without the      *)
(* handle that can stop it: stop() drops the handle (line 141) only when   *)
(* the process is gone, and start() replaces it only then (line 94).       *)
NoStrayProcess == \A p \in Launches : emu[p].st = "running" => process = p

(* A running process accepts commands: the stopped flag is set while it    *)
(* runs only inside a call of start() or stop() (lines 112, 116, 198).     *)
RunningAccepts ==
    process # 0 /\ emu[process].st = "running" /\ stopped
        => \E t \in Threads : InControl(t)

(* The end marker is the last thing a line queue ever holds (line 53).     *)
EOFIsLast ==
    \A q \in Launches : \A i \in DOMAIN queue[q] :
        queue[q][i] = EOF => i = Len(queue[q]) /\ rdr[q].st = "done"

(* types.py 102 and 108 as a property of the code: a TerminalResponse is   *)
(* the result, and raw the lines, of this command.                         *)
ResponseForCommand ==
    \A t \in Threads : Responded(t) =>
        \E r \in Replies : th[t].got = Answered(th[t].cmd, r)

(* Every call returns or raises, whatever the emulator does: no wait of    *)
(* lines 129, 133, 138, 160 and 193 is without a bound.                    *)
CallsReturn == \A t \in Threads : ~At(t, "idle") ~> At(t, "idle")

(* The daemon reader of a process that is gone ends, also when stop() gave *)
(* up waiting for it (line 138).                                           *)
ReadersEnd ==
    \A q \in Launches :
        rdr[q].st = "running" /\ emu[rdr[q].stream].st = "exited" ~> rdr[q].st = "done"
=============================================================================
