------------------------ MODULE TransportRacesProofs ------------------------
(***************************************************************************)
(* Which harm to a shared Transport needs which overlap of its calls, for  *)
(* any number of threads, launches and calls: a process lost, commands     *)
(* refused, an exception that is not converted.                            *)
(***************************************************************************)
EXTENDS TransportRaces, TransportProofs

USE DEF At

(* What a step does to the statuses of the processes: none starts, and one *)
(* that is gone stays so.                                                  *)
NoneStarts == \A p \in Launches : /\ emu[p].st # "running" => emu'[p].st # "running"
                                  /\ emu[p].st = "exited" => emu'[p].st = "exited"

OthersRest(t) == \A u \in Threads \ {t} : th'[u] = th[u]

(* A step of one thread that starts no process and leaves the handle alone *)
(* keeps StrayFree, if it goes to the launch or to the end of stop() only  *)
(* when that is safe.                                                      *)
LEMMA StepKeeps ==
    ASSUME process \in LaunchOr0, StrayFree, NEW t \in Threads,
           UNCHANGED process, NoneStarts, OthersRest(t),
           At(t, "launch")' => process = 0 \/ emu[process].st = "exited",
           th'[t].pc \in EndLabels => process = 0 \/ emu'[process].st # "running"
    PROVE  StrayFree'
<1>1. NoStrayProcess'
  BY DEF StrayFree, NoStrayProcess, NoneStarts
<1>2. process # 0 => process \in Launches
  BY DEF LaunchOr0, Launches
<1>3. LaunchSafe'
  BY <1>2 DEF StrayFree, LaunchSafe, NoneStarts, OthersRest
<1>4. DropSafe'
  BY <1>2 DEF StrayFree, DropSafe, NoneStarts, OthersRest
<1> QED BY <1>1, <1>3, <1>4 DEF StrayFree

(* A step that moves no caller keeps it too.                               *)
LEMMA EnvironmentKeeps ==
    ASSUME process \in LaunchOr0, StrayFree, UNCHANGED <<process, th>>, NoneStarts
    PROVE  StrayFree'
<1>1. process # 0 => process \in Launches
  BY DEF LaunchOr0, Launches
<1> QED BY <1>1 DEF StrayFree, NoStrayProcess, LaunchSafe, DropSafe, NoneStarts

(* Popen() in a start() that no other start() or stop() overlaps makes the *)
(* only process that runs.                                                 *)
LEMMA LaunchKeeps ==
    ASSUME TypeOK, StrayFree, ~Rivals', NEW t \in Threads, NEW p \in Launches, Launch(t, p)
    PROVE  StrayFree'
<1>1. /\ emu' = [emu EXCEPT ![p].st = "running"] /\ process' = p
      /\ At(t, "launch") /\ th'[t].pc = "checkStdout" /\ OthersRest(t)
  BY DEF Launch, TypeOK, CallersOK, OthersRest
<1>2. emu \in [Launches -> Process]
  BY DEF TypeOK, PipesOK
<1>3. \A q \in Launches : emu[q].st # "running"
  BY <1>1 DEF StrayFree, NoStrayProcess, LaunchSafe, Launches
<1>4. NoStrayProcess'
  BY <1>1, <1>2, <1>3 DEF NoStrayProcess, Process
<1>5. InControl(t)'
  BY <1>1 DEF InControl, InTry
<1>6. \A u \in Threads : ~InControl(u)' \/ u = t
  BY <1>5 DEF Rivals
<1>7. \A u \in Threads : ~At(u, "launch")' /\ th'[u].pc \notin EndLabels
  BY <1>1, <1>6 DEF InControl, InTry, EndLabels
<1> QED BY <1>4, <1>7 DEF StrayFree, LaunchSafe, DropSafe

(* A caller's step that starts no process and leaves the handle alone,     *)
(* going from one label to the next or back to the caller.                 *)
LEMMA GotoKeeps ==
    ASSUME TypeOK, StrayFree, NEW t \in Threads, UNCHANGED process, NoneStarts,
           NEW l, Goto(t, l),
           l = "launch" => process = 0 \/ emu[process].st = "exited",
           l \in EndLabels => process = 0 \/ emu'[process].st # "running"
    PROVE  StrayFree'
<1>1. OthersRest(t) /\ th'[t].pc = l
  BY GotoLabel DEF OthersRest, TypeOK, CallersOK
<1> QED BY <1>1, StepKeeps DEF TypeOK, AttrsOK

LEMMA ReturnKeeps ==
    ASSUME TypeOK, StrayFree, NEW t \in Threads, UNCHANGED process, NoneStarts,
           NEW r, Return(t, r)
    PROVE  StrayFree'
<1>1. OthersRest(t) /\ th'[t].pc = "idle"
  BY ReturnLabel DEF OthersRest, TypeOK, CallersOK
<1> QED BY <1>1, StepKeeps DEF TypeOK, AttrsOK, EndLabels

(* The other steps of start().                                             *)
LEMMA StartKeepsFree ==
    ASSUME TypeOK, StrayFree, ~Rivals', NEW t \in Threads, Start(t)
    PROVE  StrayFree'
<1>1. CASE StartCall(t)
  BY <1>1, GotoKeeps DEF StartCall, attrs, NoneStarts, EndLabels
<1>2. CASE StartPoll(t)
  BY <1>2, GotoKeeps, ReturnKeeps DEF StartPoll, attrs, NoneStarts, EndLabels
<1>3. CASE LaunchFails(t)
  BY <1>3, ReturnKeeps DEF LaunchFails, attrs, NoneStarts
<1>4. CASE CheckStdout(t)
  BY <1>4, GotoKeeps, ReturnKeeps DEF CheckStdout, attrs, NoneStarts, EndLabels
<1>5. CASE NewQueue(t)
  BY <1>5, GotoKeeps DEF NewQueue, NoneStarts, EndLabels
<1>6. CASE ReadStdout(t)
  <2>1. CASE process = 0
    BY <1>6, <2>1, ReturnKeeps DEF ReadStdout, attrs, NoneStarts
  <2>2. CASE process # 0
    <3>1. OthersRest(t) /\ th'[t].pc = "readQueue"
      BY <1>6, <2>2 DEF ReadStdout, OthersRest, TypeOK, CallersOK, CallerState
    <3> QED BY <1>6, <3>1, StepKeeps
            DEF ReadStdout, attrs, NoneStarts, EndLabels, TypeOK, AttrsOK
  <2> QED BY <2>1, <2>2
<1>7. CASE ReadQueue(t)
  BY <1>7, GotoKeeps DEF ReadQueue, attrs, NoneStarts, EndLabels
<1>8. CASE NewReader(t)
  BY <1>8, GotoKeeps DEF NewReader, NoneStarts, EndLabels
<1>9. CASE StartReader(t)
  BY <1>9, GotoKeeps, ReturnKeeps DEF StartReader, attrs, NoneStarts, EndLabels
<1>10. CASE ClearStopped(t)
  BY <1>10, ReturnKeeps DEF ClearStopped, NoneStarts
<1>11. ASSUME NEW p \in Launches, Launch(t, p) PROVE StrayFree'
  BY <1>11, LaunchKeeps
<1> QED
  BY <1>1, <1>2, <1>3, <1>4, <1>5, <1>6, <1>7, <1>8, <1>9, <1>10, <1>11 DEF Start

(* The steps of stop(): each way to its end has seen the process end or    *)
(* killed it, and what drops the handle drops that of no running process.  *)
LEMMA StopKeepsFree ==
    ASSUME TypeOK, StrayFree, NEW t \in Threads, Stop(t)
    PROVE  StrayFree'
<1>0. emu \in [Launches -> Process] /\ (process # 0 => process \in Launches)
  BY DEF TypeOK, PipesOK, AttrsOK, LaunchOr0, Launches
<1>1. CASE StopCall(t)
  BY <1>1, GotoKeeps DEF StopCall, NoneStarts, EndLabels
<1>2. CASE StopCheck(t)
  BY <1>2, GotoKeeps, ReturnKeeps DEF StopCheck, attrs, NoneStarts, EndLabels
<1>3. CASE CloseStdin(t)
  <2>1. NoneStarts
    BY <1>0, <1>3 DEF CloseStdin, NoneStarts, Process
  <2> QED BY <1>3, <2>1, GotoKeeps DEF CloseStdin, attrs, EndLabels
<1>4. CASE Terminate(t)
  BY <1>4, GotoKeeps DEF Terminate, attrs, NoneStarts, EndLabels
<1>5. CASE WaitExit(t)
  BY <1>5, GotoKeeps DEF WaitExit, attrs, NoneStarts, EndLabels
<1>6. CASE Kill(t)
  <2>1. NoneStarts /\ (process = 0 \/ emu'[process].st # "running")
    BY <1>0, <1>6 DEF Kill, NoneStarts, Process
  <2> QED BY <1>6, <2>1, GotoKeeps DEF Kill, attrs
<1>7. CASE JoinCheck(t)
  <2>1. process = 0 \/ emu[process].st # "running"
    BY <1>7 DEF JoinCheck, StrayFree, DropSafe, EndLabels
  <2> QED BY <1>7, <2>1, GotoKeeps DEF JoinCheck, attrs, NoneStarts
<1>8. CASE Join(t)
  <2>1. process = 0 \/ emu[process].st # "running"
    BY <1>8 DEF Join, StrayFree, DropSafe, EndLabels
  <2> QED BY <1>8, <2>1, GotoKeeps, ReturnKeeps DEF Join, attrs, NoneStarts
<1>9. CASE DropReader(t)
  <2>1. process = 0 \/ emu[process].st # "running"
    BY <1>9 DEF DropReader, StrayFree, DropSafe, EndLabels
  <2> QED BY <1>9, <2>1, GotoKeeps DEF DropReader, NoneStarts
<1>10. CASE DropProcess(t)
  <2>1. process = 0 \/ emu[process].st # "running"
    BY <1>10 DEF DropProcess, StrayFree, DropSafe, EndLabels
  <2>2. process' = 0 /\ emu' = emu
    BY <1>10 DEF DropProcess
  <2>3. NoStrayProcess'
    BY <2>1, <2>2 DEF StrayFree, NoStrayProcess, Launches
  <2> QED BY <2>2, <2>3 DEF StrayFree, LaunchSafe, DropSafe
<1> QED
  BY <1>1, <1>2, <1>3, <1>4, <1>5, <1>6, <1>7, <1>8, <1>9, <1>10 DEF Stop

(* The steps of execute() know neither label.                              *)
LEMMA ExecuteKeepsFree ==
    ASSUME TypeOK, StrayFree, NEW t \in Threads, Execute(t)
    PROVE  StrayFree'
<1> DEFINE Inside == /\ UNCHANGED process /\ NoneStarts /\ OthersRest(t)
                     /\ th'[t].pc \in {"idle", "acquire", "check", "poll", "send", "fetch",
                                       "get", "release"}
<1> USE DEF TypeOK, CallersOK, CallerState, NoneStarts, OthersRest
<1>1. CASE ExecCall(t)
  <2>1. Inside
    BY <1>1, ReturnLabel DEF ExecCall, Call, Idle, attrs
  <2> QED BY <2>1, StepKeeps DEF AttrsOK, EndLabels
<1>2. CASE Acquire(t)
  <2>1. Inside
    BY <1>2, GotoLabel, ReturnLabel DEF Acquire
  <2> QED BY <2>1, StepKeeps DEF AttrsOK, EndLabels
<1>3. CASE Check(t)
  <2>1. Inside
    BY <1>3 DEF Check, Goto, End, attrs
  <2> QED BY <2>1, StepKeeps DEF AttrsOK, EndLabels
<1>4. CASE Poll(t)
  <2>1. Inside
    BY <1>4 DEF Poll, Goto, End, attrs
  <2> QED BY <2>1, StepKeeps DEF AttrsOK, EndLabels
<1>5. CASE Send(t)
  <2>1. NoneStarts
    BY <1>5 DEF Send, PipesOK, Process
  <2>2. Inside
    BY <1>5, <2>1 DEF Send, End, attrs
  <2> QED BY <2>2, StepKeeps DEF AttrsOK, EndLabels
<1>6. CASE Fetch(t)
  <2>1. Inside
    BY <1>6 DEF Fetch, End, attrs
  <2> QED BY <2>1, StepKeeps DEF AttrsOK, EndLabels
<1>7. CASE Get(t)
  <2>1. Inside
    BY <1>7 DEF Get, Consume, End, attrs
  <2> QED BY <2>1, StepKeeps DEF AttrsOK, EndLabels
<1>8. CASE GetTimeout(t)
  <2>1. Inside
    BY <1>8 DEF GetTimeout, End, attrs
  <2> QED BY <2>1, StepKeeps DEF AttrsOK, EndLabels
<1>9. CASE Release(t)
  <2>1. Inside
    BY <1>9, ReturnLabel DEF Release
  <2> QED BY <2>1, StepKeeps DEF AttrsOK, EndLabels
<1> QED BY <1>1, <1>2, <1>3, <1>4, <1>5, <1>6, <1>7, <1>8, <1>9 DEF Execute

(* Nor do those of pid() and available().                                  *)
LEMMA LookKeepsFree ==
    ASSUME TypeOK, StrayFree, NEW t \in Threads, Look(t)
    PROVE  StrayFree'
<1>1. CASE LookCall(t)
  BY <1>1, GotoKeeps, ReturnKeeps DEF LookCall, attrs, NoneStarts, EndLabels
<1>2. CASE LookAgain(t)
  BY <1>2, ReturnKeeps DEF LookAgain, attrs, NoneStarts
<1> QED BY <1>1, <1>2 DEF Look

(* s3270 and the reader threads end processes at most.                     *)
LEMMA OthersKeepFree ==
    ASSUME TypeOK, StrayFree, NEW p \in Launches, Emulator(p) \/ Reader(p)
    PROVE  StrayFree'
<1>1. NoneStarts
  <2>1. emu \in [Launches -> Process]
    BY DEF TypeOK, PipesOK
  <2>2. CASE Emulator(p)
    <3>1. CASE Answer(p)
      <4>1. PICK r \in Replies :
              emu' = [emu EXCEPT ![p].inbox = Tail(@),
                                 ![p].out = @ \o Answered(Head(emu[p].inbox), r)]
        BY <3>1 DEF Answer
      <4> QED BY <2>1, <4>1 DEF NoneStarts, Process
    <3>2. CASE Die(p)
      <4>1. emu[p].st = "running" /\ \E out :
              emu' = [emu EXCEPT ![p].st = "dying", ![p].inbox = <<>>, ![p].out = out]
        BY <3>2 DEF Die
      <4> QED BY <2>1, <4>1 DEF NoneStarts, Process
    <3>3. CASE Exit(p)
      BY <2>1, <3>3 DEF Exit, NoneStarts, Process
    <3> QED BY <2>2, <3>1, <3>2, <3>3 DEF Emulator
  <2>3. CASE Reader(p)
    <3>1. emu' = emu \/ \E q, out : emu' = [emu EXCEPT ![q].out = out]
      BY <2>3 DEF Reader, ReadLine, ReadEOF
    <3> QED BY <2>1, <3>1 DEF NoneStarts, Process
  <2> QED BY <2>2, <2>3
<1>2. UNCHANGED <<process, th>>
  BY DEF Emulator, Answer, Die, Exit, Reader, ReadLine, ReadEOF, attrs
<1> QED BY <1>1, <1>2, EnvironmentKeeps DEF TypeOK, AttrsOK

(* A process that runs is the one the handle names, whatever execute()     *)
(* calls, crashes and restarts there are, unless two calls of start() or   *)
(* stop() have overlapped.                                                 *)
THEOREM LossNeedsRivals == RacesSpec => []StrayNeedsRivals
<1>1. RacesInit => TypeOK /\ StrayInv
  <2> SUFFICES ASSUME RacesInit PROVE TypeOK /\ StrayInv
    OBVIOUS
  <2>1. TypeOK
    BY InitType DEF RacesInit
  <2>2. ~Rivals /\ StrayFree
    BY DEF RacesInit, Init, Idle, Rivals, InControl, InTry, StrayFree, NoStrayProcess,
           LaunchSafe, DropSafe, EndLabels
  <2> QED BY <2>1, <2>2 DEF StrayInv
<1>2. TypeOK /\ StrayInv /\ [RacesNext]_allVars => TypeOK' /\ StrayInv'
  <2> SUFFICES ASSUME TypeOK, StrayInv, [RacesNext]_allVars PROVE TypeOK' /\ StrayInv'
    OBVIOUS
  <2>1. [Next]_vars
    BY DEF RacesNext, allVars
  <2>2. TypeOK'
    BY <2>1, TypeStep
  <2>3. CASE UNCHANGED allVars
    BY <2>2, <2>3 DEF allVars, vars, attrs, StrayInv, Rivals, InControl, InTry, StrayFree,
                NoStrayProcess, LaunchSafe, DropSafe
  <2>4. CASE RacesNext
    <3>1. CASE "rivals" \in seen \/ Rivals'
      BY <2>2, <2>4, <3>1 DEF RacesNext, Observe, StrayInv
    <3>2. CASE "rivals" \notin seen /\ ~Rivals'
      <4>1. StrayFree
        BY <3>2 DEF StrayInv
      <4>2. ASSUME NEW t \in Threads, Caller(t) PROVE StrayFree'
        BY <3>2, <4>1, <4>2, StartKeepsFree, StopKeepsFree, ExecuteKeepsFree, LookKeepsFree
           DEF Caller
      <4>3. ASSUME NEW p \in Launches, Emulator(p) \/ Reader(p) PROVE StrayFree'
        BY <4>1, <4>3, OthersKeepFree
      <4>4. StrayFree'
        BY <2>4, <4>2, <4>3 DEF RacesNext, Next
      <4> QED BY <2>2, <3>2, <4>4 DEF StrayInv
    <3> QED BY <3>1, <3>2
  <2> QED BY <2>2, <2>3, <2>4
<1>3. StrayInv => StrayNeedsRivals
  BY DEF StrayInv, StrayNeedsRivals, StrayFree
<1> QED BY <1>1, <1>2, <1>3, PTL DEF RacesSpec

-----------------------------------------------------------------------------
(* Between Popen() and the assignment of the reader, a start() has a       *)
(* launch of its own, whose reader is not yet self._reader.                *)
Makes == Installs \cup {"newReader"}

LaunchInv ==
    /\ \A p \in Launches : emu[p].st = "none" => reader # p /\ rdr[p].st = "none"
    /\ \A t \in Threads : th[t].pc \in Makes =>
            th[t].to \in Launches /\ emu[th[t].to].st # "none" /\ reader # th[t].to
    /\ \A t, u \in Threads :
            th[t].pc \in Makes /\ th[u].pc \in Makes /\ th[t].to = th[u].to => t = u
    /\ \A t \in Threads : At(t, "newReader") => rdr[th[t].to].st = "created"

(* As long as start() calls make their readers one after the other, each   *)
(* finds its own process and its own queue there, and no other than the    *)
(* process of a queue writes into it.                                      *)
Installing == \E t \in Threads : /\ th[t].pc \in {"checkStdout", "newQueue"}
                                 /\ th[t].to = process

HasEOF(q) == \E i \in DOMAIN queue[q] : queue[q][i] = EOF

OwnInv ==
    /\ \A t \in Threads : th[t].pc \in Installs => process \in {0, th[t].to}
    /\ \A t \in Threads : th[t].pc \in {"readStdout", "readQueue"} => lineQueue = th[t].to
    /\ \A t \in Threads : At(t, "readQueue") => th[t].from = th[t].to
    /\ \A q \in Launches : rdr[q].st # "none" => rdr[q].stream = q /\ rdr[q].sink = q
    /\ \A p \in Launches : HasEOF(p) => emu[p].st \notin {"none", "running"}
    /\ process # 0 /\ ~Installing => lineQueue = process

(* A running process with the stopped flag has a caller that will clear    *)
(* the flag, end the process, or drop the handle.                          *)
Mends(t) ==
    \/ th[t].pc \in Makes
    \/ th[t].pc \in {"clearStopped", "dropProcess", "stopCheck", "closeStdin",
                     "terminate", "wait", "kill"}
    \/ At(t, "startReader") /\ reader # 0 /\ rdr[reader].st = "created"

MendInv ==
    process # 0 /\ emu[process].st = "running" /\ stopped => \E t \in Threads : Mends(t)

(* A caller reads from the current line queue.                             *)
FromInv == \A t \in Threads : At(t, "get") => th[t].from = lineQueue

FlagFree   == LaunchInv /\ OwnInv /\ MendInv /\ FromInv
RefusalInv == {"twins", "swap"} \cap seen # {} \/ (~Twins /\ FlagFree)

(* What most steps of a caller do to processes and queues: no process is   *)
(* made or resumed, no queue gets more, no reader is made.                 *)
StatusKept == \A p \in Launches : /\ (emu'[p].st = "none") <=> (emu[p].st = "none")
                                  /\ emu[p].st # "running" => emu'[p].st # "running"
QueuesKept == \A q \in LaunchOr0 : HasEOF(q)' => HasEOF(q)
ReadersKept == \A q \in Launches : /\ rdr'[q].sink = rdr[q].sink
                                   /\ rdr'[q].stream = rdr[q].stream
                                   /\ (rdr'[q].st = "none") <=> (rdr[q].st = "none")
                                   /\ reader # q => rdr'[q].st = rdr[q].st

(* Nothing needs to be mended, or the start() that is about to make its    *)
(* reader will.                                                            *)
Harmless == process = 0 \/ emu'[process].st # "running" \/ ~stopped' \/ Installing

(* A step of a caller that is not one of those that set a launch up.       *)
LEMMA OrdinaryStep ==
    ASSUME TypeOK, FlagFree, NEW t \in Threads, OthersRest(t),
           StatusKept, QueuesKept, ReadersKept, UNCHANGED lineQueue,
           UNCHANGED process \/ process' = 0, UNCHANGED reader \/ reader' = 0,
           UNCHANGED <<reader, rdr>> \/ Mends(t)',
           th[t].pc \in Installs => process = 0, th'[t].pc \notin Makes,
           stopped' => stopped \/ Mends(t)' \/ Harmless,
           Mends(t) => Mends(t)' \/ process' = 0 \/ Harmless,
           At(t, "get")' => th'[t].from = lineQueue
    PROVE  FlagFree'
<1> USE DEF FlagFree, OthersRest, StatusKept, QueuesKept, ReadersKept
<1>1. /\ process # 0 => process \in Launches
      /\ lineQueue \in LaunchOr0 /\ Launches \subseteq LaunchOr0 /\ 0 \notin Launches
  BY DEF TypeOK, AttrsOK, LaunchOr0, Launches
<1>2. \A u \in Threads : th'[u].pc \in Makes => u # t /\ th'[u] = th[u]
  OBVIOUS
<1>3. LaunchInv'
  <2>1. \A p \in Launches : (emu[p].st = "none" => reader # p /\ rdr[p].st = "none")'
    BY <1>1 DEF LaunchInv
  <2>2. \A u \in Threads : (th[u].pc \in Makes =>
            th[u].to \in Launches /\ emu[th[u].to].st # "none" /\ reader # th[u].to)'
    BY <1>1, <1>2 DEF LaunchInv
  <2>3. \A u, w \in Threads :
            (th[u].pc \in Makes /\ th[w].pc \in Makes /\ th[u].to = th[w].to => u = w)'
    BY <1>2 DEF LaunchInv
  <2>4. \A u \in Threads : (At(u, "newReader") => rdr[th[u].to].st = "created")'
    BY <1>2 DEF LaunchInv, Makes
  <2> QED BY <2>1, <2>2, <2>3, <2>4 DEF LaunchInv
<1>4. process # 0 /\ process' = process => (Installing <=> Installing')
  BY DEF Installing, Installs, Makes
<1>5. OwnInv'
  <2>1. \A u \in Threads : (th[u].pc \in Installs => process \in {0, th[u].to})'
    BY <1>2 DEF OwnInv, Makes
  <2>2. \A u \in Threads : (th[u].pc \in {"readStdout", "readQueue"} => lineQueue = th[u].to)'
    BY <1>2 DEF OwnInv, Makes, Installs
  <2>3. \A u \in Threads : (At(u, "readQueue") => th[u].from = th[u].to)'
    BY <1>2 DEF OwnInv, Makes, Installs
  <2>4. \A q \in Launches : (rdr[q].st # "none" => rdr[q].stream = q /\ rdr[q].sink = q)'
    BY DEF OwnInv
  <2>5. \A p \in Launches : (HasEOF(p) => emu[p].st \notin {"none", "running"})'
    BY <1>1 DEF OwnInv
  <2>6. (process # 0 /\ ~Installing => lineQueue = process)'
    BY <1>4 DEF OwnInv
  <2> QED BY <2>1, <2>2, <2>3, <2>4, <2>5, <2>6 DEF OwnInv
<1>6. ASSUME UNCHANGED <<reader, rdr>>, NEW u \in Threads \ {t}, Mends(u)
      PROVE  Mends(u)'
  BY <1>6 DEF Mends
<1>7. process' = process /\ process # 0 /\ Installing => \E u \in Threads : Mends(u)'
  BY <1>4 DEF Installing, Mends, Makes, Installs
<1>8. MendInv'
  <2>1. CASE process' = 0
    BY <2>1 DEF MendInv
  <2>2. CASE process' = process
    BY <2>2, <1>1, <1>6, <1>7 DEF MendInv, Harmless
  <2> QED BY <2>1, <2>2
<1>9. FromInv'
  BY DEF FromInv
<1> QED BY <1>3, <1>5, <1>8, <1>9

(* Popen(): the new process has a queue that nobody uses yet.              *)
LEMMA LaunchKeepsFlag ==
    ASSUME TypeOK, FlagFree, ~Twins', NEW t \in Threads, NEW p \in Launches, Launch(t, p)
    PROVE  FlagFree'
<1> USE DEF FlagFree
<1>1. /\ emu' = [emu EXCEPT ![p].st = "running"] /\ process' = p
      /\ UNCHANGED <<lineQueue, reader, stopped, rdr, queue>>
      /\ At(t, "launch") /\ emu[p].st = "none"
      /\ th' = [th EXCEPT ![t].pc = "checkStdout", ![t].to = p]
  BY DEF Launch
<1>2. emu \in [Launches -> Process] /\ th \in [Threads -> CallerState]
  BY DEF TypeOK, PipesOK, CallersOK
<1>3. /\ th'[t].pc = "checkStdout" /\ th'[t].to = p /\ OthersRest(t)
      /\ \A q \in Launches \ {p} : emu'[q] = emu[q]
      /\ emu'[p].st = "running"
  BY <1>1, <1>2 DEF OthersRest, CallerState, Process
<1>4. \A u \in Threads \ {t} : th'[u].pc \notin Installs
  BY <1>3 DEF Twins, Installs
<1>5. \A u \in Threads : th[u].pc \in Makes => th[u].to # p
  BY <1>1 DEF LaunchInv
<1>6. LaunchInv'
  <2>1. \A q \in Launches : (emu[q].st = "none" => reader # q /\ rdr[q].st = "none")'
    BY <1>1, <1>3 DEF LaunchInv
  <2>2. \A u \in Threads : (th[u].pc \in Makes =>
            th[u].to \in Launches /\ emu[th[u].to].st # "none" /\ reader # th[u].to)'
    <3> SUFFICES ASSUME NEW u \in Threads, th'[u].pc \in Makes
                 PROVE  /\ th'[u].to \in Launches /\ emu'[th'[u].to].st # "none"
                        /\ reader' # th'[u].to
      OBVIOUS
    <3>1. CASE u = t
      BY <1>1, <1>3, <3>1 DEF LaunchInv
    <3>2. CASE u # t
      <4>1. th'[u] = th[u]
        BY <1>3, <3>2 DEF OthersRest
      <4> QED BY <1>1, <1>3, <1>5, <4>1 DEF LaunchInv
    <3> QED BY <3>1, <3>2
  <2>3. \A u, w \in Threads :
            (th[u].pc \in Makes /\ th[w].pc \in Makes /\ th[u].to = th[w].to => u = w)'
    BY <1>3, <1>5 DEF LaunchInv, OthersRest
  <2>4. \A u \in Threads : (At(u, "newReader") => rdr[th[u].to].st = "created")'
    BY <1>1, <1>3 DEF LaunchInv, OthersRest
  <2> QED BY <2>1, <2>2, <2>3, <2>4 DEF LaunchInv
<1>7. Installing'
  BY <1>1, <1>3 DEF Installing
<1>8. OwnInv'
  <2>1. \A q \in Launches : HasEOF(q)' = HasEOF(q)
    BY <1>1 DEF HasEOF
  <2>2. \A u \in Threads : (th[u].pc \in Installs => process \in {0, th[u].to})'
    BY <1>1, <1>3, <1>4
  <2>3. \A u \in Threads : th'[u].pc \notin {"readStdout", "readQueue"}
    BY <1>3, <1>4 DEF Installs
  <2>4. \A q \in Launches : (HasEOF(q) => emu[q].st \notin {"none", "running"})'
    BY <1>1, <1>3, <2>1 DEF OwnInv
  <2>5. \A q \in Launches : (rdr[q].st # "none" => rdr[q].stream = q /\ rdr[q].sink = q)'
    BY <1>1 DEF OwnInv
  <2> QED BY <1>7, <2>2, <2>3, <2>4, <2>5 DEF OwnInv
<1>9. MendInv'
  BY <1>3 DEF MendInv, Mends, Makes, Installs
<1>10. FromInv'
  BY <1>1, <1>3 DEF FromInv, OthersRest
<1> QED BY <1>6, <1>8, <1>9, <1>10

(* A step from one label of lines 108-110 to the next: it may replace the  *)
(* line queue, while nobody reads from it, and make the reader.            *)
LEMMA MakesStep ==
    ASSUME TypeOK, FlagFree, ~Twins, NEW t \in Threads, OthersRest(t),
           UNCHANGED <<process, reader, stopped, emu, queue>>,
           th[t].pc \in Installs, th'[t].pc \in Makes, th'[t].to = th[t].to,
           lineQueue' = lineQueue \/ (lineQueue' = th[t].to /\ \A u \in Threads : ~At(u, "get")),
           \/ rdr' = rdr /\ ~At(t, "newReader")'
           \/ rdr' = [rdr EXCEPT ![th[t].to] =
                        [st |-> "created", stream |-> th[t].to, sink |-> th[t].to]],
           th'[t].pc \notin {"checkStdout", "newQueue"} => lineQueue' = th[t].to,
           At(t, "readQueue")' => th'[t].from = th[t].to
    PROVE  FlagFree'
<1> USE DEF FlagFree, OthersRest
<1> DEFINE k == th[t].to
<1>1. k \in Launches /\ emu[k].st # "none" /\ reader # k /\ process \in {0, k}
  BY DEF LaunchInv, OwnInv, Makes
<1>2. rdr \in [Launches -> ReaderThread]
  BY DEF TypeOK, PipesOK
<1>3. /\ \A q \in Launches \ {k} : rdr'[q] = rdr[q]
      /\ rdr'[k] = rdr[k] \/ (rdr'[k].st = "created" /\ rdr'[k].stream = k /\ rdr'[k].sink = k)
      /\ At(t, "newReader")' => rdr'[k].st = "created"
  BY <1>1, <1>2
<1>4. \A u \in Threads \ {t} : th[u].pc \notin Installs
  BY DEF Twins
<1>5. LaunchInv'
  <2>1. \A q \in Launches : (emu[q].st = "none" => reader # q /\ rdr[q].st = "none")'
    BY <1>1, <1>3 DEF LaunchInv
  <2>2. \A u \in Threads : (th[u].pc \in Makes =>
            th[u].to \in Launches /\ emu[th[u].to].st # "none" /\ reader # th[u].to)'
    BY <1>1 DEF LaunchInv
  <2>3. \A u, w \in Threads :
            (th[u].pc \in Makes /\ th[w].pc \in Makes /\ th[u].to = th[w].to => u = w)'
    BY DEF LaunchInv, Makes
  <2>4. \A u \in Threads : (At(u, "newReader") => rdr[th[u].to].st = "created")'
    <3> SUFFICES ASSUME NEW u \in Threads, At(u, "newReader")'
                 PROVE  rdr'[th'[u].to].st = "created"
      OBVIOUS
    <3>1. CASE u = t
      BY <1>3, <3>1
    <3>2. CASE u # t
      BY <1>3, <3>2 DEF LaunchInv, Makes
    <3> QED BY <3>1, <3>2
  <2> QED BY <2>1, <2>2, <2>3, <2>4 DEF LaunchInv
<1>6. OwnInv'
  <2>1. \A q \in Launches : HasEOF(q)' = HasEOF(q)
    BY DEF HasEOF
  <2>2. \A u \in Threads : (th[u].pc \in Installs => process \in {0, th[u].to})'
    BY <1>1, <1>4
  <2>3. \A u \in Threads : (th[u].pc \in {"readStdout", "readQueue"} => lineQueue = th[u].to)'
    BY <1>4 DEF Installs
  <2>4. \A u \in Threads : (At(u, "readQueue") => th[u].from = th[u].to)'
    BY <1>4 DEF Installs
  <2>5. \A q \in Launches : (rdr[q].st # "none" => rdr[q].stream = q /\ rdr[q].sink = q)'
    BY <1>3 DEF OwnInv
  <2>6. \A p \in Launches : (HasEOF(p) => emu[p].st \notin {"none", "running"})'
    BY <2>1 DEF OwnInv
  <2>7. (process # 0 /\ ~Installing => lineQueue = process)'
    BY <1>1 DEF Installing
  <2> QED BY <2>2, <2>3, <2>4, <2>5, <2>6, <2>7 DEF OwnInv
<1>7. MendInv'
  BY DEF MendInv, Mends
<1>8. FromInv'
  BY DEF FromInv, Makes, Installs
<1> QED BY <1>5, <1>6, <1>7, <1>8

(* Line 108: the process is there, or its handle has been dropped.         *)
LEMMA CheckStdoutKeepsFlag ==
    ASSUME TypeOK, FlagFree, ~Twins, NEW t \in Threads, CheckStdout(t)
    PROVE  FlagFree'
<1> USE DEF TypeOK, CallersOK, OthersRest, Installs, Makes
<1>1. CASE process = 0
  BY <1>1, ReturnLabel, OrdinaryStep
     DEF CheckStdout, attrs, StatusKept, QueuesKept, ReadersKept, HasEOF, Harmless, Mends
<1>2. CASE process # 0
  <2>1. th'[t].pc = "newQueue" /\ th'[t].to = th[t].to /\ OthersRest(t)
    BY <1>2 DEF CheckStdout, Goto, CallerState
  <2> QED BY <1>2, <2>1, MakesStep DEF CheckStdout, attrs
<1> QED BY <1>1, <1>2

(* Line 109, with nobody inside execute().                                 *)
LEMMA NewQueueKeepsFlag ==
    ASSUME TypeOK, FlagFree, ~Twins, ~Swap, NEW t \in Threads, NewQueue(t)
    PROVE  FlagFree'
<1>1. th'[t].pc = "readStdout" /\ th'[t].to = th[t].to /\ OthersRest(t)
  BY DEF NewQueue, Goto, TypeOK, CallersOK, CallerState, OthersRest
<1>2. \A u \in Threads : ~At(u, "get")
  BY <1>1 DEF NewQueue, Swap, InTry
<1> QED BY <1>1, <1>2, MakesStep DEF NewQueue, Installs, Makes

(* Line 110: both arguments are those of this launch.                      *)
LEMMA ReadStdoutKeepsFlag ==
    ASSUME TypeOK, FlagFree, ~Twins, NEW t \in Threads, ReadStdout(t)
    PROVE  FlagFree'
<1> USE DEF TypeOK, CallersOK, OthersRest, Installs, Makes
<1>1. CASE process = 0
  BY <1>1, ReturnLabel, OrdinaryStep
     DEF ReadStdout, attrs, StatusKept, QueuesKept, ReadersKept, HasEOF, Harmless, Mends
<1>2. CASE process # 0
  <2>1. /\ th'[t].pc = "readQueue" /\ th'[t].to = th[t].to /\ th'[t].from = process
        /\ OthersRest(t)
    BY <1>2 DEF ReadStdout, CallerState
  <2>2. process = th[t].to /\ lineQueue = th[t].to
    BY <1>2 DEF ReadStdout, FlagFree, OwnInv
  <2> QED BY <1>2, <2>1, <2>2, MakesStep DEF ReadStdout, attrs
<1> QED BY <1>1, <1>2

LEMMA ReadQueueKeepsFlag ==
    ASSUME TypeOK, FlagFree, ~Twins, NEW t \in Threads, ReadQueue(t)
    PROVE  FlagFree'
<1>1. th'[t].pc = "newReader" /\ th'[t].to = th[t].to /\ OthersRest(t)
  BY DEF ReadQueue, Goto, TypeOK, CallersOK, CallerState, OthersRest
<1>2. th[t].from = th[t].to /\ lineQueue = th[t].to
  BY DEF ReadQueue, FlagFree, OwnInv
<1>3. rdr' = [rdr EXCEPT ![th[t].to] =
                [st |-> "created", stream |-> th[t].to, sink |-> th[t].to]]
  BY <1>2 DEF ReadQueue
<1> QED BY <1>1, <1>2, <1>3, MakesStep DEF ReadQueue, attrs, Installs, Makes

LEMMA NewReaderKeepsFlag ==
    ASSUME TypeOK, FlagFree, NEW t \in Threads, NewReader(t)
    PROVE  FlagFree'
<1> USE DEF FlagFree, OthersRest
<1> DEFINE k == th[t].to
<1>1. /\ UNCHANGED <<process, lineQueue, stopped, emu, rdr, queue>> /\ At(t, "newReader")
      /\ reader' = k /\ th'[t].pc = "startReader" /\ OthersRest(t)
  BY GotoLabel DEF NewReader, TypeOK, CallersOK
<1>2. k \in Launches /\ k # 0 /\ emu[k].st # "none" /\ rdr[k].st = "created"
  BY <1>1 DEF LaunchInv, Makes, Launches
<1>3. \A u \in Threads : th'[u].pc \in Makes => u # t /\ th'[u] = th[u] /\ th[u].to # k
  BY <1>1 DEF LaunchInv, Makes, Installs
<1>4. LaunchInv'
  <2>1. \A q \in Launches : (emu[q].st = "none" => reader # q /\ rdr[q].st = "none")'
    BY <1>1, <1>2 DEF LaunchInv
  <2>2. \A u \in Threads : (th[u].pc \in Makes =>
            th[u].to \in Launches /\ emu[th[u].to].st # "none" /\ reader # th[u].to)'
    BY <1>1, <1>3 DEF LaunchInv
  <2>3. \A u, w \in Threads :
            (th[u].pc \in Makes /\ th[w].pc \in Makes /\ th[u].to = th[w].to => u = w)'
    BY <1>3 DEF LaunchInv
  <2>4. \A u \in Threads : (At(u, "newReader") => rdr[th[u].to].st = "created")'
    BY <1>1, <1>3 DEF LaunchInv, Makes
  <2> QED BY <2>1, <2>2, <2>3, <2>4 DEF LaunchInv
<1>5. OwnInv'
  <2>1. \A q \in Launches : HasEOF(q)' = HasEOF(q)
    BY <1>1 DEF HasEOF
  <2>2. Installing' <=> Installing
    BY <1>1 DEF Installing
  <2>3. \A u \in Threads : th'[u].pc \in Installs => th'[u] = th[u]
    BY <1>3 DEF Makes
  <2>4. \A u \in Threads : (th[u].pc \in Installs => process \in {0, th[u].to})'
    BY <1>1, <2>3 DEF OwnInv
  <2>5. \A u \in Threads : /\ (th[u].pc \in {"readStdout", "readQueue"} => lineQueue = th[u].to)'
                           /\ (At(u, "readQueue") => th[u].from = th[u].to)'
    BY <1>1, <2>3 DEF OwnInv, Installs
  <2>6. \A q \in Launches : (rdr[q].st # "none" => rdr[q].stream = q /\ rdr[q].sink = q)'
    BY <1>1 DEF OwnInv
  <2>7. \A p \in Launches : (HasEOF(p) => emu[p].st \notin {"none", "running"})'
    BY <1>1, <2>1 DEF OwnInv
  <2>8. (process # 0 /\ ~Installing => lineQueue = process)'
    BY <1>1, <2>2 DEF OwnInv
  <2> QED BY <2>4, <2>5, <2>6, <2>7, <2>8 DEF OwnInv
<1>6. MendInv'
  BY <1>1, <1>2 DEF MendInv, Mends
<1>7. FromInv'
  BY <1>1 DEF FromInv
<1> QED BY <1>4, <1>5, <1>6, <1>7

(* A step of start() outside of an execute() keeps all of it.              *)
LEMMA StartKeepsFlag ==
    ASSUME TypeOK, FlagFree, ~Twins, ~Twins', ~Swap, NEW t \in Threads, Start(t)
    PROVE  FlagFree'
<1> USE DEF TypeOK, OthersRest, StatusKept, QueuesKept, ReadersKept, HasEOF, Harmless, Installs,
            Makes, Mends
<1>1. CASE StartCall(t)
  BY <1>1, GotoLabel, OrdinaryStep DEF StartCall, Call, attrs
<1>2. CASE StartPoll(t)
  BY <1>2, GotoLabel, ReturnLabel, OrdinaryStep DEF StartPoll, attrs
<1>3. CASE LaunchFails(t)
  BY <1>3, ReturnLabel, OrdinaryStep DEF LaunchFails, attrs
<1>4. CASE StartReader(t)
  <2>1. rdr \in [Launches -> ReaderThread]
    BY DEF PipesOK
  <2>2. CASE reader # 0 /\ rdr[reader].st = "created"
    <3>1. reader \in Launches
      BY <2>2 DEF AttrsOK, LaunchOr0, Launches
    <3>2. rdr' = [rdr EXCEPT ![reader].st = "running"] /\ th'[t].pc = "clearStopped"
      BY <1>4, <2>2, GotoLabel DEF StartReader
    <3>3. ReadersKept
      BY <2>1, <2>2, <3>1, <3>2 DEF ReaderThread
    <3> QED BY <1>4, <2>2, <3>2, <3>3, GotoLabel, OrdinaryStep DEF StartReader, attrs
  <2>3. CASE ~(reader # 0 /\ rdr[reader].st = "created")
    BY <1>4, <2>3, ReturnLabel, OrdinaryStep DEF StartReader, attrs
  <2> QED BY <2>2, <2>3
<1>5. CASE ClearStopped(t)
  BY <1>5, ReturnLabel, OrdinaryStep DEF ClearStopped
<1>6. ASSUME NEW p \in Launches, Launch(t, p) PROVE FlagFree'
  BY <1>6, LaunchKeepsFlag
<1> QED
  BY <1>1, <1>2, <1>3, <1>4, <1>5, <1>6, CheckStdoutKeepsFlag, NewQueueKeepsFlag,
     ReadStdoutKeepsFlag, ReadQueueKeepsFlag, NewReaderKeepsFlag DEF Start

(* A step of stop(), which mends the flag it sets: it ends the process or  *)
(* drops the handle.                                                       *)
LEMMA StopKeepsFlag ==
    ASSUME TypeOK, FlagFree, NEW t \in Threads, Stop(t)
    PROVE  FlagFree'
<1> USE DEF TypeOK, OthersRest, StatusKept, QueuesKept, ReadersKept, HasEOF, Harmless, Installs,
            Makes, Mends
<1>0. emu \in [Launches -> Process] /\ (process # 0 => process \in Launches)
  BY DEF PipesOK, AttrsOK, LaunchOr0, Launches
<1>1. CASE StopCall(t)
  BY <1>1, GotoLabel, OrdinaryStep DEF StopCall, Call
<1>2. CASE StopCheck(t)
  BY <1>2, GotoLabel, ReturnLabel, OrdinaryStep DEF StopCheck, attrs
<1>3. CASE CloseStdin(t)
  <2>1. StatusKept
    BY <1>0, <1>3 DEF CloseStdin, Process
  <2> QED BY <1>3, <2>1, GotoLabel, OrdinaryStep DEF CloseStdin, attrs
<1>4. CASE Terminate(t)
  BY <1>4, GotoLabel, OrdinaryStep DEF Terminate, attrs
<1>5. CASE WaitExit(t)
  BY <1>5, GotoLabel, OrdinaryStep DEF WaitExit, attrs
<1>6. CASE Kill(t)
  <2>1. StatusKept /\ (process = 0 \/ emu'[process].st # "running")
    BY <1>0, <1>6 DEF Kill, Process
  <2>2. OthersRest(t) /\ th'[t].pc = "joinCheck"
    BY <1>6, GotoLabel DEF Kill
  <2>3. UNCHANGED <<attrs, rdr, queue>> /\ th[t].pc = "kill"
    BY <1>6 DEF Kill
  <2> QED BY <2>1, <2>2, <2>3, OrdinaryStep DEF attrs
<1>7. CASE JoinCheck(t)
  BY <1>7, GotoLabel, OrdinaryStep DEF JoinCheck, attrs
<1>8. CASE Join(t)
  BY <1>8, GotoLabel, ReturnLabel, OrdinaryStep DEF Join, attrs
<1>9. CASE DropReader(t)
  BY <1>9, GotoLabel, OrdinaryStep DEF DropReader
<1>10. CASE DropProcess(t)
  BY <1>10, ReturnLabel, OrdinaryStep DEF DropProcess
<1> QED
  BY <1>1, <1>2, <1>3, <1>4, <1>5, <1>6, <1>7, <1>8, <1>9, <1>10 DEF Stop

(* Only the end marker of the current line queue sets the flag in          *)
(* execute().                                                              *)
LEMMA ExecuteKeepsFlag ==
    ASSUME TypeOK, FlagFree, NEW t \in Threads, Execute(t)
    PROVE  FlagFree'
<1> USE DEF TypeOK, OthersRest, StatusKept, QueuesKept, ReadersKept, HasEOF, Installs, Makes,
            Mends
<1> DEFINE Inside == /\ OthersRest(t) /\ ReadersKept
                     /\ UNCHANGED <<process, lineQueue, reader, rdr>>
                     /\ th'[t].pc \in {"idle", "acquire", "check", "poll", "send", "fetch",
                                       "get", "release"}
<1>0. th[t].pc \in {"idle", "acquire", "check", "poll", "send", "fetch", "get", "release"}
  BY DEF Execute, ExecCall, Call, Acquire, Check, Poll, Send, Fetch, Get, Consume, GetTimeout,
         Release
<1> USE DEF CallersOK, CallerState
<1>1. CASE ExecCall(t)
  <2>1. Inside /\ th'[t].pc # "get" /\ UNCHANGED <<emu, queue, stopped>>
    BY <1>1, ReturnLabel DEF ExecCall, Call, Idle, attrs
  <2> QED BY <1>0, <2>1, OrdinaryStep
<1>2. CASE Acquire(t)
  <2>1. Inside /\ th'[t].pc # "get" /\ UNCHANGED <<emu, queue, stopped>>
    BY <1>2, GotoLabel, ReturnLabel DEF Acquire
  <2> QED BY <1>0, <2>1, OrdinaryStep
<1>3. CASE Check(t)
  <2>1. Inside /\ th'[t].pc # "get" /\ UNCHANGED <<emu, queue, stopped>>
    BY <1>3 DEF Check, Goto, End, attrs
  <2> QED BY <1>0, <2>1, OrdinaryStep
<1>4. CASE Poll(t)
  <2>1. Inside /\ th'[t].pc # "get" /\ UNCHANGED <<emu, queue, stopped>>
    BY <1>4 DEF Poll, Goto, End, attrs
  <2> QED BY <1>0, <2>1, OrdinaryStep
<1>5. CASE Send(t)
  <2>1. StatusKept
    <3>1. emu' = emu \/ \E in : emu' = [emu EXCEPT ![process].inbox = in]
      BY <1>5 DEF Send
    <3>2. emu \in [Launches -> Process]
      BY DEF PipesOK
    <3>3. CASE \E in : emu' = [emu EXCEPT ![process].inbox = in]
      BY <3>2, <3>3 DEF Process
    <3> QED BY <3>1, <3>3
  <2>2. Inside /\ th'[t].pc # "get" /\ UNCHANGED <<queue, stopped>>
    BY <1>5 DEF Send, End, attrs
  <2> QED BY <1>0, <2>1, <2>2, OrdinaryStep
<1>6. CASE Fetch(t)
  <2>1. Inside /\ (th'[t].pc = "get" => th'[t].from = lineQueue) /\ UNCHANGED <<emu, queue, stopped>>
    BY <1>6 DEF Fetch, End, attrs
  <2> QED BY <1>0, <2>1, OrdinaryStep
<1>7. CASE Get(t)
  <2> DEFINE q == th[t].from
  <2>1. q = lineQueue /\ q \in LaunchOr0 /\ queue[q] \in Seq(Lines \cup {EOF}) /\ queue[q] # <<>>
    BY <1>7 DEF Get, Consume, FlagFree, FromInv, PipesOK, AttrsOK
  <2>2. queue' = [queue EXCEPT ![q] = Tail(queue[q])] /\ queue \in [LaunchOr0 -> Seq(Lines \cup {EOF})]
    BY <1>7 DEF Get, Consume, PipesOK
  <2>3. \A i \in DOMAIN Tail(queue[q]) :
            i + 1 \in DOMAIN queue[q] /\ Tail(queue[q])[i] = queue[q][i + 1]
    BY <2>1
  <2>4. QueuesKept
    BY <2>1, <2>2, <2>3
  <2>5. Inside /\ th'[t].pc # "get" /\ UNCHANGED emu
    BY <1>7 DEF Get, Consume, End
  <2>6. stopped' => stopped \/ HasEOF(lineQueue)
    <3>1. Head(queue[q]) = queue[q][1] /\ 1 \in DOMAIN queue[q]
      BY <2>1
    <3> QED BY <1>7, <2>1, <3>1 DEF Get, Consume
  <2>7. stopped' => stopped \/ Harmless
    <3>1. process # 0 => process \in Launches
      BY DEF AttrsOK, LaunchOr0, Launches
    <3> QED BY <2>5, <2>6, <3>1 DEF FlagFree, OwnInv, Harmless
  <2> HIDE DEF q
  <2> QED BY <1>0, <2>4, <2>5, <2>7, OrdinaryStep
<1>8. CASE GetTimeout(t)
  <2>1. Inside /\ th'[t].pc # "get" /\ UNCHANGED <<emu, queue, stopped>>
    BY <1>8 DEF GetTimeout, End, attrs
  <2> QED BY <1>0, <2>1, OrdinaryStep
<1>9. CASE Release(t)
  <2>1. Inside /\ th'[t].pc # "get" /\ UNCHANGED <<emu, queue, stopped>>
    BY <1>9, ReturnLabel DEF Release
  <2> QED BY <1>0, <2>1, OrdinaryStep
<1> QED BY <1>1, <1>2, <1>3, <1>4, <1>5, <1>6, <1>7, <1>8, <1>9 DEF Execute

(* pid() and available() change nothing.                                   *)
LEMMA LookKeepsFlag ==
    ASSUME TypeOK, FlagFree, NEW t \in Threads, Look(t)
    PROVE  FlagFree'
<1> USE DEF TypeOK, OthersRest, StatusKept, QueuesKept, ReadersKept, HasEOF, Harmless, Installs,
            Makes, Mends
<1>1. CASE LookCall(t)
  BY <1>1, GotoLabel, ReturnLabel, OrdinaryStep DEF LookCall, Call, attrs
<1>2. CASE LookAgain(t)
  BY <1>2, ReturnLabel, OrdinaryStep DEF LookAgain, attrs
<1> QED BY <1>1, <1>2 DEF Look

(* A step of s3270: no process is made or resumed.                         *)
LEMMA EmulatorStatus ==
    ASSUME TypeOK, NEW p \in Launches, Emulator(p)
    PROVE  StatusKept /\ UNCHANGED <<attrs, rdr, queue, th, calls, abandoned>>
<1>1. emu \in [Launches -> Process]
  BY DEF TypeOK, PipesOK
<1>2. CASE Answer(p)
  <2>1. \E in, out : emu' = [emu EXCEPT ![p].inbox = in, ![p].out = out]
    BY <1>2 DEF Answer
  <2> QED BY <1>1, <1>2, <2>1 DEF StatusKept, Process, Answer
<1>3. CASE Die(p)
  <2>1. emu[p].st = "running" /\ \E out :
          emu' = [emu EXCEPT ![p].st = "dying", ![p].inbox = <<>>, ![p].out = out]
    BY <1>3 DEF Die
  <2> QED BY <1>1, <1>3, <2>1 DEF StatusKept, Process, Die
<1>4. CASE Exit(p)
  BY <1>1, <1>4 DEF Exit, StatusKept, Process
<1> QED BY <1>2, <1>3, <1>4 DEF Emulator

(* s3270 only answers, dies or exits.                                      *)
LEMMA EmulatorKeepsFlag ==
    ASSUME TypeOK, FlagFree, NEW p \in Launches, Emulator(p)
    PROVE  FlagFree'
<1> USE DEF FlagFree
<1>1. StatusKept /\ UNCHANGED <<process, lineQueue, reader, stopped, rdr, queue, th>>
  BY EmulatorStatus DEF attrs
<1>2. process # 0 => process \in Launches
  BY DEF TypeOK, AttrsOK, LaunchOr0, Launches
<1>3. LaunchInv'
  BY <1>1 DEF LaunchInv, StatusKept
<1>4. OwnInv'
  <2>1. \A q \in Launches : (HasEOF(q) => emu[q].st \notin {"none", "running"})'
    BY <1>1 DEF OwnInv, StatusKept, HasEOF
  <2> QED BY <1>1, <2>1 DEF OwnInv, Installing
<1>5. MendInv'
  BY <1>1, <1>2 DEF MendInv, StatusKept, Mends
<1>6. FromInv'
  BY <1>1 DEF FromInv
<1> QED BY <1>3, <1>4, <1>5, <1>6

(* A reader thread fills the queue of its own process, and writes the end  *)
(* marker when that process has ended.                                     *)
LEMMA ReaderKeepsFlag ==
    ASSUME TypeOK, FlagFree, NEW q \in Launches, Reader(q)
    PROVE  FlagFree'
<1> USE DEF FlagFree
<1>1. /\ rdr[q].st = "running" /\ UNCHANGED <<process, lineQueue, reader, stopped, th>>
      /\ rdr[q].stream = q /\ rdr[q].sink = q /\ emu[q].st # "none"
  BY DEF Reader, ReadLine, ReadEOF, attrs, OwnInv, LaunchInv
<1>2. /\ queue \in [LaunchOr0 -> Seq(Lines \cup {EOF})] /\ q \in LaunchOr0
      /\ emu \in [Launches -> Process] /\ rdr \in [Launches -> ReaderThread]
  BY DEF TypeOK, PipesOK, LaunchOr0, Launches
<1>3. PICK item \in Lines \cup {EOF} :
        /\ queue' = [queue EXCEPT ![q] = Append(queue[q], item)]
        /\ item = EOF => emu[q].st # "running"
  <2>1. CASE ReadLine(q)
    <3>1. emu[q].out \in Seq(Lines) /\ emu[q].out # <<>>
      BY <1>1, <1>2, <2>1 DEF ReadLine, Process
    <3>2. Head(emu[q].out) \in Lines
      BY <3>1
    <3>3. EOF \notin Lines
      BY DEF Lines, EOF, Kinds
    <3> QED BY <1>1, <2>1, <3>2, <3>3 DEF ReadLine
  <2>2. CASE ReadEOF(q)
    BY <1>1, <2>2 DEF ReadEOF
  <2> QED BY <2>1, <2>2 DEF Reader
<1>4. \A i \in Launches : emu'[i].st = emu[i].st
  <2>1. emu' = emu \/ \E out : emu' = [emu EXCEPT ![q].out = out]
    BY <1>1 DEF Reader, ReadLine, ReadEOF
  <2>2. CASE \E out : emu' = [emu EXCEPT ![q].out = out]
    BY <1>2, <2>2 DEF Process
  <2> QED BY <2>1, <2>2
<1>5. /\ \A i \in Launches : rdr'[i].sink = rdr[i].sink /\ rdr'[i].stream = rdr[i].stream
      /\ \A i \in Launches : (rdr'[i].st = "none") <=> (rdr[i].st = "none")
      /\ \A i \in Launches : (rdr'[i].st = "created") <=> (rdr[i].st = "created")
  <2>1. rdr' = rdr \/ rdr' = [rdr EXCEPT ![q].st = "done"]
    BY DEF Reader, ReadLine, ReadEOF
  <2> QED BY <1>1, <1>2, <2>1 DEF ReaderThread
<1>6. \A i \in LaunchOr0 \ {q} : queue'[i] = queue[i]
  BY <1>2, <1>3
<1>7. LaunchInv'
  BY <1>1, <1>4, <1>5 DEF LaunchInv, Makes
<1>8. HasEOF(q)' => HasEOF(q) \/ emu[q].st # "running"
  <2>1. Len(queue[q]) \in Nat /\ queue'[q] = Append(queue[q], item)
    BY <1>2, <1>3
  <2>2. \A i \in DOMAIN Append(queue[q], item) :
           \/ i \in DOMAIN queue[q] /\ Append(queue[q], item)[i] = queue[q][i]
           \/ Append(queue[q], item)[i] = item
    BY <1>2
  <2> QED BY <1>3, <2>1, <2>2 DEF HasEOF
<1>9. OwnInv'
  <2>1. \A i \in Launches \ {q} : HasEOF(i)' = HasEOF(i)
    BY <1>6 DEF HasEOF, LaunchOr0, Launches
  <2>2. \A i \in Launches : (HasEOF(i) => emu[i].st \notin {"none", "running"})'
    BY <1>1, <1>4, <1>8, <2>1 DEF OwnInv
  <2>3. \A i \in Launches : (rdr[i].st # "none" => rdr[i].stream = i /\ rdr[i].sink = i)'
    BY <1>5 DEF OwnInv
  <2>4. Installing' <=> Installing
    BY <1>1 DEF Installing
  <2> QED BY <1>1, <2>2, <2>3, <2>4 DEF OwnInv
<1>10. MendInv'
  <2>1. \A u \in Threads : Mends(u) => Mends(u)'
    BY <1>1, <1>5 DEF Mends, TypeOK, AttrsOK, LaunchOr0, Launches
  <2>2. process # 0 => process \in Launches
    BY DEF TypeOK, AttrsOK, LaunchOr0, Launches
  <2> QED BY <1>1, <1>4, <2>1, <2>2 DEF MendInv
<1>11. FromInv'
  BY <1>1 DEF FromInv
<1> QED BY <1>7, <1>9, <1>10, <1>11

(* Nothing has been launched.                                              *)
LEMMA FlagInit == Init => FlagFree /\ ~Twins
<1> SUFFICES ASSUME Init PROVE FlagFree /\ ~Twins
  OBVIOUS
<1>1. \A t \in Threads : th[t].pc = "idle"
  BY DEF Init, Idle
<1>2. LaunchInv
  BY <1>1 DEF Init, LaunchInv, Makes, Installs, Launches
<1>3. \A q \in Launches : ~HasEOF(q)
  BY DEF Init, HasEOF, Launches
<1>4. OwnInv
  BY <1>1, <1>3 DEF Init, OwnInv, Installs
<1>5. MendInv /\ FromInv /\ ~Twins
  BY <1>1 DEF Init, MendInv, FromInv, Twins, Installs
<1> QED BY <1>2, <1>4, <1>5 DEF FlagFree

(* A running process with the stopped flag set has a caller inside start() *)
(* or stop(), unless a start() has replaced the line queue under an        *)
(* execute(), or two start() calls have made their readers at the same     *)
(* time.                                                                   *)
THEOREM FlagNeedsCrossing == RacesSpec => []RefusalNeedsCrossing
<1>1. RacesInit => TypeOK /\ RefusalInv
  <2> SUFFICES ASSUME RacesInit PROVE TypeOK /\ RefusalInv
    OBVIOUS
  <2>1. TypeOK
    BY InitType DEF RacesInit
  <2>2. FlagFree /\ ~Twins
    BY FlagInit DEF RacesInit
  <2> QED BY <2>1, <2>2 DEF RefusalInv
<1>2. TypeOK /\ RefusalInv /\ [RacesNext]_allVars => TypeOK' /\ RefusalInv'
  <2> SUFFICES ASSUME TypeOK, RefusalInv, [RacesNext]_allVars PROVE TypeOK' /\ RefusalInv'
    OBVIOUS
  <2>1. [Next]_vars
    BY DEF RacesNext, allVars
  <2>2. TypeOK'
    BY <2>1, TypeStep
  <2>3. CASE UNCHANGED allVars
    BY <2>2, <2>3 DEF allVars, vars, attrs, RefusalInv, FlagFree, LaunchInv, Twins,
                OwnInv, Installing, HasEOF, MendInv, Mends, FromInv
  <2>4. CASE RacesNext
    <3>1. CASE {"twins", "swap"} \cap seen # {} \/ Twins' \/ Swap
      BY <2>2, <2>4, <3>1 DEF RacesNext, Observe, RefusalInv
    <3>2. CASE {"twins", "swap"} \cap seen = {} /\ ~Twins' /\ ~Swap
      <4>1. FlagFree /\ ~Twins
        BY <3>2 DEF RefusalInv
      <4>2. ASSUME NEW t \in Threads, Caller(t) PROVE FlagFree'
        BY <3>2, <4>1, <4>2, StartKeepsFlag, StopKeepsFlag, ExecuteKeepsFlag, LookKeepsFlag
           DEF Caller
      <4>3. ASSUME NEW p \in Launches, Emulator(p) \/ Reader(p) PROVE FlagFree'
        BY <4>1, <4>3, EmulatorKeepsFlag, ReaderKeepsFlag
      <4>4. FlagFree'
        BY <2>4, <4>2, <4>3 DEF RacesNext, Next
      <4> QED BY <2>2, <3>2, <4>4 DEF RefusalInv
    <3> QED BY <3>1, <3>2
  <2> QED BY <2>2, <2>3, <2>4
<1>3. RefusalInv => RefusalNeedsCrossing
  BY DEF RefusalInv, RefusalNeedsCrossing, FlagFree, MendInv, Mends, Makes, Installs,
         RunningAccepts, InControl, InTry
<1> QED BY <1>1, <1>2, <1>3, PTL DEF RacesSpec

-----------------------------------------------------------------------------
(* While a thread is inside start() or stop(), the others are outside of   *)
(* every call: then what a caller has read of the handle, of the reader    *)
(* and of the pipes still holds at its next step.                          *)
StopTail == {"terminate", "wait", "kill", "joinCheck", "join", "dropReader", "dropProcess"}

HandleInv ==
    \A t \in Threads : /\ th[t].pc \in {"startPoll", "checkStdout", "newQueue", "readStdout",
                                         "poll", "send", "look"} => process # 0
                       /\ th[t].pc \in Makes => /\ th[t].to \in Launches /\ reader # th[t].to
                                               /\ emu[th[t].to].st # "none"
                       /\ At(t, "newReader") => rdr[th[t].to].st = "created"
ReaderInv ==
    /\ \A t \in Threads : At(t, "startReader") => reader # 0 /\ rdr[reader].st = "created"
    /\ \A t \in Threads : At(t, "join") => reader # 0
    /\ reader # 0 => emu[reader].st # "none"
    /\ reader # 0 /\ rdr[reader].st = "created" => \E t \in Threads : At(t, "startReader")

StdinInv ==
    /\ process # 0 => emu[process].st # "none"
    /\ \A p \in Launches : emu[p].st = "none" => ~emu[p].closed
    /\ process # 0 /\ emu[process].closed => \E t \in Threads : th[t].pc \in StopTail

NoInternal == \A t \in Threads : th[t].result # "internal"

TurnFree   == HandleInv /\ ReaderInv /\ StdinInv /\ NoInternal
OverlapInv == "any" \in seen \/ (~Overlap /\ TurnFree)

(* What most steps do to processes: none is made, no stdin is closed.      *)
StdinKept == \A p \in Launches : /\ (emu'[p].st = "none") <=> (emu[p].st = "none")
                                 /\ emu'[p].closed = emu[p].closed

(* A step of a caller that changes no attribute of start() and stop().     *)
LEMMA PlainStep ==
    ASSUME TypeOK, TurnFree, NEW t \in Threads, OthersRest(t), StdinKept,
           UNCHANGED <<process, reader, rdr>>,
           th[t].pc # "startReader", th'[t].pc \notin Makes \cup {"startReader"},
           th'[t].pc \in {"startPoll", "poll", "send", "look"} => process # 0,
           th'[t].pc = "join" => reader # 0,
           th[t].pc \in StopTail => th'[t].pc \in StopTail \/ process = 0,
           th'[t].result # "internal"
    PROVE  TurnFree'
<1> USE DEF TurnFree, OthersRest, StdinKept
<1>1. (process # 0 => process \in Launches) /\ (reader # 0 => reader \in Launches)
  BY DEF TypeOK, AttrsOK, LaunchOr0, Launches
<1>2. HandleInv'
  BY <1>1 DEF HandleInv, Installs, Makes
<1>3. ReaderInv'
  BY <1>1 DEF ReaderInv
<1>4. StdinInv'
  BY <1>1 DEF StdinInv
<1>5. NoInternal'
  BY DEF NoInternal
<1> QED BY <1>2, <1>3, <1>4, <1>5

(* Nobody is inside a call beside a thread in start() or stop().           *)
LEMMA OthersIdle ==
    ASSUME ~Overlap, NEW t \in Threads, InControl(t)
    PROVE  \A u \in Threads \ {t} : th[u].pc = "idle"
BY DEF Overlap

(* A step of start(), alone: what it has read still holds.                 *)
LEMMA StartKeepsTurn ==
    ASSUME TypeOK, TurnFree, ~Overlap, NEW t \in Threads, Start(t)
    PROVE  TurnFree'
<1> USE DEF TypeOK, OthersRest, StdinKept, Installs, Makes
<1>1. th \in [Threads -> CallerState] /\ rdr \in [Launches -> ReaderThread]
      /\ emu \in [Launches -> Process]
  BY DEF PipesOK, CallersOK
<1>2. (process # 0 => process \in Launches) /\ (reader # 0 => reader \in Launches)
  BY DEF AttrsOK, LaunchOr0, Launches
<1>3. th[t].result # "internal"
  BY DEF TurnFree, NoInternal
<1>4. \A r : Return(t, r) => th'[t].result = IF r = "internal" THEN r ELSE "none"
  BY <1>1 DEF Return, Idle
<1>5. \A l : Goto(t, l) => th'[t].result = th[t].result
  BY <1>1 DEF Goto, CallerState
<1>6. CASE StartCall(t)
  BY <1>3, <1>5, <1>6, GotoLabel, PlainStep DEF StartCall, Call, attrs, StopTail
<1>7. CASE StartPoll(t)
  <2>1. process # 0
    BY <1>7 DEF StartPoll, TurnFree, HandleInv
  <2> QED BY <1>3, <1>4, <1>5, <1>7, <2>1, GotoLabel, ReturnLabel, PlainStep
          DEF StartPoll, attrs, StopTail
<1>8. CASE LaunchFails(t)
  BY <1>4, <1>8, ReturnLabel, PlainStep DEF LaunchFails, attrs, StopTail
<1>9. CASE CheckStdout(t) \/ NewQueue(t) \/ ReadStdout(t)
  <2>1. process # 0
    BY <1>9 DEF CheckStdout, NewQueue, ReadStdout, TurnFree, HandleInv
  <2>2. /\ UNCHANGED <<process, reader, emu, rdr>> /\ th[t].pc \in Installs /\ OthersRest(t)
        /\ th'[t].pc \in Installs /\ th'[t].to = th[t].to /\ th'[t].result = th[t].result
    <3>1. CASE CheckStdout(t) \/ NewQueue(t)
      BY <1>1, <2>1, <3>1 DEF CheckStdout, NewQueue, attrs, Goto, CallerState, Installs
    <3>2. CASE ReadStdout(t)
      BY <1>1, <2>1, <3>2 DEF ReadStdout, attrs, CallerState, Installs
    <3> QED BY <1>9, <3>1, <3>2
  <2>3. HandleInv'
    BY <2>1, <2>2 DEF TurnFree, HandleInv, Installs, Makes
  <2>4. ReaderInv' /\ StdinInv' /\ NoInternal'
    BY <2>2 DEF TurnFree, ReaderInv, StdinInv, NoInternal, Installs, StopTail
  <2> QED BY <2>3, <2>4 DEF TurnFree
<1>10. CASE ReadQueue(t) \/ NewReader(t)
  <2> DEFINE k == th[t].to
  <2>1. k \in Launches /\ k # 0 /\ reader # k /\ emu[k].st # "none"
    BY <1>10 DEF ReadQueue, NewReader, TurnFree, HandleInv, Installs, Makes, Launches
  <2>2. \A u \in Threads \ {t} : th[u].pc = "idle"
    BY <1>10, OthersIdle DEF ReadQueue, NewReader, InControl, InTry
  <2>3. OthersRest(t) /\ th'[t].to = k /\ th'[t].result = th[t].result /\ UNCHANGED <<process, emu>>
    BY <1>1, <1>10 DEF ReadQueue, NewReader, attrs, Goto, CallerState
  <2>4. StdinInv' /\ NoInternal'
    BY <1>10, <2>3 DEF ReadQueue, NewReader, TurnFree, StdinInv, StopTail, NoInternal
  <2>5. CASE ReadQueue(t)
    <3>1. th'[t].pc = "newReader" /\ th[t].pc = "readQueue" /\ UNCHANGED reader
      BY <1>1, <2>5, GotoLabel DEF ReadQueue, attrs
    <3>2. rdr'[k].st = "created" /\ \A q \in Launches \ {k} : rdr'[q] = rdr[q]
      BY <1>1, <2>1, <2>5 DEF ReadQueue
    <3>3. HandleInv'
      BY <2>1, <2>2, <2>3, <3>1, <3>2 DEF HandleInv, Makes, Installs
    <3>4. ReaderInv'
      BY <1>2, <2>1, <2>2, <2>3, <3>1, <3>2 DEF TurnFree, ReaderInv
    <3> QED BY <2>4, <3>3, <3>4 DEF TurnFree
  <2>6. CASE NewReader(t)
    <3>1. /\ th'[t].pc = "startReader" /\ reader' = k /\ UNCHANGED rdr
          /\ rdr[k].st = "created"
      BY <1>1, <2>6, GotoLabel DEF NewReader, TurnFree, HandleInv
    <3>2. HandleInv' /\ ReaderInv'
      BY <2>1, <2>2, <2>3, <3>1 DEF HandleInv, ReaderInv, Makes, Installs
    <3> QED BY <2>4, <3>2 DEF TurnFree
  <2> QED BY <1>10, <2>5, <2>6
<1>11. CASE StartReader(t)
  <2>1. reader \in Launches /\ rdr[reader].st = "created"
    BY <1>2, <1>11 DEF StartReader, TurnFree, ReaderInv
  <2>2. /\ rdr' = [rdr EXCEPT ![reader].st = "running"] /\ Goto(t, "clearStopped")
        /\ UNCHANGED <<process, reader, emu>>
    BY <1>2, <1>11, <2>1 DEF StartReader, attrs, TurnFree, ReaderInv
  <2>3. rdr'[reader].st = "running" /\ th'[t].pc = "clearStopped" /\ OthersRest(t)
    BY <1>1, <2>1, <2>2, GotoLabel DEF ReaderThread
  <2>4. \A u \in Threads \ {t} : th'[u].pc = "idle"
    BY <1>11, <2>3, OthersIdle DEF StartReader, InControl, InTry
  <2>5. HandleInv' /\ ReaderInv'
    BY <2>1, <2>2, <2>3, <2>4 DEF TurnFree, HandleInv, ReaderInv, Installs, Makes
  <2>6. StdinInv'
    BY <1>11, <2>2, <2>3 DEF StartReader, TurnFree, StdinInv, StopTail
  <2>7. NoInternal'
    BY <1>5, <2>2, <2>3 DEF TurnFree, NoInternal
  <2> QED BY <2>5, <2>6, <2>7 DEF TurnFree
<1>12. CASE ClearStopped(t)
  BY <1>4, <1>12, ReturnLabel, PlainStep DEF ClearStopped, StopTail
<1>13. ASSUME NEW p \in Launches, Launch(t, p) PROVE TurnFree'
  <2>1. /\ emu' = [emu EXCEPT ![p].st = "running"] /\ process' = p /\ emu[p].st = "none"
        /\ UNCHANGED <<reader, rdr>>
        /\ th' = [th EXCEPT ![t].pc = "checkStdout", ![t].to = p]
    BY <1>13 DEF Launch
  <2>2. /\ th'[t].pc = "checkStdout" /\ th'[t].to = p /\ th'[t].result = th[t].result
        /\ OthersRest(t) /\ p # 0
    BY <1>1, <2>1 DEF CallerState, Launches
  <2>3. \A u \in Threads \ {t} : th'[u].pc = "idle"
    BY <1>13, <2>2, OthersIdle DEF Launch, InControl, InTry
  <2>4. reader # p /\ emu'[p].st = "running" /\ \A i \in Launches \ {p} : emu'[i] = emu[i]
    BY <1>1, <1>2, <2>1, <2>2 DEF Process, TurnFree, ReaderInv
  <2>5. HandleInv' /\ ReaderInv'
    <3>1. HandleInv'
      BY <2>1, <2>2, <2>3, <2>4 DEF HandleInv, Installs, Makes
    <3>2. ReaderInv'
      <4>1. \A u \in Threads : th[u].pc # "startReader" /\ th'[u].pc \notin {"startReader", "join"}
        BY <1>13, <2>2, <2>3 DEF Launch
      <4>2. reader # 0 => rdr[reader].st # "created" /\ emu'[reader].st # "none"
        BY <1>2, <2>4, <4>1 DEF TurnFree, ReaderInv
      <4> QED BY <2>1, <4>1, <4>2 DEF ReaderInv
    <3> QED BY <3>1, <3>2
  <2>6. StdinInv'
    <3>1. emu'[p].st = "running" /\ ~emu'[p].closed /\ \A i \in Launches \ {p} : emu'[i] = emu[i]
      BY <1>1, <2>1 DEF Process, TurnFree, StdinInv
    <3> QED BY <2>1, <3>1 DEF TurnFree, StdinInv
  <2>7. NoInternal'
    BY <2>2 DEF TurnFree, NoInternal
  <2> QED BY <2>5, <2>6, <2>7 DEF TurnFree
<1> QED BY <1>6, <1>7, <1>8, <1>9, <1>10, <1>11, <1>12, <1>13 DEF Start

(* A step of stop(), alone: the handle is still there when it is used, and *)
(* is dropped once stdin is closed.                                        *)
LEMMA StopKeepsTurn ==
    ASSUME TypeOK, TurnFree, ~Overlap, ~Overlap', NEW t \in Threads, Stop(t)
    PROVE  TurnFree'
<1> USE DEF TypeOK, OthersRest, StdinKept, Installs, Makes
<1>1. th \in [Threads -> CallerState] /\ emu \in [Launches -> Process]
  BY DEF PipesOK, CallersOK
<1>2. (process # 0 => process \in Launches) /\ (reader # 0 => reader \in Launches)
  BY DEF AttrsOK, LaunchOr0, Launches
<1>3. th[t].result # "internal"
  BY DEF TurnFree, NoInternal
<1>4. \A r : Return(t, r) => th'[t].result = IF r = "internal" THEN r ELSE "none"
  BY <1>1 DEF Return, Idle
<1>5. \A l : Goto(t, l) => th'[t].result = th[t].result
  BY <1>1 DEF Goto, CallerState
<1>6. CASE StopCall(t)
  BY <1>3, <1>5, <1>6, GotoLabel, PlainStep DEF StopCall, Call, StopTail
<1>7. CASE StopCheck(t)
  BY <1>3, <1>4, <1>5, <1>7, GotoLabel, ReturnLabel, PlainStep DEF StopCheck, attrs, StopTail
<1>8. CASE CloseStdin(t)
  <2>1. /\ th'[t].pc = "terminate" /\ OthersRest(t) /\ th'[t].result = th[t].result
        /\ th[t].pc = "closeStdin" /\ UNCHANGED <<process, reader, rdr>>
    BY <1>5, <1>8, GotoLabel DEF CloseStdin, attrs
  <2>2. CASE process = 0
    BY <1>3, <1>8, <2>1, <2>2, PlainStep DEF CloseStdin
  <2>3. CASE process # 0
    <3>1. \A p \in Launches : /\ emu'[p].st = emu[p].st
                              /\ p # process => emu'[p].closed = emu[p].closed
      BY <1>1, <1>2, <1>8, <2>3 DEF CloseStdin, Process
    <3>2. HandleInv' /\ ReaderInv' /\ NoInternal'
      BY <1>2, <2>1, <3>1 DEF TurnFree, HandleInv, ReaderInv, NoInternal, Installs, Makes
    <3>3. StdinInv'
      BY <1>2, <2>1, <2>3, <3>1 DEF TurnFree, StdinInv, StopTail
    <3> QED BY <3>2, <3>3 DEF TurnFree
  <2> QED BY <2>2, <2>3
<1>9. CASE Terminate(t)
  BY <1>3, <1>5, <1>9, GotoLabel, PlainStep DEF Terminate, attrs, StopTail
<1>10. CASE WaitExit(t)
  BY <1>3, <1>5, <1>10, GotoLabel, PlainStep DEF WaitExit, attrs, StopTail
<1>11. CASE Kill(t)
  <2>1. StdinKept
    BY <1>1, <1>2, <1>11 DEF Kill, Process
  <2>2. OthersRest(t) /\ th'[t].pc = "joinCheck" /\ th'[t].result = th[t].result
    BY <1>5, <1>11, GotoLabel DEF Kill
  <2>3. UNCHANGED <<process, reader, rdr>> /\ th[t].pc = "kill"
    BY <1>11 DEF Kill, attrs
  <2> QED BY <1>3, <2>1, <2>2, <2>3, PlainStep DEF StopTail
<1>12. CASE JoinCheck(t)
  BY <1>3, <1>5, <1>12, GotoLabel, PlainStep DEF JoinCheck, attrs, StopTail
<1>13. CASE Join(t)
  <2>1. reader # 0
    BY <1>13 DEF Join, TurnFree, ReaderInv
  <2>2. \A u \in Threads \ {t} : th[u].pc = "idle"
    BY <1>13, OthersIdle DEF Join, InControl, InTry
  <2>3. rdr[reader].st # "created"
    BY <1>13, <2>1, <2>2 DEF Join, TurnFree, ReaderInv
  <2>4. Goto(t, "dropReader") /\ UNCHANGED <<attrs, emu, rdr>>
    BY <1>13, <2>1, <2>3 DEF Join
  <2> QED BY <1>3, <1>5, <1>13, <2>4, GotoLabel, PlainStep DEF Join, attrs, StopTail
<1>14. CASE DropReader(t)
  <2>1. OthersRest(t) /\ th'[t].pc = "dropProcess" /\ th'[t].result = th[t].result
    BY <1>5, <1>14, GotoLabel DEF DropReader
  <2>2. \A u \in Threads \ {t} : th'[u].pc = "idle"
    BY <1>14, <2>1, OthersIdle DEF DropReader, InControl, InTry
  <2>3. reader' = 0 /\ UNCHANGED <<process, emu, rdr>>
    BY <1>14 DEF DropReader
  <2>4. HandleInv' /\ ReaderInv'
    BY <2>1, <2>2, <2>3 DEF HandleInv, ReaderInv, Installs, Makes
  <2>5. StdinInv' /\ NoInternal'
    BY <2>1, <2>3 DEF TurnFree, StdinInv, NoInternal, StopTail
  <2> QED BY <2>4, <2>5 DEF TurnFree
<1>15. CASE DropProcess(t)
  <2>1. OthersRest(t) /\ th'[t].pc = "idle" /\ th'[t].result # "internal"
    BY <1>4, <1>15, ReturnLabel DEF DropProcess
  <2>2. \A u \in Threads \ {t} : th'[u].pc = "idle"
    BY <1>15, <2>1, OthersIdle DEF DropProcess, InControl, InTry
  <2>3. process' = 0 /\ UNCHANGED <<reader, emu, rdr>>
    BY <1>15 DEF DropProcess
  <2>4. HandleInv' /\ ReaderInv'
    BY <1>15, <2>1, <2>2, <2>3 DEF DropProcess, TurnFree, HandleInv, ReaderInv, Installs, Makes
  <2>5. StdinInv' /\ NoInternal'
    BY <2>1, <2>3 DEF TurnFree, StdinInv, NoInternal
  <2> QED BY <2>4, <2>5 DEF TurnFree
<1> QED
  BY <1>6, <1>7, <1>8, <1>9, <1>10, <1>11, <1>12, <1>13, <1>14, <1>15 DEF Stop

(* A step of execute(), with nobody in start() or stop(): the process has  *)
(* an open stdin and a handle.                                             *)
LEMMA ExecuteKeepsTurn ==
    ASSUME TypeOK, TurnFree, ~Overlap, NEW t \in Threads, Execute(t)
    PROVE  TurnFree'
<1> USE DEF TypeOK, OthersRest, StdinKept, Installs, Makes
<1> DEFINE Labels2 == {"idle", "acquire", "check", "poll", "send", "fetch", "get", "release"}
           Inside == /\ OthersRest(t) /\ UNCHANGED <<process, reader, rdr>>
                     /\ th[t].pc \in Labels2 /\ th'[t].pc \in Labels2
                     /\ th'[t].pc \in {"poll", "send"} => process # 0
                     /\ th'[t].result # "internal"
<1>0. ASSUME Inside, StdinKept PROVE TurnFree'
  BY <1>0, PlainStep DEF StopTail
<1> USE DEF CallersOK, CallerState, TurnFree, NoInternal
<1>1. CASE ExecCall(t)
  <2>1. CASE stopped
    <3>1. Return(t, "stopped") /\ At(t, "idle") /\ UNCHANGED <<attrs, emu, rdr>>
      BY <1>1, <2>1 DEF ExecCall, Call
    <3>2. Inside
      BY <3>1 DEF Return, Idle, attrs
    <3> QED BY <1>0, <3>1, <3>2
  <2>2. CASE ~stopped
    <3> DEFINE new == [Idle("none") EXCEPT !.pc = "acquire", !.cmd = calls']
    <3>1. th' = [th EXCEPT ![t] = new] /\ At(t, "idle") /\ UNCHANGED <<attrs, emu, rdr>>
      BY <1>1, <2>2 DEF ExecCall, Call
    <3>2. new.pc = "acquire" /\ new.result = "none"
      BY DEF Idle
    <3>3. Inside
      <4> HIDE DEF new
      <4> QED BY <3>1, <3>2 DEF attrs
    <3> QED BY <1>0, <3>1, <3>3
  <2> QED BY <2>1, <2>2
<1>2. CASE Acquire(t)
  <2>1. Inside /\ UNCHANGED emu
    <3>1. CASE lock = 0
      BY <1>2, <3>1 DEF Acquire, Goto
    <3>2. CASE lock # 0
      BY <1>2, <3>2 DEF Acquire, Return, Idle
    <3> QED BY <3>1, <3>2
  <2> QED BY <1>0, <2>1
<1>3. CASE Check(t)
  <2>1. Inside /\ UNCHANGED emu
    BY <1>3 DEF Check, Goto, End, attrs
  <2> QED BY <1>0, <2>1
<1>4. CASE Poll(t)
  <2>1. Inside /\ UNCHANGED emu
    BY <1>4 DEF Poll, Goto, End, attrs, HandleInv
  <2> QED BY <1>0, <2>1
<1>5. CASE Send(t)
  <2>1. process # 0 /\ process \in Launches
    BY <1>5 DEF Send, HandleInv, AttrsOK, LaunchOr0, Launches
  <2>2. ~emu[process].closed
    <3>1. \A u \in Threads : th[u].pc \in StopTail => InControl(u) /\ u # t
      BY <1>5 DEF Send, StopTail, InControl, InTry
    <3>2. \A u \in Threads : th[u].pc \notin StopTail
      BY <1>5, <3>1 DEF Send, Overlap
    <3> QED BY <2>1, <3>2 DEF StdinInv
  <2>3. StdinKept
    <3>1. emu' = emu \/ \E in : emu' = [emu EXCEPT ![process].inbox = in]
      BY <1>5 DEF Send
    <3>2. emu \in [Launches -> Process]
      BY DEF PipesOK
    <3>3. CASE \E in : emu' = [emu EXCEPT ![process].inbox = in]
      BY <3>2, <3>3 DEF Process
    <3> QED BY <3>1, <3>3
  <2>4. Inside
    BY <1>5, <2>1, <2>2 DEF Send, End, attrs
  <2> QED BY <1>0, <2>3, <2>4
<1>6. CASE Fetch(t)
  <2>1. Inside /\ UNCHANGED emu
    BY <1>6 DEF Fetch, End, attrs
  <2> QED BY <1>0, <2>1
<1>7. CASE Get(t)
  <2>1. Inside /\ UNCHANGED emu
    BY <1>7 DEF Get, Consume, End, attrs
  <2> QED BY <1>0, <2>1
<1>8. CASE GetTimeout(t)
  <2>1. Inside /\ UNCHANGED emu
    BY <1>8 DEF GetTimeout, End, attrs
  <2> QED BY <1>0, <2>1
<1>9. CASE Release(t)
  <2>1. Inside /\ UNCHANGED emu
    BY <1>9 DEF Release, Return, Idle
  <2> QED BY <1>0, <2>1
<1> QED BY <1>1, <1>2, <1>3, <1>4, <1>5, <1>6, <1>7, <1>8, <1>9 DEF Execute

(* pid() and available() find at their second read the handle they found   *)
(* at the first.                                                           *)
LEMMA LookKeepsTurn ==
    ASSUME TypeOK, TurnFree, NEW t \in Threads, Look(t)
    PROVE  TurnFree'
<1> USE DEF TypeOK, OthersRest, StdinKept, Installs, Makes
<1>1. th \in [Threads -> CallerState]
  BY DEF CallersOK
<1>2. \A r : Return(t, r) => th'[t].result = IF r = "internal" THEN r ELSE "none"
  BY <1>1 DEF Return, Idle
<1>3. \A l : Goto(t, l) => th'[t].result = th[t].result
  BY <1>1 DEF Goto, CallerState
<1>4. th[t].result # "internal"
  BY DEF TurnFree, NoInternal
<1>5. CASE LookCall(t)
  BY <1>2, <1>3, <1>4, <1>5, GotoLabel, ReturnLabel, PlainStep DEF LookCall, Call, attrs, StopTail
<1>6. CASE LookAgain(t)
  <2>1. Return(t, "returned")
    BY <1>6 DEF LookAgain, TurnFree, HandleInv
  <2> QED BY <1>2, <1>6, <2>1, ReturnLabel, PlainStep DEF LookAgain, attrs, StopTail
<1> QED BY <1>5, <1>6 DEF Look

(* s3270 and the reader threads change no attribute and make no reader.    *)
LEMMA OthersKeepTurn ==
    ASSUME TypeOK, TurnFree, NEW p \in Launches, Emulator(p) \/ Reader(p)
    PROVE  TurnFree'
<1>1. /\ emu \in [Launches -> Process] /\ rdr \in [Launches -> ReaderThread]
      /\ process # 0 => process \in Launches
      /\ reader # 0 => reader \in Launches
  BY DEF TypeOK, PipesOK, AttrsOK, LaunchOr0, Launches
<1>2. UNCHANGED <<process, reader, th>>
  BY DEF Emulator, Answer, Die, Exit, Reader, ReadLine, ReadEOF, attrs
<1>3. StdinKept
  <2>1. CASE Answer(p)
    <3>1. \E in, out : emu' = [emu EXCEPT ![p].inbox = in, ![p].out = out]
      BY <2>1 DEF Answer
    <3> QED BY <1>1, <3>1 DEF StdinKept, Process
  <2>2. CASE Die(p)
    <3>1. emu[p].st = "running" /\ \E out :
            emu' = [emu EXCEPT ![p].st = "dying", ![p].inbox = <<>>, ![p].out = out]
      BY <2>2 DEF Die
    <3> QED BY <1>1, <3>1 DEF StdinKept, Process
  <2>3. CASE Exit(p)
    BY <1>1, <2>3 DEF Exit, StdinKept, Process
  <2>4. CASE Reader(p)
    <3>1. emu' = emu \/ \E q, out : emu' = [emu EXCEPT ![q].out = out]
      BY <2>4 DEF Reader, ReadLine, ReadEOF
    <3>2. CASE \E q, out : emu' = [emu EXCEPT ![q].out = out]
      BY <1>1, <3>2 DEF StdinKept, Process
    <3> QED BY <3>1, <3>2 DEF StdinKept
  <2> QED BY <2>1, <2>2, <2>3, <2>4 DEF Emulator
<1>4. \A q \in Launches : (rdr'[q].st = "created") <=> (rdr[q].st = "created")
  <2>1. rdr' = rdr \/ (rdr[p].st = "running" /\ rdr' = [rdr EXCEPT ![p].st = "done"])
    BY DEF Emulator, Answer, Die, Exit, Reader, ReadLine, ReadEOF
  <2> QED BY <1>1, <2>1 DEF ReaderThread
<1>5. HandleInv' /\ NoInternal'
  BY <1>2, <1>3, <1>4 DEF TurnFree, HandleInv, StdinKept, NoInternal, Makes, Installs
<1>6. ReaderInv'
  BY <1>1, <1>2, <1>3, <1>4 DEF TurnFree, ReaderInv, StdinKept
<1>7. StdinInv'
  BY <1>1, <1>2, <1>3 DEF TurnFree, StdinInv, StdinKept
<1> QED BY <1>5, <1>6, <1>7 DEF TurnFree

(* No call ends with an exception that the code does not convert, unless   *)
(* a start() or stop() has overlapped another call.                        *)
THEOREM InternalErrorNeedsOverlap == RacesSpec => []InternalNeedsOverlap
<1>1. RacesInit => TypeOK /\ OverlapInv
  <2> SUFFICES ASSUME RacesInit PROVE TypeOK /\ OverlapInv
    OBVIOUS
  <2>1. TypeOK
    BY InitType DEF RacesInit
  <2>2. ~Overlap /\ TurnFree
    BY DEF RacesInit, Init, Idle, Overlap, InControl, InTry, TurnFree, HandleInv, Installs, Makes,
           ReaderInv, StdinInv, NoInternal
  <2> QED BY <2>1, <2>2 DEF OverlapInv
<1>2. TypeOK /\ OverlapInv /\ [RacesNext]_allVars => TypeOK' /\ OverlapInv'
  <2> SUFFICES ASSUME TypeOK, OverlapInv, [RacesNext]_allVars PROVE TypeOK' /\ OverlapInv'
    OBVIOUS
  <2>1. [Next]_vars
    BY DEF RacesNext, allVars
  <2>2. TypeOK'
    BY <2>1, TypeStep
  <2>3. CASE UNCHANGED allVars
    BY <2>2, <2>3 DEF allVars, vars, attrs, OverlapInv, Overlap, InControl, InTry, TurnFree,
                HandleInv, Installs, ReaderInv, StdinInv, NoInternal
  <2>4. CASE RacesNext
    <3>1. CASE "any" \in seen \/ Overlap'
      BY <2>2, <2>4, <3>1 DEF RacesNext, Observe, OverlapInv
    <3>2. CASE "any" \notin seen /\ ~Overlap'
      <4>1. TurnFree /\ ~Overlap
        BY <3>2 DEF OverlapInv
      <4>2. ASSUME NEW t \in Threads, Caller(t) PROVE TurnFree'
        BY <3>2, <4>1, <4>2, StartKeepsTurn, StopKeepsTurn, ExecuteKeepsTurn, LookKeepsTurn
           DEF Caller
      <4>3. ASSUME NEW p \in Launches, Emulator(p) \/ Reader(p) PROVE TurnFree'
        BY <4>1, <4>3, OthersKeepTurn
      <4>4. TurnFree'
        BY <2>4, <4>2, <4>3 DEF RacesNext, Next
      <4> QED BY <2>2, <3>2, <4>4 DEF OverlapInv
    <3> QED BY <3>1, <3>2
  <2> QED BY <2>2, <2>3, <2>4
<1>3. OverlapInv => InternalNeedsOverlap
  BY DEF OverlapInv, InternalNeedsOverlap, TurnFree, NoInternal
<1> QED BY <1>1, <1>2, <1>3, PTL DEF RacesSpec
=============================================================================
