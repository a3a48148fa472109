-------------------------- MODULE TransportProofs --------------------------
(***************************************************************************)
(* Type correctness of Transport, and the exclusion its in-flight lock     *)
(* provides, for any number of callers, launches and calls.                *)
(***************************************************************************)
EXTENDS Transport, TLAPS

USE DEF At

(* A caller that moves to another label keeps its command.                 *)
LEMMA GotoType ==
    ASSUME CallersOK, NEW t \in Threads, NEW l \in Labels, Goto(t, l),
           l \in {"check", "poll", "send", "fetch", "get", "release"}
               => At(t, "acquire") \/ InTry(t),
           l \notin {"acquire", "readQueue"}
    PROVE  CallersOK'
BY DEF Goto, CallerState, CallersOK, InTry

(* A caller that returns is idle.                                          *)
LEMMA ReturnType ==
    ASSUME CallersOK, NEW t \in Threads, NEW r \in Results, Return(t, r)
    PROVE  CallersOK'
<1> DEFINE kept == IF r = "internal" THEN r ELSE "none"
<1>1. kept \in Results
  BY DEF Results
<1>2. Idle(kept) \in CallerState /\ Idle(kept).pc = "idle"
  BY <1>1, BoundsAssumption DEF Idle, CallerState, LaunchOr0, Labels
<1>3. th' = [th EXCEPT ![t] = Idle(kept)]
  BY DEF Return
<1> HIDE DEF kept
<1> QED BY <1>2, <1>3 DEF CallersOK, InTry

(* A caller whose try statement ends keeps its command.                    *)
LEMMA EndType ==
    ASSUME CallersOK, NEW t \in Threads, InTry(t), NEW r \in Results, End(t, r),
           abandoned \subseteq Launches
    PROVE  CallersOK' /\ abandoned' \subseteq Launches
<1>1. th' = [th EXCEPT ![t].pc = "release", ![t].result = r]
  BY DEF End
<1>2. th[t].to \in 0..MaxLaunches
  BY DEF CallersOK, CallerState, LaunchOr0
<1>3. abandoned' \subseteq Launches
  BY <1>2 DEF End, Launches
<1>4. /\ th'[t] \in CallerState /\ th'[t].pc = "release" /\ th'[t].cmd = th[t].cmd
      /\ \A u \in Threads \ {t} : th'[u] = th[u]
      /\ th' \in [Threads -> CallerState]
  <2> DEFINE new == [th[t] EXCEPT !.pc = "release", !.result = r]
  <2>1. th[t] \in CallerState /\ th \in [Threads -> CallerState]
    BY DEF CallersOK
  <2>2. new \in CallerState /\ new.pc = "release" /\ new.cmd = th[t].cmd
    BY <2>1 DEF CallerState, Labels
  <2>3. th' = [th EXCEPT ![t] = new]
    BY <1>1
  <2> HIDE DEF new
  <2> QED BY <2>1, <2>2, <2>3
<1>5. th[t].cmd \in Commands
  BY DEF CallersOK
<1> QED BY <1>3, <1>4, <1>5 DEF CallersOK, InTry

(* What s3270 writes for one command is a sequence of lines.               *)
LEMMA AnsweredType ==
    ASSUME NEW r \in Replies, NEW k \in Commands
    PROVE  /\ Answered(k, r) \in Seq(Lines)
           /\ \A n \in 0..(Len(r) - 1) : SubSeq(Answered(k, r), 1, n) \in Seq(Lines)
<1>1. Len(r) \in Nat /\ r \in [1..Len(r) -> Kinds] /\ DOMAIN r = 1..Len(r)
  BY RepliesAssumption
<1>2. Answered(k, r) \in [1..Len(r) -> Lines]
  BY <1>1 DEF Answered, Lines
<1>3. Answered(k, r) \in Seq(Lines) /\ Len(Answered(k, r)) = Len(r)
  BY <1>1, <1>2
<1> QED BY <1>1, <1>3

(* The initial state has its types.                                        *)
LEMMA InitType == Init => TypeOK
<1> SUFFICES ASSUME Init PROVE TypeOK
  OBVIOUS
<1> USE BoundsAssumption DEF Init
<1>1. emu \in [Launches -> Process]
  BY DEF Process
<1>2. rdr \in [Launches -> ReaderThread]
  BY DEF ReaderThread, LaunchOr0
<1>3. th \in [Threads -> CallerState]
  BY DEF Idle, CallerState, LaunchOr0, Labels, Results
<1>4. \A t \in Threads : ~InTry(t) /\ ~At(t, "acquire") /\ ~At(t, "readQueue")
  BY DEF InTry, Idle
<1>5. queue \in [LaunchOr0 -> Seq(Lines \cup {EOF})]
  BY DEF LaunchOr0
<1>6. \A q \in Launches : rdr[q].st = "none"
  OBVIOUS
<1>7. calls \in 0..MaxCalls /\ 0 \in LaunchOr0
  BY DEF LaunchOr0
<1> QED
  BY <1>1, <1>2, <1>3, <1>4, <1>5, <1>6, <1>7 DEF TypeOK, AttrsOK, PipesOK, CallersOK
(* A step of start() keeps the types.                                      *)
LEMMA StartType == ASSUME TypeOK, NEW t \in Threads, Start(t) PROVE TypeOK'
<1> USE DEF TypeOK, AttrsOK
<1>1. CASE StartCall(t)
  <2>1. CallersOK'
    BY <1>1, GotoType DEF StartCall, Call, Labels, InTry
  <2> QED BY <1>1, <2>1, BoundsAssumption DEF StartCall, attrs, Call, PipesOK
<1>2. CASE StartPoll(t)
  <2>1. CallersOK'
    BY <1>2, GotoType, ReturnType DEF StartPoll, Labels, InTry, Results
  <2> QED BY <1>2, <2>1 DEF StartPoll, attrs, PipesOK
<1>3. CASE LaunchFails(t)
  <2>1. CallersOK'
    BY <1>3, ReturnType DEF LaunchFails, Results
  <2> QED BY <1>3, <2>1 DEF LaunchFails, attrs, PipesOK
<1>4. CASE NewQueue(t)
  <2>1. CallersOK'
    BY <1>4, GotoType, ReturnType DEF NewQueue, Labels, InTry, Results
  <2> QED BY <1>4, <2>1 DEF NewQueue, attrs, CallersOK, CallerState, PipesOK
<1>9. CASE CheckStdout(t)
  <2>1. CallersOK'
    BY <1>9, GotoType, ReturnType DEF CheckStdout, Labels, InTry, Results
  <2> QED BY <1>9, <2>1 DEF CheckStdout, attrs, PipesOK
<1>10. CASE ReadStdout(t)
  <2>1. CASE process = 0
    <3>1. CallersOK'
      BY <1>10, <2>1, ReturnType DEF ReadStdout, Results
    <3> QED BY <1>10, <3>1 DEF ReadStdout, attrs, PipesOK
  <2>2. CASE process # 0
    <3> DEFINE new == [th[t] EXCEPT !.pc = "readQueue", !.from = process]
    <3>1. new \in CallerState /\ new.pc = "readQueue" /\ new.from \in Launches
      <4>1. th[t] \in CallerState /\ process \in Launches
        BY <2>2 DEF CallersOK, LaunchOr0, Launches
      <4> QED BY <4>1 DEF CallerState, Labels
    <3>2. th' = [th EXCEPT ![t] = new]
      BY <1>10, <2>2 DEF ReadStdout
    <3>3. CallersOK'
      <4> HIDE DEF new
      <4> QED BY <3>1, <3>2 DEF CallersOK, InTry
    <3> QED BY <1>10, <3>3 DEF ReadStdout, attrs, PipesOK
  <2> QED BY <2>1, <2>2
<1>11. CASE NewReader(t)
  <2>1. CallersOK' /\ th[t].to \in LaunchOr0
    BY <1>11, GotoType DEF NewReader, Labels, InTry, CallersOK, CallerState
  <2> QED BY <1>11, <2>1 DEF NewReader, PipesOK
<1>5. CASE ReadQueue(t)
  <2>1. CallersOK'
    BY <1>5, GotoType DEF ReadQueue, Labels, InTry
  <2> DEFINE new == [st |-> "created", stream |-> th[t].from, sink |-> lineQueue]
  <2>2. new \in ReaderThread /\ new.stream \in Launches
    <3>1. th[t].from \in Launches
      BY <1>5 DEF ReadQueue, CallersOK
    <3>2. th[t].from \in LaunchOr0
      BY <3>1 DEF LaunchOr0, Launches
    <3> QED BY <3>1, <3>2 DEF ReaderThread
  <2>3. rdr' = [rdr EXCEPT ![th[t].to] = new] /\ UNCHANGED <<emu, queue>>
    BY <1>5 DEF ReadQueue
  <2>4. PipesOK'
    <3> HIDE DEF new
    <3> QED BY <2>2, <2>3 DEF PipesOK, ReaderThread
  <2> QED BY <1>5, <2>1, <2>4 DEF ReadQueue, attrs
<1>6. CASE StartReader(t)
  <2>1. CallersOK'
    BY <1>6, GotoType, ReturnType DEF StartReader, Labels, InTry, Results
  <2>2. CASE reader # 0 /\ rdr[reader].st = "created"
    <3>1. reader \in Launches
      BY <2>2 DEF LaunchOr0, Launches
    <3>2. rdr[reader] \in ReaderThread /\ rdr[reader].stream \in Launches
      BY <2>2, <3>1 DEF PipesOK
    <3> DEFINE new == [rdr[reader] EXCEPT !.st = "running"]
    <3>3. new \in ReaderThread /\ new.stream \in Launches
      BY <3>2 DEF ReaderThread
    <3>4. rdr' = [rdr EXCEPT ![reader] = new] /\ UNCHANGED <<emu, queue>>
      BY <1>6, <2>2 DEF StartReader
    <3>5. PipesOK'
      <4> HIDE DEF new
      <4> QED BY <3>1, <3>3, <3>4 DEF PipesOK
    <3> QED BY <1>6, <2>1, <3>5 DEF StartReader, attrs
  <2>3. CASE ~(reader # 0 /\ rdr[reader].st = "created")
    BY <1>6, <2>1, <2>3 DEF StartReader, attrs, PipesOK
  <2> QED BY <2>2, <2>3
<1>7. CASE ClearStopped(t)
  <2>1. CallersOK'
    BY <1>7, ReturnType DEF ClearStopped, Results
  <2> QED BY <1>7, <2>1 DEF ClearStopped, attrs, PipesOK
<1>8. ASSUME NEW p \in Launches, Launch(t, p) PROVE TypeOK'
  <2> DEFINE new == [th[t] EXCEPT !.pc = "checkStdout", !.to = p]
  <2>a. th' = [th EXCEPT ![t] = new]
    BY <1>8 DEF Launch, CallersOK
  <2>b. new \in CallerState /\ new.pc = "checkStdout"
    <3>1. th[t] \in CallerState /\ p \in LaunchOr0
      BY DEF CallersOK, LaunchOr0, Launches
    <3> QED BY <3>1 DEF CallerState, Labels
  <2>1. CallersOK'
    <3> HIDE DEF new
    <3> QED BY <2>a, <2>b DEF CallersOK, InTry
  <2>2. PipesOK'
    BY <1>8 DEF Launch, PipesOK, Process
  <2> QED BY <1>8, <2>1, <2>2 DEF Launch, LaunchOr0, Launches
<1> QED
  BY <1>1, <1>2, <1>3, <1>4, <1>5, <1>6, <1>7, <1>8, <1>9, <1>10, <1>11 DEF Start

(* A step of stop() keeps the types.                                       *)
LEMMA StopType == ASSUME TypeOK, NEW t \in Threads, Stop(t) PROVE TypeOK'
<1> USE DEF TypeOK, AttrsOK
<1>1. CASE StopCall(t)
  <2>1. CallersOK'
    BY <1>1, GotoType DEF StopCall, Call, Labels, InTry, Results
  <2> QED BY <1>1, <2>1, BoundsAssumption DEF StopCall, attrs, Call, PipesOK
<1>2. CASE StopCheck(t)
  <2>1. CallersOK'
    BY <1>2, GotoType, ReturnType DEF StopCheck, Labels, InTry, Results
  <2> QED BY <1>2, <2>1 DEF StopCheck, attrs, PipesOK
<1>3. CASE CloseStdin(t)
  <2>1. CallersOK'
    BY <1>3, GotoType DEF CloseStdin, Labels, InTry, Results
  <2>2. PipesOK'
    BY <1>3 DEF CloseStdin, PipesOK, Process, LaunchOr0, Launches
  <2> QED BY <1>3, <2>1, <2>2 DEF CloseStdin, attrs
<1>4. CASE Terminate(t)
  <2>1. CallersOK'
    BY <1>4, GotoType DEF Terminate, Labels, InTry, Results
  <2> QED BY <1>4, <2>1 DEF Terminate, attrs, PipesOK
<1>5. CASE WaitExit(t)
  <2>1. CallersOK'
    BY <1>5, GotoType DEF WaitExit, Labels, InTry, Results
  <2> QED BY <1>5, <2>1 DEF WaitExit, attrs, PipesOK
<1>6. CASE Kill(t)
  <2>1. CallersOK'
    BY <1>6, GotoType DEF Kill, Labels, InTry, Results
  <2>2. PipesOK'
    <3>1. CASE process # 0 /\ emu[process].st = "running"
      <4> DEFINE new == [emu[process] EXCEPT !.st = "dying", !.inbox = <<>>]
      <4>1. process \in Launches
        BY <3>1 DEF LaunchOr0, Launches
      <4>2. new \in Process
        <5> DEFINE mid == [emu[process] EXCEPT !.st = "dying"]
        <5>1. mid \in Process
          BY <4>1 DEF PipesOK, Process
        <5>2. new = [mid EXCEPT !.inbox = <<>>]
          OBVIOUS
        <5>3. <<>> \in Seq(Commands)
          OBVIOUS
        <5> HIDE DEF mid
        <5> QED BY <5>1, <5>2, <5>3 DEF Process
      <4>3. emu' = [emu EXCEPT ![process] = new]
        BY <1>6, <3>1 DEF Kill
      <4> HIDE DEF new
      <4> QED BY <1>6, <4>1, <4>2, <4>3 DEF Kill, PipesOK
    <3>2. CASE ~(process # 0 /\ emu[process].st = "running")
      BY <1>6, <3>2 DEF Kill, PipesOK
    <3> QED BY <3>1, <3>2
  <2> QED BY <1>6, <2>1, <2>2 DEF Kill, attrs
<1>7. CASE JoinCheck(t)
  <2>1. CallersOK'
    BY <1>7, GotoType DEF JoinCheck, Labels, InTry, Results
  <2> QED BY <1>7, <2>1 DEF JoinCheck, attrs, PipesOK
<1>8. CASE Join(t)
  <2>1. CallersOK'
    BY <1>8, GotoType, ReturnType DEF Join, Labels, InTry, Results
  <2> QED BY <1>8, <2>1 DEF Join, attrs, PipesOK
<1>9. CASE DropReader(t)
  <2>1. CallersOK'
    BY <1>9, GotoType DEF DropReader, Labels, InTry, Results
  <2> QED BY <1>9, <2>1, BoundsAssumption DEF DropReader, attrs, LaunchOr0, Launches, PipesOK
<1>10. CASE DropProcess(t)
  <2>1. CallersOK'
    BY <1>10, ReturnType DEF DropProcess, Labels, InTry, Results
  <2> QED BY <1>10, <2>1, BoundsAssumption DEF DropProcess, attrs, LaunchOr0, Launches, PipesOK
<1> QED BY <1>1, <1>2, <1>3, <1>4, <1>5, <1>6, <1>7, <1>8, <1>9, <1>10 DEF Stop

(* A step of execute() keeps the types.                                    *)
LEMMA ExecuteType == ASSUME TypeOK, NEW t \in Threads, Execute(t) PROVE TypeOK'
<1> USE DEF TypeOK, AttrsOK
<1>1. CASE ExecCall(t)
  <2>1. calls' \in Commands /\ calls' \in 0..MaxCalls
    BY <1>1, BoundsAssumption DEF ExecCall, Call, Commands
  <2>2. CallersOK'
    <3> DEFINE new == [Idle("none") EXCEPT !.pc = "acquire", !.cmd = calls']
    <3>1. new \in CallerState /\ new.cmd = calls' /\ new.pc = "acquire"
      <4>1. Idle("none") \in CallerState
        BY BoundsAssumption DEF Idle, CallerState, LaunchOr0, Labels, Results
      <4> QED BY <2>1, <4>1 DEF CallerState, Labels
    <3>2. CASE stopped
      BY <1>1, <3>2, ReturnType DEF ExecCall, Results
    <3>3. CASE ~stopped
      <4>1. th' = [th EXCEPT ![t] = new]
        BY <1>1, <3>3 DEF ExecCall
      <4> HIDE DEF new
      <4> QED BY <2>1, <3>1, <4>1 DEF CallersOK, InTry
    <3> QED BY <3>2, <3>3
  <2> QED BY <1>1, <2>1, <2>2 DEF ExecCall, attrs, PipesOK
<1>2. CASE Acquire(t)
  <2>1. CallersOK'
    BY <1>2, GotoType, ReturnType DEF Acquire, Labels, InTry, Results
  <2> QED BY <1>2, <2>1 DEF Acquire, PipesOK
<1>3. CASE Check(t)
  <2>1. CallersOK' /\ abandoned' \subseteq Launches
    BY <1>3, GotoType, EndType DEF Check, Labels, InTry, Results
  <2> QED BY <1>3, <2>1 DEF Check, attrs, PipesOK
<1>4. CASE Poll(t)
  <2>1. CallersOK' /\ abandoned' \subseteq Launches
    BY <1>4, GotoType, EndType DEF Poll, Labels, InTry, Results
  <2> QED BY <1>4, <2>1 DEF Poll, attrs, PipesOK
<1>5. CASE Send(t)
  <2>1. CASE process = 0 \/ emu[process].closed \/ emu[process].st # "running"
    <3>1. CallersOK' /\ abandoned' \subseteq Launches /\ UNCHANGED emu
      BY <1>5, <2>1, EndType DEF Send, InTry, Results
    <3> QED BY <1>5, <3>1 DEF Send, attrs, PipesOK
  <2>2. CASE ~(process = 0 \/ emu[process].closed \/ emu[process].st # "running")
    <3>1. process \in Launches /\ th[t].cmd \in Commands
      <4>1. process \in Launches
        BY <2>2 DEF LaunchOr0, Launches
      <4>2. InTry(t)
        BY <1>5 DEF Send, InTry
      <4> QED BY <4>1, <4>2 DEF CallersOK
    <3> DEFINE new == [emu[process] EXCEPT !.inbox = Append(@, th[t].cmd)]
    <3>2. new \in Process
      <4>1. emu[process] \in Process /\ emu[process].inbox \in Seq(Commands)
        BY <3>1 DEF PipesOK, Process
      <4>2. Append(emu[process].inbox, th[t].cmd) \in Seq(Commands)
        BY <3>1, <4>1
      <4> QED BY <4>1, <4>2 DEF Process
    <3>3. emu' = [emu EXCEPT ![process] = new] /\ UNCHANGED <<rdr, queue>>
      BY <1>5, <2>2 DEF Send
    <3>4. PipesOK'
      <4> HIDE DEF new
      <4> QED BY <3>1, <3>2, <3>3 DEF PipesOK
    <3>5. CallersOK'
      <4>1. th' = [th EXCEPT ![t].pc = "fetch", ![t].to = process]
        BY <1>5, <2>2 DEF Send
      <4> QED BY <3>1, <4>1 DEF CallersOK, CallerState, Labels, InTry
    <3> QED BY <1>5, <2>2, <3>4, <3>5 DEF Send, attrs
  <2> QED BY <2>1, <2>2
<1>6. CASE Fetch(t)
  <2>1. CASE End(t, "timeout")
    <3>1. CallersOK' /\ abandoned' \subseteq Launches
      BY <1>6, <2>1, EndType DEF Fetch, InTry, Results
    <3> QED BY <1>6, <3>1 DEF Fetch, attrs, PipesOK
  <2>2. CASE th' = [th EXCEPT ![t].pc = "get", ![t].from = lineQueue] /\ UNCHANGED abandoned
    <3>1. CallersOK'
      <4> DEFINE new == [th[t] EXCEPT !.pc = "get", !.from = lineQueue]
      <4>1. th' = [th EXCEPT ![t] = new]
        BY <2>2
      <4>2. new \in CallerState /\ new.cmd = th[t].cmd /\ th[t].cmd \in Commands
            /\ new.pc = "get"
        <5>1. InTry(t) /\ th[t] \in CallerState
          BY <1>6 DEF Fetch, CallersOK, InTry
        <5>2. th[t].cmd \in Commands
          BY <5>1 DEF CallersOK
        <5> QED BY <5>1, <5>2 DEF CallerState, Labels
      <4> HIDE DEF new
      <4> QED BY <4>1, <4>2 DEF CallersOK, InTry
    <3> QED BY <1>6, <2>2, <3>1 DEF Fetch, attrs, PipesOK
  <2> QED BY <1>6, <2>1, <2>2 DEF Fetch
<1>7. CASE Get(t)
  <2> DEFINE q == th[t].from
             item == Head(queue[q])
  <2>1. q \in LaunchOr0 /\ th[t] \in CallerState /\ th[t].cmd \in Commands
    <3>1. InTry(t) /\ th[t] \in CallerState
      BY <1>7 DEF Get, Consume, CallersOK, InTry
    <3>2. th[t].cmd \in Commands
      BY <3>1 DEF CallersOK
    <3> QED BY <3>1, <3>2 DEF CallerState
  <2>2. queue[q] \in Seq(Lines \cup {EOF}) /\ queue[q] # <<>>
    BY <1>7, <2>1 DEF Get, Consume, PipesOK
  <2>3. item \in Lines \cup {EOF} /\ Tail(queue[q]) \in Seq(Lines \cup {EOF})
    BY <2>2
  <2>4. queue' = [queue EXCEPT ![q] = Tail(@)]
    BY <1>7 DEF Get, Consume
  <2>5. PipesOK'
    BY <1>7, <2>1, <2>3, <2>4 DEF Get, Consume, PipesOK
  <2>6. CallersOK' /\ abandoned' \subseteq Launches
    <3>1. CASE item = EOF
      <4>1. End(t, "process")
        BY <1>7, <3>1 DEF Get, Consume, EOF, EndKinds
      <4> QED BY <1>7, <4>1, EndType DEF Get, Consume, InTry, Results
    <3>2. ASSUME item # EOF,
                 NEW l \in {"release", "fetch"}, NEW r \in Results,
                 th' = [th EXCEPT ![t] = [th[t] EXCEPT !.pc = l, !.result = r,
                                                       !.got = Append(@, item)]],
                 UNCHANGED abandoned
          PROVE  CallersOK' /\ abandoned' \subseteq Launches
      <4> DEFINE new == [th[t] EXCEPT !.pc = l, !.result = r, !.got = Append(@, item)]
      <4>1. th[t].got \in Seq(Lines) /\ item \in Lines
        BY <2>1, <2>3, <3>2 DEF CallerState
      <4>2. Append(th[t].got, item) \in Seq(Lines)
        BY <4>1
      <4>3. new \in CallerState /\ new.cmd = th[t].cmd
        BY <2>1, <4>2 DEF CallerState, Labels
      <4>4. th' = [th EXCEPT ![t] = new]
        BY <3>2
      <4> HIDE DEF new
      <4> QED BY <2>1, <3>2, <4>3, <4>4 DEF CallersOK, InTry
    <3>3. CASE item # EOF /\ item.kind \in EndKinds
      <4>1. /\ th' = [th EXCEPT ![t].pc = "release", ![t].result = "answered",
                                ![t].got = Append(@, item)]
            /\ UNCHANGED abandoned
        BY <1>7, <3>3 DEF Get, Consume
      <4>2. th' = [th EXCEPT ![t] = [th[t] EXCEPT !.pc = "release", !.result = "answered",
                                                  !.got = Append(@, item)]]
        BY <4>1
      <4> QED BY <3>2, <3>3, <4>1, <4>2 DEF Results
    <3>4. CASE item # EOF /\ item.kind \notin EndKinds
      <4>1. /\ th' = [th EXCEPT ![t].pc = "fetch", ![t].got = Append(@, item)]
            /\ UNCHANGED abandoned
        BY <1>7, <3>4 DEF Get, Consume
      <4>2. th[t].result \in Results
        BY <2>1 DEF CallerState
      <4>3. th' = [th EXCEPT ![t] = [th[t] EXCEPT !.pc = "fetch", !.result = th[t].result,
                                                  !.got = Append(@, item)]]
        BY <2>1, <4>1 DEF CallersOK, CallerState
      <4> QED BY <3>2, <3>4, <4>1, <4>2, <4>3
    <3> QED BY <3>1, <3>3, <3>4
  <2> QED BY <1>7, <2>5, <2>6 DEF Get, Consume
<1>8. CASE GetTimeout(t)
  <2>1. CallersOK' /\ abandoned' \subseteq Launches
    BY <1>8, EndType DEF GetTimeout, InTry, Results
  <2> QED BY <1>8, <2>1 DEF GetTimeout, attrs, PipesOK
<1>9. CASE Release(t)
  <2>1. CallersOK'
    BY <1>9, ReturnType DEF Release, CallersOK, CallerState
  <2> QED BY <1>9, <2>1 DEF Release, PipesOK
<1> QED BY <1>1, <1>2, <1>3, <1>4, <1>5, <1>6, <1>7, <1>8, <1>9 DEF Execute

(* A step of pid() or available() keeps the types.                         *)
LEMMA LookType == ASSUME TypeOK, NEW t \in Threads, Look(t) PROVE TypeOK'
<1> USE DEF TypeOK, AttrsOK
<1>1. CASE LookCall(t)
  <2>1. CallersOK'
    BY <1>1, GotoType, ReturnType DEF LookCall, Call, Labels, InTry, Results
  <2> QED BY <1>1, <2>1, BoundsAssumption DEF LookCall, attrs, Call, PipesOK
<1>2. CASE LookAgain(t)
  <2>1. CallersOK'
    BY <1>2, ReturnType DEF LookAgain, Results
  <2> QED BY <1>2, <2>1 DEF LookAgain, attrs, PipesOK
<1> QED BY <1>1, <1>2 DEF Look

(* A step of a reader thread keeps the types.                              *)
LEMMA ReaderType == ASSUME TypeOK, NEW q \in Launches, Reader(q) PROVE TypeOK'
<1> USE DEF TypeOK, AttrsOK
<1> DEFINE p == rdr[q].stream
           s == rdr[q].sink
<1>1. p \in Launches /\ s \in LaunchOr0 /\ rdr[q] \in ReaderThread
  BY DEF Reader, ReadLine, ReadEOF, PipesOK, ReaderThread
<1>2. queue[s] \in Seq(Lines \cup {EOF}) /\ emu[p] \in Process /\ emu[p].out \in Seq(Lines)
  BY <1>1 DEF PipesOK, Process
<1>3. CASE ReadLine(q)
  <2> DEFINE new == [emu[p] EXCEPT !.out = Tail(@)]
  <2>1. emu[p].out # <<>> /\ queue' = [queue EXCEPT ![s] = Append(@, Head(emu[p].out))]
    BY <1>3 DEF ReadLine
  <2>2. emu' = [emu EXCEPT ![p] = new] /\ UNCHANGED <<attrs, rdr, th, calls, abandoned>>
    BY <1>3 DEF ReadLine
  <2>3. Head(emu[p].out) \in Lines /\ Tail(emu[p].out) \in Seq(Lines)
    BY <1>2, <2>1
  <2>4. Append(queue[s], Head(emu[p].out)) \in Seq(Lines \cup {EOF})
    BY <1>2, <2>3
  <2>5. new \in Process
    BY <1>2, <2>3 DEF Process
  <2>6. PipesOK'
    <3> HIDE DEF new, p, s
    <3> QED BY <1>1, <2>1, <2>2, <2>4, <2>5 DEF PipesOK
  <2> QED BY <2>2, <2>6 DEF attrs, CallersOK, InTry
<1>4. CASE ReadEOF(q)
  <2> DEFINE new == [rdr[q] EXCEPT !.st = "done"]
  <2>1. queue' = [queue EXCEPT ![s] = Append(@, EOF)]
    BY <1>4 DEF ReadEOF
  <2>2. rdr' = [rdr EXCEPT ![q] = new] /\ UNCHANGED <<attrs, emu, th, calls, abandoned>>
    BY <1>4 DEF ReadEOF
  <2>3. new \in ReaderThread /\ new.stream \in Launches
    BY <1>1 DEF ReaderThread
  <2>4. Append(queue[s], EOF) \in Seq(Lines \cup {EOF})
    BY <1>2
  <2>5. PipesOK'
    <3> HIDE DEF new, p, s
    <3> QED BY <1>1, <2>1, <2>2, <2>3, <2>4 DEF PipesOK
  <2> QED BY <2>2, <2>5 DEF attrs, CallersOK, InTry
<1> QED BY <1>3, <1>4 DEF Reader

(* A step of an emulator keeps the types.                                  *)
LEMMA EmulatorType == ASSUME TypeOK, NEW p \in Launches, Emulator(p) PROVE TypeOK'
<1> USE DEF TypeOK, AttrsOK
<1>1. /\ emu[p] \in Process
      /\ emu[p].inbox \in Seq(Commands) /\ emu[p].out \in Seq(Lines)
  BY DEF PipesOK, Process
<1>2. ASSUME NEW new \in Process, emu' = [emu EXCEPT ![p] = new],
             UNCHANGED <<attrs, rdr, queue, th, calls, abandoned>>
      PROVE  TypeOK'
  BY <1>2 DEF attrs, PipesOK, CallersOK, InTry
<1>3. CASE Answer(p)
  <2>1. PICK r \in Replies :
            emu' = [emu EXCEPT ![p].inbox = Tail(@),
                               ![p].out = @ \o Answered(Head(emu[p].inbox), r)]
    BY <1>3 DEF Answer
  <2> DEFINE lines == emu[p].out \o Answered(Head(emu[p].inbox), r)
             new == [[emu[p] EXCEPT !.inbox = Tail(@)] EXCEPT !.out = lines]
  <2>2. Head(emu[p].inbox) \in Commands /\ Tail(emu[p].inbox) \in Seq(Commands)
    BY <1>1, <1>3 DEF Answer
  <2>3. lines \in Seq(Lines)
    <3>1. Answered(Head(emu[p].inbox), r) \in Seq(Lines)
      BY <2>2, AnsweredType
    <3> QED BY <1>1, <3>1
  <2>4. new \in Process
    <3> HIDE DEF lines
    <3> QED BY <1>1, <2>2, <2>3 DEF Process
  <2>5. emu' = [emu EXCEPT ![p] = new]
    BY <2>1
  <2> QED
    <3> HIDE DEF new
    <3> QED BY <1>2, <1>3, <2>4, <2>5 DEF Answer
<1>4. CASE Die(p)
  <2>1. PICK r \in Replies : \E n \in 0..(Len(r) - 1) :
            /\ n > 0 => emu[p].inbox # <<>>
            /\ emu' = [emu EXCEPT ![p].st = "dying", ![p].inbox = <<>>,
                         ![p].out = IF n = 0 THEN @ ELSE
                             @ \o SubSeq(Answered(Head(emu[p].inbox), r), 1, n)]
    BY <1>4 DEF Die
  <2>2. PICK n \in 0..(Len(r) - 1) :
            /\ n > 0 => emu[p].inbox # <<>>
            /\ emu' = [emu EXCEPT ![p].st = "dying", ![p].inbox = <<>>,
                         ![p].out = IF n = 0 THEN @ ELSE
                             @ \o SubSeq(Answered(Head(emu[p].inbox), r), 1, n)]
    BY <2>1
  <2> DEFINE lines == IF n = 0 THEN emu[p].out
                      ELSE emu[p].out \o SubSeq(Answered(Head(emu[p].inbox), r), 1, n)
             dead == [emu[p] EXCEPT !.st = "dying"]
             mute == [dead EXCEPT !.inbox = <<>>]
             new == [mute EXCEPT !.out = lines]
  <2>3. lines \in Seq(Lines)
    <3>1. CASE n = 0
      BY <1>1, <3>1
    <3>2. CASE n # 0
      <4>1. Len(r) \in Nat
        BY RepliesAssumption
      <4>2. Head(emu[p].inbox) \in Commands
        BY <1>1, <2>2, <3>2, <4>1
      <4>3. SubSeq(Answered(Head(emu[p].inbox), r), 1, n) \in Seq(Lines)
        BY <4>2, AnsweredType
      <4> QED BY <1>1, <3>2, <4>3
    <3> QED BY <3>1, <3>2
  <2>4. new \in Process
    <3> HIDE DEF lines
    <3>1. dead \in Process
      BY <1>1 DEF Process
    <3>2. mute \in Process
      <4> HIDE DEF dead
      <4>1. <<>> \in Seq(Commands)
        OBVIOUS
      <4> QED BY <3>1, <4>1 DEF Process
    <3> HIDE DEF mute
    <3> QED BY <2>3, <3>2 DEF Process
  <2>5. emu' = [emu EXCEPT ![p] = new]
    BY <2>2
  <2> QED
    <3> HIDE DEF new
    <3> QED BY <1>2, <1>4, <2>4, <2>5 DEF Die
<1>5. CASE Exit(p)
  <2> DEFINE new == [emu[p] EXCEPT !.st = "exited"]
  <2>1. new \in Process
    BY <1>1 DEF Process
  <2>2. emu' = [emu EXCEPT ![p] = new]
    BY <1>5 DEF Exit
  <2> QED
    <3> HIDE DEF new
    <3> QED BY <1>2, <1>5, <2>1, <2>2 DEF Exit
<1> QED BY <1>3, <1>4, <1>5 DEF Emulator

(* Every step keeps the types.                                             *)
LEMMA TypeStep == TypeOK /\ [Next]_vars => TypeOK'
<1> SUFFICES ASSUME TypeOK, [Next]_vars PROVE TypeOK'
  OBVIOUS
<1>1. CASE UNCHANGED vars
  BY <1>1 DEF vars, attrs, TypeOK, AttrsOK, PipesOK, CallersOK, InTry
<1>2. ASSUME NEW t \in Threads, Caller(t) PROVE TypeOK'
  BY <1>2, StartType, StopType, ExecuteType, LookType DEF Caller
<1>3. ASSUME NEW p \in Launches, Emulator(p) \/ Reader(p) PROVE TypeOK'
  BY <1>3, EmulatorType, ReaderType
<1> QED BY <1>1, <1>2, <1>3 DEF Next

(* Every variable of the transport has its type in every reachable state,  *)
(* for any callers, answers and bounds.                                    *)
THEOREM TypeCorrect == Spec => []TypeOK
BY InitType, TypeStep, PTL DEF Spec

(* A step that leaves the lock alone keeps LockInv when it lets nobody in  *)
(* or out.                                                                 *)
LEMMA LockKept ==
    ASSUME LockInv, NEW t \in Threads, UNCHANGED lock,
           \A u \in Threads \ {t} : th'[u] = th[u],
           InTry(t) <=> InTry(t)'
    PROVE  LockInv'
BY DEF LockInv, InTry

(* A caller that goes to a label is there, and the others stay.            *)
LEMMA GotoLabel ==
    ASSUME CallersOK, NEW t \in Threads, NEW l, Goto(t, l)
    PROVE  th'[t].pc = l /\ \A u \in Threads \ {t} : th'[u] = th[u]
BY DEF Goto, CallersOK, CallerState

(* A caller that returns is idle, and the others stay.                     *)
LEMMA ReturnLabel ==
    ASSUME CallersOK, NEW t \in Threads, NEW r, Return(t, r)
    PROVE  th'[t].pc = "idle" /\ \A u \in Threads \ {t} : th'[u] = th[u]
BY DEF Return, Idle, CallersOK

(* A caller in start(), stop(), pid() or available() leaves the lock alone *)
(* and lets nobody in.                                                     *)
LEMMA ControlKeepsLock ==
    ASSUME CallersOK, LockInv, NEW t \in Threads, Start(t) \/ Stop(t) \/ Look(t)
    PROVE  LockInv'
<1> DEFINE Outside == /\ UNCHANGED lock
                      /\ \A u \in Threads \ {t} : th'[u] = th[u]
                      /\ ~InTry(t) /\ ~InTry(t)'
<1> USE DEF InTry, At
<1>1. CASE StartCall(t)
  <2>1. Outside
    BY <1>1, GotoLabel, ReturnLabel DEF StartCall, Call, attrs
  <2> QED BY <2>1, LockKept
<1>2. CASE StartPoll(t)
  <2>1. Outside
    BY <1>2, GotoLabel, ReturnLabel DEF StartPoll, Call, attrs
  <2> QED BY <2>1, LockKept
<1>3. CASE LaunchFails(t)
  <2>1. Outside
    BY <1>3, GotoLabel, ReturnLabel DEF LaunchFails, Call, attrs
  <2> QED BY <2>1, LockKept
<1>4. CASE NewQueue(t)
  <2>1. Outside
    BY <1>4, GotoLabel, ReturnLabel DEF NewQueue, Call, attrs
  <2> QED BY <2>1, LockKept
<1>5. CASE NewReader(t)
  <2>1. Outside
    BY <1>5, GotoLabel, ReturnLabel DEF NewReader, Call, attrs
  <2> QED BY <2>1, LockKept
<1>21. CASE CheckStdout(t)
  <2>1. Outside
    BY <1>21, GotoLabel, ReturnLabel DEF CheckStdout, attrs
  <2> QED BY <2>1, LockKept
<1>22. CASE ReadStdout(t)
  <2>1. Outside
    <3>1. CASE process = 0
      BY <1>22, <3>1, ReturnLabel DEF ReadStdout, attrs
    <3>2. CASE process # 0
      BY <1>22, <3>2 DEF ReadStdout, attrs, CallersOK, CallerState
    <3> QED BY <3>1, <3>2
  <2> QED BY <2>1, LockKept
<1>23. CASE ReadQueue(t)
  <2>1. Outside
    BY <1>23, GotoLabel DEF ReadQueue, attrs
  <2> QED BY <2>1, LockKept
<1>6. CASE StartReader(t)
  <2>1. Outside
    BY <1>6, GotoLabel, ReturnLabel DEF StartReader, Call, attrs
  <2> QED BY <2>1, LockKept
<1>7. CASE ClearStopped(t)
  <2>1. Outside
    BY <1>7, GotoLabel, ReturnLabel DEF ClearStopped, Call, attrs
  <2> QED BY <2>1, LockKept
<1>8. ASSUME NEW p \in Launches, Launch(t, p) PROVE LockInv'
  <2>1. Outside
    BY <1>8 DEF Launch, CallersOK
  <2> QED BY <2>1, LockKept
<1>9. CASE StopCall(t)
  <2>1. Outside
    BY <1>9, GotoLabel, ReturnLabel DEF StopCall, Call, attrs
  <2> QED BY <2>1, LockKept
<1>10. CASE StopCheck(t)
  <2>1. Outside
    BY <1>10, GotoLabel, ReturnLabel DEF StopCheck, Call, attrs
  <2> QED BY <2>1, LockKept
<1>11. CASE CloseStdin(t)
  <2>1. Outside
    BY <1>11, GotoLabel, ReturnLabel DEF CloseStdin, Call, attrs
  <2> QED BY <2>1, LockKept
<1>12. CASE Terminate(t)
  <2>1. Outside
    BY <1>12, GotoLabel, ReturnLabel DEF Terminate, Call, attrs
  <2> QED BY <2>1, LockKept
<1>13. CASE WaitExit(t)
  <2>1. Outside
    BY <1>13, GotoLabel, ReturnLabel DEF WaitExit, Call, attrs
  <2> QED BY <2>1, LockKept
<1>14. CASE Kill(t)
  <2>1. Outside
    BY <1>14, GotoLabel, ReturnLabel DEF Kill, Call, attrs
  <2> QED BY <2>1, LockKept
<1>15. CASE JoinCheck(t)
  <2>1. Outside
    BY <1>15, GotoLabel, ReturnLabel DEF JoinCheck, Call, attrs
  <2> QED BY <2>1, LockKept
<1>16. CASE Join(t)
  <2>1. Outside
    BY <1>16, GotoLabel, ReturnLabel DEF Join, Call, attrs
  <2> QED BY <2>1, LockKept
<1>17. CASE DropReader(t)
  <2>1. Outside
    BY <1>17, GotoLabel, ReturnLabel DEF DropReader, Call, attrs
  <2> QED BY <2>1, LockKept
<1>18. CASE DropProcess(t)
  <2>1. Outside
    BY <1>18, GotoLabel, ReturnLabel DEF DropProcess, Call, attrs
  <2> QED BY <2>1, LockKept
<1>19. CASE LookCall(t)
  <2>1. Outside
    BY <1>19, GotoLabel, ReturnLabel DEF LookCall, Call, attrs
  <2> QED BY <2>1, LockKept
<1>20. CASE LookAgain(t)
  <2>1. Outside
    BY <1>20, GotoLabel, ReturnLabel DEF LookAgain, Call, attrs
  <2> QED BY <2>1, LockKept
<1> HIDE DEF Outside
<1> QED
  BY <1>1, <1>2, <1>3, <1>4, <1>5, <1>6, <1>7, <1>8, <1>9, <1>10,
     <1>11, <1>12, <1>13, <1>14, <1>15, <1>16, <1>17, <1>18, <1>19, <1>20,
     <1>21, <1>22, <1>23
     DEF Start, Stop, Look

(* A caller in execute() enters the try statement with the lock, and gives *)
(* the lock back when it leaves.                                           *)
LEMMA ExecuteKeepsLock ==
    ASSUME CallersOK, LockInv, NEW t \in Threads, Execute(t)
    PROVE  LockInv'
<1> DEFINE Inside == /\ UNCHANGED lock
                     /\ \A u \in Threads \ {t} : th'[u] = th[u]
                     /\ InTry(t) <=> InTry(t)'
<1> USE DEF InTry, At
<1>1. CASE ExecCall(t)
  <2>1. Inside
    BY <1>1, ReturnLabel DEF ExecCall, Call, Idle, attrs, CallersOK
  <2> QED BY <2>1, LockKept
<1>2. CASE Acquire(t)
  <2>1. CASE lock = 0
    <3>1. \A u \in Threads : ~InTry(u)
      BY <2>1, ThreadsAssumption DEF LockInv
    <3>2. lock' = t /\ \A u \in Threads \ {t} : th'[u] = th[u]
      BY <1>2, <2>1, GotoLabel DEF Acquire
    <3>3. InTry(t)'
      BY <1>2, <2>1, GotoLabel DEF Acquire
    <3>4. t # 0 /\ 0 \notin Threads
      BY ThreadsAssumption
    <3> QED BY <3>1, <3>2, <3>3, <3>4 DEF LockInv
  <2>2. CASE lock # 0
    <3>1. Inside
      BY <1>2, <2>2, ReturnLabel DEF Acquire
    <3> QED BY <3>1, LockKept
  <2> QED BY <2>1, <2>2
<1>3. CASE Check(t)
  <2>1. Inside
    BY <1>3 DEF Check, Goto, End, attrs, CallersOK, CallerState
  <2> QED BY <2>1, LockKept
<1>4. CASE Poll(t)
  <2>1. Inside
    BY <1>4 DEF Poll, Goto, End, attrs, CallersOK, CallerState
  <2> QED BY <2>1, LockKept
<1>5. CASE Send(t)
  <2>1. Inside
    BY <1>5 DEF Send, Goto, End, attrs, CallersOK, CallerState
  <2> QED BY <2>1, LockKept
<1>6. CASE Fetch(t)
  <2>1. Inside
    BY <1>6 DEF Fetch, Goto, End, attrs, CallersOK, CallerState
  <2> QED BY <2>1, LockKept
<1>7. CASE Get(t)
  <2>1. Inside
    BY <1>7 DEF Get, Consume, Goto, End, attrs, CallersOK, CallerState
  <2> QED BY <2>1, LockKept
<1>8. CASE GetTimeout(t)
  <2>1. Inside
    BY <1>8 DEF GetTimeout, Goto, End, attrs, CallersOK, CallerState
  <2> QED BY <2>1, LockKept
<1>9. CASE Release(t)
  <2>1. \A u \in Threads \ {t} : ~InTry(u) /\ th'[u] = th[u]
    BY <1>9, ReturnLabel DEF Release, LockInv
  <2>2. ~InTry(t)'
    BY <1>9, ReturnLabel DEF Release
  <2>3. lock' = 0 /\ 0 \notin Threads
    BY <1>9, ThreadsAssumption DEF Release
  <2> QED BY <2>1, <2>2, <2>3 DEF LockInv
<1> HIDE DEF Inside
<1> QED BY <1>1, <1>2, <1>3, <1>4, <1>5, <1>6, <1>7, <1>8, <1>9 DEF Execute

(* At first nobody is inside and nobody has the lock.                      *)
LEMMA LockInit == Init => LockInv
<1> SUFFICES ASSUME Init, NEW t \in Threads PROVE ~InTry(t) /\ lock # t
  BY DEF LockInv
<1>1. lock = 0 /\ th[t].pc = "idle"
  BY DEF Init, Idle
<1> QED BY <1>1, ThreadsAssumption DEF InTry

(* Every step keeps LockInv.                                               *)
LEMMA LockStep == TypeOK /\ LockInv /\ [Next]_vars => LockInv'
<1> SUFFICES ASSUME TypeOK, LockInv, [Next]_vars PROVE LockInv'
  OBVIOUS
<1>1. CASE UNCHANGED vars
  BY <1>1 DEF vars, attrs, LockInv, InTry
<1>2. ASSUME NEW t \in Threads, Caller(t) PROVE LockInv'
  BY <1>2, ControlKeepsLock, ExecuteKeepsLock DEF Caller, TypeOK
<1>3. ASSUME NEW p \in Launches, Emulator(p) \/ Reader(p) PROVE LockInv'
  BY <1>3 DEF Emulator, Answer, Die, Exit, Reader, ReadLine, ReadEOF, attrs, LockInv, InTry
<1> QED BY <1>1, <1>2, <1>3 DEF Next

(* At most one caller is between acquiring and releasing the in-flight     *)
(* lock, and the lock is held for such a caller only, whatever calls,      *)
(* restarts and exceptions there are.                                      *)
THEOREM MutualExclusion == Spec => []OneInFlight
<1>1. Init => LockInv
  BY LockInit
<1>2. TypeOK /\ LockInv => OneInFlight
  BY DEF TypeOK, AttrsOK, LockInv, OneInFlight
<1> QED BY <1>1, <1>2, LockStep, TypeCorrect, PTL DEF Spec
=============================================================================
