----------------------- MODULE TransportAnswersProofs -----------------------
(***************************************************************************)
(* execute() returns the answer of its own command, and never lines of two *)
(* answers: for threads that start and stop the process under each other   *)
(* up to the overlap that makes it false, and for one thread without an    *)
(* excuse.  For one thread the transport is a CommandChannel.              *)
(***************************************************************************)
EXTENDS TransportRacesProofs, TransportChannel, SequenceTheorems, WellFoundedInduction

USE DEF At

-----------------------------------------------------------------------------
(* What a caller has got, what is in the line queue and what is in the     *)
(* stdout pipe behind it are, in this order, the first lines of answer r   *)
(* to command c.  The end marker stands for no line.                       *)
FirstOf(got, lines, out, c, r) ==
    LET n == Len(got)
        m == Len(lines)
        IsLine(l, i) == i <= Len(r) /\ l = [cmd |-> c, kind |-> r[i]]
    IN /\ \A i \in 1..n : IsLine(got[i], i)
       /\ \A i \in 1..m : lines[i] # EOF => IsLine(lines[i], n + i)
       /\ \A i \in 1..Len(out) : IsLine(out[i], n + m + i)

(* The caller takes the next line from the queue.                          *)
LEMMA TakeLine ==
    ASSUME NEW got \in Seq(Lines), NEW lines \in Seq(Lines \cup {EOF}), NEW out \in Seq(Lines),
           NEW c \in Commands, NEW r \in Replies, FirstOf(got, lines, out, c, r),
           lines # <<>>, Head(lines) # EOF
    PROVE  /\ Head(lines) = [cmd |-> c, kind |-> r[Len(got) + 1]]
           /\ Len(got) + 1 <= Len(r)
           /\ FirstOf(Append(got, Head(lines)), Tail(lines), out, c, r)
<1>1. /\ Len(got) \in Nat /\ Len(lines) \in Nat /\ Len(lines) > 0
      /\ Len(out) \in Nat /\ Len(r) \in Nat
      /\ Len(Append(got, Head(lines))) = Len(got) + 1 /\ Len(Tail(lines)) = Len(lines) - 1
  BY RepliesAssumption
<1>2. Head(lines) = lines[1] /\ \A i \in 1..(Len(lines) - 1) : Tail(lines)[i] = lines[i + 1]
  OBVIOUS
<1>3. /\ \A i \in 1..Len(got) : Append(got, Head(lines))[i] = got[i]
      /\ Append(got, Head(lines))[Len(got) + 1] = Head(lines)
  OBVIOUS
<1>4. /\ Len(got) + 1 <= Len(r)
      /\ Head(lines) = [cmd |-> c, kind |-> r[Len(got) + 1]]
  BY <1>1, <1>2 DEF FirstOf
<1> DEFINE next == Append(got, Head(lines))
           rest == Tail(lines)
           IsLine(l, i) == i <= Len(r) /\ l = [cmd |-> c, kind |-> r[i]]
<1>5. \A i \in 1..Len(next) : IsLine(next[i], i)
  BY <1>1, <1>3, <1>4 DEF FirstOf
<1>6. \A i \in 1..Len(rest) : rest[i] # EOF => IsLine(rest[i], Len(next) + i)
  <2> SUFFICES ASSUME NEW i \in 1..Len(rest), rest[i] # EOF
               PROVE  IsLine(rest[i], Len(next) + i)
    OBVIOUS
  <2>1. i + 1 \in 1..Len(lines) /\ rest[i] = lines[i + 1]
    BY <1>1, <1>2
  <2>2. IsLine(lines[i + 1], Len(got) + (i + 1))
    BY <2>1 DEF FirstOf
  <2> QED BY <1>1, <2>1, <2>2
<1>7. \A i \in 1..Len(out) : IsLine(out[i], Len(next) + Len(rest) + i)
  <2>1. Len(next) + Len(rest) = Len(got) + Len(lines)
    BY <1>1
  <2> QED BY <2>1 DEF FirstOf
<1> QED BY <1>4, <1>5, <1>6, <1>7 DEF FirstOf

(* The reader thread moves the next line from the pipe to the queue.       *)
LEMMA MoveLine ==
    ASSUME NEW got \in Seq(Lines), NEW lines \in Seq(Lines \cup {EOF}), NEW out \in Seq(Lines),
           NEW c \in Commands, NEW r \in Replies, FirstOf(got, lines, out, c, r), out # <<>>
    PROVE  FirstOf(got, Append(lines, Head(out)), Tail(out), c, r)
<1>1. /\ Len(got) \in Nat /\ Len(lines) \in Nat /\ Len(out) \in Nat /\ Len(out) > 0
      /\ Len(Append(lines, Head(out))) = Len(lines) + 1 /\ Len(Tail(out)) = Len(out) - 1
  OBVIOUS
<1>2. Head(out) = out[1] /\ \A i \in 1..(Len(out) - 1) : Tail(out)[i] = out[i + 1]
  OBVIOUS
<1>3. /\ \A i \in 1..Len(lines) : Append(lines, Head(out))[i] = lines[i]
      /\ Append(lines, Head(out))[Len(lines) + 1] = Head(out)
  OBVIOUS
<1> DEFINE more == Append(lines, Head(out))
           rest == Tail(out)
           IsLine(l, i) == i <= Len(r) /\ l = [cmd |-> c, kind |-> r[i]]
<1>4. IsLine(out[1], Len(got) + Len(lines) + 1)
  BY <1>1 DEF FirstOf
<1>5. \A i \in 1..Len(more) : more[i] # EOF => IsLine(more[i], Len(got) + i)
  <2> SUFFICES ASSUME NEW i \in 1..Len(more), more[i] # EOF
               PROVE  IsLine(more[i], Len(got) + i)
    OBVIOUS
  <2>1. CASE i \in 1..Len(lines)
    BY <1>3, <2>1 DEF FirstOf
  <2>2. CASE i = Len(lines) + 1
    BY <1>1, <1>2, <1>3, <1>4, <2>2
  <2> QED BY <1>1, <2>1, <2>2
<1>6. \A i \in 1..Len(rest) : IsLine(rest[i], Len(got) + Len(more) + i)
  <2> SUFFICES ASSUME NEW i \in 1..Len(rest)
               PROVE  IsLine(rest[i], Len(got) + Len(more) + i)
    OBVIOUS
  <2>1. i + 1 \in 1..Len(out) /\ rest[i] = out[i + 1]
    BY <1>1, <1>2
  <2>2. IsLine(out[i + 1], Len(got) + Len(lines) + (i + 1))
    BY <2>1 DEF FirstOf
  <2> QED BY <1>1, <2>1, <2>2
<1>7. \A i \in 1..Len(got) : IsLine(got[i], i)
  BY DEF FirstOf
<1> QED BY <1>5, <1>6, <1>7 DEF FirstOf

(* The reader thread puts the end marker behind the last line.             *)
LEMMA AddEnd ==
    ASSUME NEW got \in Seq(Lines), NEW lines \in Seq(Lines \cup {EOF}),
           NEW c \in Commands, NEW r \in Replies, FirstOf(got, lines, <<>>, c, r)
    PROVE  FirstOf(got, Append(lines, EOF), <<>>, c, r)
<1>1. /\ Len(lines) \in Nat /\ Len(Append(lines, EOF)) = Len(lines) + 1
      /\ \A i \in 1..Len(lines) : Append(lines, EOF)[i] = lines[i]
      /\ Append(lines, EOF)[Len(lines) + 1] = EOF
  OBVIOUS
<1>2. \A i \in 1..Len(Append(lines, EOF)) :
          Append(lines, EOF)[i] # EOF => i \in 1..Len(lines)
  BY <1>1
<1> QED BY <1>1, <1>2 DEF FirstOf

(* The lines of an answer.                                                 *)
LEMMA AnswerLines ==
    ASSUME NEW c \in Commands, NEW r \in Replies
    PROVE  /\ Answered(c, r) \in Seq(Lines) /\ Len(Answered(c, r)) = Len(r)
           /\ \A i \in 1..Len(r) : Answered(c, r)[i] = [cmd |-> c, kind |-> r[i]]
<1>1. Len(r) \in Nat /\ r \in [1..Len(r) -> Kinds] /\ DOMAIN r = 1..Len(r)
  BY RepliesAssumption
<1>2. Answered(c, r) \in [1..Len(r) -> Lines]
  BY <1>1 DEF Answered, Lines
<1> QED BY <1>1, <1>2 DEF Answered

(* s3270 writes the answer, or dies in the middle of it.                   *)
LEMMA WriteLines ==
    ASSUME NEW c \in Commands, NEW r \in Replies, NEW lines, lines = <<>>
    PROVE  /\ FirstOf(<<>>, lines, Answered(c, r), c, r)
           /\ \A n \in 0..(Len(r) - 1) : FirstOf(<<>>, lines, SubSeq(Answered(c, r), 1, n), c, r)
<1>1. Len(r) \in Nat
  BY RepliesAssumption
<1>2. /\ Answered(c, r) \in Seq(Lines) /\ Len(Answered(c, r)) = Len(r)
      /\ \A i \in 1..Len(r) : Answered(c, r)[i] = [cmd |-> c, kind |-> r[i]]
  BY AnswerLines
<1>3. ASSUME NEW out \in Seq(Lines), Len(out) <= Len(r),
             \A i \in 1..Len(out) : out[i] = [cmd |-> c, kind |-> r[i]]
      PROVE  FirstOf(<<>>, lines, out, c, r)
  <2>1. Len(lines) = 0 /\ Len(<<>>) = 0 /\ Len(out) \in Nat
    BY <1>3
  <2>2. \A i \in 1..Len(out) : i <= Len(r) /\ Len(<<>>) + Len(lines) + i = i
    BY <1>1, <1>3, <2>1
  <2>3. \A i \in 1..Len(<<>>) : FALSE
    BY <2>1
  <2>4. \A i \in 1..Len(lines) : FALSE
    BY <2>1
  <2> QED BY <1>3, <2>2, <2>3, <2>4 DEF FirstOf
<1>4. FirstOf(<<>>, lines, Answered(c, r), c, r)
  BY <1>1, <1>2, <1>3
<1>5. ASSUME NEW n \in 0..(Len(r) - 1)
      PROVE  FirstOf(<<>>, lines, SubSeq(Answered(c, r), 1, n), c, r)
  <2> DEFINE part == SubSeq(Answered(c, r), 1, n)
  <2>1. /\ part \in Seq(Lines) /\ Len(part) = n /\ n <= Len(r)
        /\ \A i \in 1..n : part[i] = Answered(c, r)[i]
    BY <1>1, <1>2
  <2>2. \A i \in 1..Len(part) : part[i] = [cmd |-> c, kind |-> r[i]]
    BY <1>1, <1>2, <2>1
  <2>3. part \in Seq(Lines) /\ Len(part) <= Len(r)
    BY <2>1
  <2>4. FirstOf(<<>>, lines, part, c, r)
    <3> HIDE DEF part
    <3> QED BY <1>3, <2>2, <2>3
  <2> QED BY <2>4
<1> QED BY <1>4, <1>5

(* The line that ends the answer is its last: nothing of it is left.       *)
LEMMA WholeAnswer ==
    ASSUME NEW got \in Seq(Lines), NEW lines \in Seq(Lines \cup {EOF}), NEW out \in Seq(Lines),
           NEW c \in Commands, NEW r \in Replies, FirstOf(got, lines, out, c, r),
           got # <<>>, got[Len(got)].kind \in EndKinds
    PROVE  /\ got = Answered(c, r)
           /\ out = <<>> /\ \A i \in DOMAIN lines : lines[i] = EOF
<1>1. Len(r) \in Nat /\ DOMAIN r = 1..Len(r)
  BY RepliesAssumption
<1>a. \A i \in 1..Len(r) : (r[i] \in EndKinds) <=> (i = Len(r))
  BY RepliesAssumption
<1>2. Len(got) \in Nat /\ Len(got) > 0 /\ DOMAIN got = 1..Len(got)
  OBVIOUS
<1>3. Len(got) = Len(r)
  <2>1. Len(got) <= Len(r) /\ got[Len(got)].kind = r[Len(got)]
    <3>1. \A i \in 1..Len(got) : i <= Len(r) /\ got[i] = [cmd |-> c, kind |-> r[i]]
      BY DEF FirstOf
    <3> QED BY <1>2, <3>1
  <2>2. Len(got) \in 1..Len(r)
    BY <1>1, <1>2, <2>1
  <2> QED BY <1>a, <2>1, <2>2
<1>4. got = Answered(c, r)
  <2>1. \A i \in 1..Len(got) : got[i] = [cmd |-> c, kind |-> r[i]]
    BY DEF FirstOf
  <2>2. got = [i \in 1..Len(r) |-> [cmd |-> c, kind |-> r[i]]]
    BY <1>2, <1>3, <2>1
  <2> QED BY <1>1, <2>2 DEF Answered
<1>5. Len(lines) \in Nat /\ Len(out) \in Nat /\ DOMAIN lines = 1..Len(lines)
  OBVIOUS
<1>6. \A i \in 1..Len(lines) : ~(Len(got) + i <= Len(r))
  BY <1>1, <1>3, <1>5
<1>7. \A i \in 1..Len(out) : ~(Len(got) + Len(lines) + i <= Len(r))
  BY <1>1, <1>3, <1>5
<1>8. \A i \in DOMAIN lines : lines[i] = EOF
  BY <1>5, <1>6 DEF FirstOf
<1>9. Len(out) = 0
  <2>1. 1 \notin 1..Len(out)
    BY <1>7 DEF FirstOf
  <2> QED BY <1>5, <2>1
<1> QED BY <1>4, <1>8, <1>9

-----------------------------------------------------------------------------
(* A start() has a new process, but not yet the new line queue.            *)
QueueDue(t) == th[t].pc \in {"checkStdout", "newQueue"}

(* As long as no two start() or stop() calls overlap, the queue, the       *)
(* reader and the process that belong together carry the same number, and  *)
(* the end marker is the last line that a reader writes.                   *)
PairInv ==
    /\ \A p \in Launches : emu[p].st = "none" => lineQueue # p /\ rdr[p].st = "none"
    /\ \A t \in Threads : th[t].pc \in Installs =>
            /\ th[t].to = process /\ process \in Launches
            /\ emu[process].st # "none" /\ rdr[process].st = "none"
            /\ th[t].pc \in {"readStdout", "readQueue"} => lineQueue = process
            /\ At(t, "readQueue") => th[t].from = process
    /\ process = 0 \/ process = lineQueue \/ \E t \in Threads : QueueDue(t)

StreamInv ==
    /\ queue[0] = <<>>
    /\ \A q \in Launches :
        /\ IF rdr[q].st = "none" THEN queue[q] = <<>>
           ELSE rdr[q].stream = q /\ rdr[q].sink = q
        /\ rdr[q].st = "done" => emu[q].st \notin {"none", "running"} /\ emu[q].out = <<>>
        /\ \A i \in DOMAIN queue[q] :
                queue[q][i] = EOF => i = Len(queue[q]) /\ rdr[q].st = "done"

(* No caller has a line before it has written its command.                 *)
Unsent   == {"acquire", "check", "poll", "send"}
FreshInv == \A t \in Threads : th[t].pc \in Unsent => th[t].got = <<>>

PairFree == PairInv /\ StreamInv /\ FreshInv

(* A caller that has written its command and not got the end of an answer. *)
Waits(t) == th[t].pc \in {"fetch", "get"}

(* What most steps do to the pipes and the reader threads: nothing is      *)
(* written, and none is made or ends.                                      *)
PipesKept == \A q \in Launches : /\ emu'[q].out = emu[q].out
                                 /\ emu'[q].inbox \in {emu[q].inbox, <<>>}
RolesKept == \A q \in Launches : /\ rdr'[q].stream = rdr[q].stream
                                 /\ rdr'[q].sink = rdr[q].sink
                                 /\ (rdr'[q].st = "none") <=> (rdr[q].st = "none")
                                 /\ (rdr'[q].st = "done") <=> (rdr[q].st = "done")

(* A step of a caller that neither sets a launch up nor reads or writes: a *)
(* caller that waits gives its command up.                                 *)
Quiet(t) ==
    /\ OthersRest(t) /\ StatusKept /\ PipesKept /\ RolesKept
    /\ UNCHANGED <<lineQueue, queue>> /\ abandoned \subseteq abandoned'
    /\ UNCHANGED process \/ (process' = 0 /\ \A u \in Threads : th[u].pc \notin Installs)
    /\ th[t].pc \notin Installs /\ th'[t].pc \notin Installs
    /\ Waits(t) => th[t].to \in abandoned' \cup {0}
    /\ ~Waits(t)' /\ ~Responded(t)'
    /\ th'[t].pc \in Unsent => th'[t].got = <<>>

(* Lines 108 and 110: the process is there.                                *)
Checks(t) == CheckStdout(t) \/ ReadStdout(t)

(* Lines 180-181: the write succeeds.  Line 193: get() is called.          *)
Sends(t)     == Send(t) /\ process # 0 /\ ~emu[process].closed /\ emu[process].st = "running"
FetchLine(t) == Fetch(t) /\ At(t, "get")'

(* Every step of start() is quiet or sets a launch up.                     *)
LEMMA StartKinds ==
    ASSUME TypeOK, NEW t \in Threads, Start(t)
    PROVE  \/ Quiet(t) \/ Checks(t) \/ NewQueue(t) \/ ReadQueue(t)
           \/ \E p \in Launches : Launch(t, p)
<1> USE DEF TypeOK, OthersRest, StatusKept, PipesKept, RolesKept, Installs, Waits, Responded,
            Quiet, Unsent
<1>1. CASE StartCall(t)
  BY <1>1, GotoLabel DEF StartCall, Call, attrs
<1>2. CASE StartPoll(t)
  BY <1>2, GotoLabel, ReturnLabel DEF StartPoll, attrs
<1>3. CASE LaunchFails(t)
  BY <1>3, ReturnLabel DEF LaunchFails, attrs
<1>4. CASE StartReader(t)
  <2>1. rdr \in [Launches -> ReaderThread]
    BY DEF PipesOK
  <2>2. CASE reader # 0 /\ rdr[reader].st = "created"
    <3>1. reader \in Launches
      BY <2>2 DEF AttrsOK, LaunchOr0, Launches
    <3>2. rdr' = [rdr EXCEPT ![reader].st = "running"] /\ th'[t].pc = "clearStopped"
      BY <1>4, <2>2, GotoLabel DEF StartReader
    <3>3. RolesKept
      BY <2>1, <2>2, <3>1, <3>2 DEF ReaderThread
    <3> QED BY <1>4, <2>2, <3>2, <3>3, GotoLabel DEF StartReader, attrs
  <2>3. CASE ~(reader # 0 /\ rdr[reader].st = "created")
    BY <1>4, <2>3, ReturnLabel DEF StartReader, attrs
  <2> QED BY <2>2, <2>3
<1>5. CASE ClearStopped(t)
  BY <1>5, ReturnLabel DEF ClearStopped
<1>6. CASE NewReader(t)
  BY <1>6, GotoLabel DEF NewReader
<1> QED BY <1>1, <1>2, <1>3, <1>4, <1>5, <1>6 DEF Start, Checks

(* Every step of stop() is quiet: it writes nothing, and may empty an      *)
(* inbox.                                                                  *)
LEMMA StopKinds ==
    ASSUME TypeOK, ~Rivals, NEW t \in Threads, Stop(t)
    PROVE  Quiet(t)
<1> USE DEF TypeOK, OthersRest, StatusKept, PipesKept, RolesKept, Installs, Waits, Responded,
            Quiet, Unsent
<1>0. emu \in [Launches -> Process] /\ (process # 0 => process \in Launches)
  BY DEF PipesOK, AttrsOK, LaunchOr0, Launches
<1>1. CASE StopCall(t)
  BY <1>1, GotoLabel DEF StopCall, Call
<1>2. CASE StopCheck(t)
  BY <1>2, GotoLabel, ReturnLabel DEF StopCheck, attrs
<1>3. CASE CloseStdin(t)
  <2>1. StatusKept /\ PipesKept
    BY <1>0, <1>3 DEF CloseStdin, Process
  <2> QED BY <1>3, <2>1, GotoLabel DEF CloseStdin, attrs
<1>4. CASE Terminate(t)
  BY <1>4, GotoLabel DEF Terminate, attrs
<1>5. CASE WaitExit(t)
  BY <1>5, GotoLabel DEF WaitExit, attrs
<1>6. CASE Kill(t)
  <2>1. StatusKept /\ PipesKept
    BY <1>0, <1>6 DEF Kill, Process
  <2>2. OthersRest(t) /\ th'[t].pc = "joinCheck"
    BY <1>6, GotoLabel DEF Kill
  <2>3. UNCHANGED <<attrs, rdr, queue, abandoned>> /\ th[t].pc = "kill"
    BY <1>6 DEF Kill
  <2> QED BY <2>1, <2>2, <2>3 DEF attrs
<1>7. CASE JoinCheck(t)
  BY <1>7, GotoLabel DEF JoinCheck, attrs
<1>8. CASE Join(t)
  BY <1>8, GotoLabel, ReturnLabel DEF Join, attrs
<1>9. CASE DropReader(t)
  BY <1>9, GotoLabel DEF DropReader
<1>10. CASE DropProcess(t)
  <2>1. \A u \in Threads : th[u].pc \notin Installs
    BY <1>10 DEF DropProcess, Rivals, InControl, InTry
  <2> QED BY <1>10, <2>1, ReturnLabel DEF DropProcess
<1> QED
  BY <1>1, <1>2, <1>3, <1>4, <1>5, <1>6, <1>7, <1>8, <1>9, <1>10 DEF Stop

(* Every step of execute() is quiet or reads or writes.                    *)
LEMMA ExecuteKinds ==
    ASSUME TypeOK, FreshInv, NEW t \in Threads, Execute(t)
    PROVE  Quiet(t) \/ Sends(t) \/ FetchLine(t) \/ Get(t)
<1> USE DEF TypeOK, OthersRest, StatusKept, PipesKept, RolesKept, Installs, Waits, Responded,
            Unsent
<1> DEFINE Local == /\ OthersRest(t) /\ abandoned \subseteq abandoned'
                    /\ UNCHANGED <<process, lineQueue, emu, rdr, queue>>
                    /\ th[t].pc \notin Installs /\ th'[t].pc \in Unsent \cup {"idle", "release"}
                    /\ th'[t].result # "answered"
                    /\ Waits(t) => th[t].to \in abandoned' \cup {0}
                    /\ th'[t].pc \in Unsent => th'[t].got = <<>>
<1>a. ASSUME Local PROVE Quiet(t)
  BY <1>a DEF Quiet
<1>b. \A l : Goto(t, l) => /\ th'[t].pc = l /\ th'[t].got = th[t].got
                           /\ th'[t].result = th[t].result /\ OthersRest(t)
  BY DEF Goto, CallersOK, CallerState
<1>c. \A r : End(t, r) => /\ th'[t].pc = "release" /\ th'[t].result = r /\ OthersRest(t)
                          /\ r # "answered" => abandoned' = abandoned \cup ({th[t].to} \ {0})
  BY DEF End, CallersOK, CallerState
<1>d. th[t].pc \in Unsent => th[t].got = <<>>
  BY DEF FreshInv
<1> HIDE DEF Local
<1>1. CASE ExecCall(t)
  <2>1. CASE stopped
    <3>1. Return(t, "stopped") /\ At(t, "idle") /\ UNCHANGED <<attrs, emu, rdr, queue, abandoned>>
      BY <1>1, <2>1 DEF ExecCall, Call
    <3>2. th'[t].pc = "idle" /\ OthersRest(t)
      BY <3>1, ReturnLabel
    <3> QED BY <3>1, <3>2 DEF Quiet, attrs
  <2>2. CASE ~stopped
    <3> DEFINE new == [Idle("none") EXCEPT !.pc = "acquire", !.cmd = calls']
    <3>1. /\ th' = [th EXCEPT ![t] = new] /\ At(t, "idle")
          /\ UNCHANGED <<attrs, emu, rdr, queue, abandoned>>
      BY <1>1, <2>2 DEF ExecCall, Call
    <3>2. new.pc = "acquire" /\ new.result = "none" /\ new.got = <<>>
      BY DEF Idle
    <3>3. Local
      <4> HIDE DEF new
      <4> QED BY <3>1, <3>2 DEF Local, attrs, CallersOK
    <3> QED BY <1>a, <3>3
  <2> QED BY <2>1, <2>2
<1>2. CASE Acquire(t)
  <2>1. At(t, "acquire") /\ UNCHANGED <<process, lineQueue, emu, rdr, queue, abandoned>>
    BY <1>2 DEF Acquire
  <2>2. CASE lock = 0
    BY <1>2, <1>b, <1>d, <2>1, <2>2 DEF Acquire, Quiet
  <2>3. CASE lock # 0
    BY <1>2, <2>1, <2>3, ReturnLabel DEF Acquire, Quiet
  <2> QED BY <2>2, <2>3
<1>3. CASE Check(t)
  <2>1. /\ At(t, "check") /\ UNCHANGED <<process, lineQueue, emu, rdr, queue>>
        /\ End(t, "disconnected") \/ (Goto(t, "poll") /\ UNCHANGED abandoned)
    BY <1>3 DEF Check, attrs
  <2> QED BY <1>b, <1>c, <1>d, <2>1 DEF Quiet
<1>4. CASE Poll(t)
  <2>1. /\ At(t, "poll") /\ UNCHANGED <<process, lineQueue, emu, rdr, queue>>
        /\ \/ End(t, "internal") \/ End(t, "disconnected")
           \/ Goto(t, "send") /\ UNCHANGED abandoned
    BY <1>4 DEF Poll, attrs
  <2> QED BY <1>b, <1>c, <1>d, <2>1 DEF Quiet
<1>5. CASE Send(t) /\ ~Sends(t)
  <2>1. /\ At(t, "send") /\ UNCHANGED <<process, lineQueue, emu, rdr, queue>>
        /\ End(t, "internal") \/ End(t, "process")
    BY <1>5 DEF Send, Sends, attrs
  <2> QED BY <1>c, <2>1 DEF Quiet
<1>6. CASE Fetch(t) /\ ~FetchLine(t)
  <2>1. At(t, "fetch") /\ UNCHANGED <<process, lineQueue, emu, rdr, queue>> /\ End(t, "timeout")
    BY <1>6 DEF Fetch, FetchLine, attrs, CallersOK, CallerState
  <2> QED BY <1>c, <2>1 DEF Quiet
<1>7. CASE GetTimeout(t)
  <2>1. At(t, "get") /\ End(t, "timeout") /\ UNCHANGED <<process, lineQueue, emu, rdr, queue>>
    BY <1>7 DEF GetTimeout, attrs
  <2> QED BY <1>c, <2>1 DEF Quiet
<1>8. CASE Release(t)
  <2>1. /\ At(t, "release") /\ Return(t, th[t].result)
        /\ UNCHANGED <<process, lineQueue, emu, rdr, queue, abandoned>>
    BY <1>8 DEF Release
  <2> QED BY <2>1, ReturnLabel DEF Quiet
<1> QED BY <1>1, <1>2, <1>3, <1>4, <1>5, <1>6, <1>7, <1>8 DEF Execute

(* pid() and available() change nothing.                                   *)
LEMMA LookKinds ==
    ASSUME TypeOK, NEW t \in Threads, Look(t)
    PROVE  Quiet(t)
<1> USE DEF TypeOK, OthersRest, StatusKept, PipesKept, RolesKept, Installs, Waits, Responded,
            Quiet, Unsent
<1>1. CASE LookCall(t)
  BY <1>1, GotoLabel, ReturnLabel DEF LookCall, Call, attrs
<1>2. CASE LookAgain(t)
  BY <1>2, ReturnLabel DEF LookAgain, attrs
<1> QED BY <1>1, <1>2 DEF Look

(* The kinds of steps that callers take.                                   *)
LEMMA CallerKinds ==
    ASSUME TypeOK, FreshInv, ~Rivals, NEW t \in Threads, Caller(t)
    PROVE  \/ Quiet(t) \/ Checks(t) \/ NewQueue(t) \/ ReadQueue(t)
           \/ \E p \in Launches : Launch(t, p)
           \/ Sends(t) \/ FetchLine(t) \/ Get(t)
BY StartKinds, StopKinds, ExecuteKinds, LookKinds DEF Caller

-----------------------------------------------------------------------------
(* What the steps that are not quiet do.  Popen():                         *)
LEMMA LaunchEffect ==
    ASSUME TypeOK, NEW t \in Threads, NEW p \in Launches, Launch(t, p)
    PROVE  /\ At(t, "launch") /\ emu[p].st = "none" /\ emu'[p].st = "running" /\ process' = p
           /\ OthersRest(t) /\ th'[t].pc = "checkStdout" /\ th'[t].to = p
           /\ UNCHANGED <<lineQueue, rdr, queue, abandoned>>
           /\ \A q \in Launches : emu'[q].out = emu[q].out /\ emu'[q].inbox = emu[q].inbox
           /\ \A q \in Launches \ {p} : emu'[q].st = emu[q].st
<1>1. emu \in [Launches -> Process] /\ th \in [Threads -> CallerState]
  BY DEF TypeOK, PipesOK, CallersOK
<1> QED BY <1>1 DEF Launch, OthersRest, CallerState, Process

(* Lines 108 and 110: nobody can have dropped the handle.                  *)
LEMMA ChecksEffect ==
    ASSUME TypeOK, PairInv, NEW t \in Threads, Checks(t)
    PROVE  /\ process \in Launches /\ th[t].to = process /\ th'[t].to = process
           /\ OthersRest(t) /\ UNCHANGED <<process, lineQueue, emu, rdr, queue, abandoned>>
           /\ \/ At(t, "checkStdout") /\ th'[t].pc = "newQueue"
              \/ At(t, "readStdout") /\ th'[t].pc = "readQueue" /\ th'[t].from = process
<1>1. th[t].pc \in {"checkStdout", "readStdout"}
  BY DEF Checks, CheckStdout, ReadStdout
<1>2. process \in Launches /\ process # 0 /\ th[t].to = process
  BY <1>1 DEF PairInv, Launches, Installs
<1>3. th \in [Threads -> CallerState]
  BY DEF TypeOK, CallersOK
<1>4. CASE CheckStdout(t)
  BY <1>2, <1>3, <1>4 DEF CheckStdout, Goto, attrs, OthersRest, CallerState
<1>5. CASE ReadStdout(t)
  BY <1>2, <1>3, <1>5 DEF ReadStdout, attrs, OthersRest, CallerState
<1> QED BY <1>4, <1>5 DEF Checks

(* Line 109.                                                               *)
LEMMA NewQueueEffect ==
    ASSUME TypeOK, PairInv, NEW t \in Threads, NewQueue(t)
    PROVE  /\ At(t, "newQueue") /\ process \in Launches /\ th[t].to = process
           /\ lineQueue' = process /\ UNCHANGED <<process, emu, rdr, queue, abandoned>>
           /\ OthersRest(t) /\ th'[t].pc = "readStdout" /\ th'[t].to = process
<1>1. At(t, "newQueue") /\ UNCHANGED <<process, emu, rdr, queue, abandoned>>
  BY DEF NewQueue
<1>2. process \in Launches /\ process # 0 /\ th[t].to = process
  BY <1>1 DEF PairInv, Launches, Installs
<1>3. th \in [Threads -> CallerState]
  BY DEF TypeOK, CallersOK
<1>4. lineQueue' = process /\ th'[t] = [th[t] EXCEPT !.pc = "readStdout"] /\ OthersRest(t)
  BY <1>2, <1>3 DEF NewQueue, Goto, OthersRest
<1> QED BY <1>1, <1>2, <1>3, <1>4 DEF CallerState

(* Line 110: the reader is made.                                           *)
LEMMA ReadQueueEffect ==
    ASSUME TypeOK, PairInv, NEW t \in Threads, ReadQueue(t)
    PROVE  /\ At(t, "readQueue") /\ process \in Launches /\ lineQueue = process
           /\ rdr'[process] = [st |-> "created", stream |-> process, sink |-> process]
           /\ \A q \in Launches \ {process} : rdr'[q] = rdr[q]
           /\ UNCHANGED <<process, lineQueue, emu, queue, abandoned>>
           /\ OthersRest(t) /\ th'[t].pc = "newReader" /\ th'[t].to = th[t].to
<1>1. At(t, "readQueue") /\ UNCHANGED <<process, lineQueue, emu, queue, abandoned>>
  BY DEF ReadQueue, attrs
<1>2. /\ process \in Launches /\ process # 0 /\ th[t].to = process /\ lineQueue = process
      /\ th[t].from = process
  BY <1>1 DEF PairInv, Launches, Installs
<1>3. th \in [Threads -> CallerState] /\ rdr \in [Launches -> ReaderThread]
  BY DEF TypeOK, CallersOK, PipesOK
<1>4. /\ rdr' = [rdr EXCEPT ![process] =
                   [st |-> "created", stream |-> process, sink |-> process]]
      /\ th'[t] = [th[t] EXCEPT !.pc = "newReader"] /\ OthersRest(t)
  BY <1>2, <1>3 DEF ReadQueue, Goto, OthersRest
<1> QED BY <1>1, <1>2, <1>3, <1>4 DEF CallerState

(* Lines 180-181.                                                          *)
LEMMA SendEffect ==
    ASSUME TypeOK, FreshInv, NEW t \in Threads, Sends(t)
    PROVE  /\ At(t, "send") /\ process \in Launches /\ emu[process].st = "running"
           /\ OthersRest(t) /\ th'[t].pc = "fetch" /\ th'[t].to = process
           /\ th[t].got = <<>> /\ th'[t].got = <<>> /\ th'[t].cmd = th[t].cmd
           /\ UNCHANGED <<process, lineQueue, rdr, queue, abandoned>>
           /\ \A q \in Launches : emu'[q].out = emu[q].out /\ emu'[q].st = emu[q].st
           /\ \A q \in Launches \ {process} : emu'[q] = emu[q]
           /\ emu'[process].inbox = Append(emu[process].inbox, th[t].cmd)
<1>1. /\ emu' = [emu EXCEPT ![process].inbox = Append(@, th[t].cmd)]
      /\ th' = [th EXCEPT ![t].pc = "fetch", ![t].to = process]
      /\ UNCHANGED <<attrs, rdr, queue, abandoned>> /\ th[t].pc = "send"
      /\ emu[process].st = "running"
  BY DEF Send, Sends
<1>2. emu \in [Launches -> Process] /\ th \in [Threads -> CallerState] /\ process \in Launches
  BY DEF TypeOK, PipesOK, CallersOK, AttrsOK, LaunchOr0, Launches, Sends
<1>3. /\ th'[t].pc = "fetch" /\ th'[t].to = process /\ OthersRest(t)
      /\ th'[t].got = th[t].got /\ th'[t].cmd = th[t].cmd
      /\ \A q \in Launches : emu'[q].out = emu[q].out /\ emu'[q].st = emu[q].st
      /\ \A q \in Launches \ {process} : emu'[q] = emu[q]
      /\ emu'[process].inbox = Append(emu[process].inbox, th[t].cmd)
  BY <1>1, <1>2 DEF OthersRest, CallerState, Process
<1>4. th[t].got = <<>>
  BY <1>1 DEF FreshInv, Unsent
<1>5. UNCHANGED <<process, lineQueue, rdr, queue, abandoned>>
  BY <1>1 DEF attrs
<1> QED BY <1>1, <1>2, <1>3, <1>4, <1>5

(* Line 193, with the queue that is then the current one.                  *)
LEMMA FetchEffect ==
    ASSUME TypeOK, NEW t \in Threads, FetchLine(t)
    PROVE  /\ At(t, "fetch") /\ th'[t].pc = "get" /\ th'[t].from = lineQueue /\ OthersRest(t)
           /\ th'[t].to = th[t].to /\ th'[t].got = th[t].got /\ th'[t].cmd = th[t].cmd
           /\ UNCHANGED <<process, lineQueue, emu, rdr, queue, abandoned>>
<1>1. th \in [Threads -> CallerState]
  BY DEF TypeOK, CallersOK
<1>2. ~End(t, "timeout")
  BY <1>1 DEF FetchLine, End, CallerState
<1>3. /\ At(t, "fetch") /\ UNCHANGED <<process, lineQueue, emu, rdr, queue, abandoned>>
      /\ th' = [th EXCEPT ![t].pc = "get", ![t].from = lineQueue]
  BY <1>2 DEF FetchLine, Fetch, attrs
<1> QED BY <1>1, <1>3 DEF CallerState, OthersRest

(* Lines 193-204, for a line and for the end marker.                       *)
LEMMA GetEffect ==
    ASSUME TypeOK, NEW t \in Threads, Get(t),
           NEW q, q = th[t].from, NEW item, item = Head(queue[q])
    PROVE  /\ At(t, "get") /\ q \in LaunchOr0 /\ queue[q] # <<>>
           /\ queue' = [queue EXCEPT ![q] = Tail(queue[q])]
           /\ UNCHANGED <<process, lineQueue, emu, rdr>>
           /\ OthersRest(t) /\ abandoned \subseteq abandoned'
           /\ th'[t].cmd = th[t].cmd /\ th'[t].to = th[t].to /\ th'[t].from = q
           /\ item = EOF => /\ th'[t].pc = "release" /\ th'[t].result = "process"
                            /\ abandoned' = abandoned \cup ({th[t].to} \ {0})
           /\ item # EOF => /\ th'[t].got = Append(th[t].got, item) /\ UNCHANGED abandoned
                            /\ IF item.kind \in EndKinds
                               THEN th'[t].pc = "release" /\ th'[t].result = "answered"
                               ELSE th'[t].pc = "fetch"
<1>1. /\ th \in [Threads -> CallerState] /\ q \in LaunchOr0
  BY DEF TypeOK, CallersOK, CallerState
<1>2. /\ At(t, "get") /\ queue[q] # <<>> /\ queue' = [queue EXCEPT ![q] = Tail(queue[q])]
      /\ UNCHANGED <<process, lineQueue, emu, rdr>>
      /\ IF item.kind \in EndKinds
         THEN /\ th' = [th EXCEPT ![t].pc = "release", ![t].result = "answered",
                                  ![t].got = Append(@, item)]
              /\ UNCHANGED abandoned
         ELSE IF item = EOF THEN End(t, "process")
         ELSE /\ th' = [th EXCEPT ![t].pc = "fetch", ![t].got = Append(@, item)]
              /\ UNCHANGED abandoned
  BY DEF Get, Consume
<1>3. CASE item = EOF
  <2>1. End(t, "process")
    BY <1>2, <1>3 DEF EOF, EndKinds
  <2> QED BY <1>1, <1>2, <1>3, <2>1 DEF End, CallerState, OthersRest
<1>4. CASE item # EOF
  BY <1>1, <1>2, <1>4 DEF CallerState, OthersRest
<1> QED BY <1>3, <1>4

(* s3270 writes an answer, or its beginning when it dies, or nothing.      *)
LEMMA EmulatorEffect ==
    ASSUME TypeOK, NEW p \in Launches, Emulator(p)
    PROVE  /\ StatusKept /\ UNCHANGED <<process, lineQueue, rdr, queue, th, abandoned>>
           /\ \A q \in Launches \ {p} : emu'[q] = emu[q]
           /\ \/ emu'[p].out = emu[p].out /\ emu'[p].inbox \in {emu[p].inbox, <<>>}
              \/ /\ emu[p].st = "running" /\ emu'[p].st = "running"
                 /\ emu[p].inbox # <<>> /\ emu'[p].inbox = Tail(emu[p].inbox)
                 /\ \E r \in Replies :
                       emu'[p].out = emu[p].out \o Answered(Head(emu[p].inbox), r)
              \/ /\ emu[p].st = "running" /\ emu'[p].st = "dying"
                 /\ emu[p].inbox # <<>> /\ emu'[p].inbox = <<>>
                 /\ \E r \in Replies : \E n \in 0..(Len(r) - 1) :
                       emu'[p].out = emu[p].out \o SubSeq(Answered(Head(emu[p].inbox), r), 1, n)
<1>1. StatusKept /\ UNCHANGED <<process, lineQueue, rdr, queue, th, abandoned>>
  BY EmulatorStatus DEF attrs
<1>2. emu \in [Launches -> Process] /\ emu[p].out \in Seq(Lines) /\ emu[p].inbox \in Seq(Commands)
  BY DEF TypeOK, PipesOK, Process
<1>3. CASE Answer(p)
  <2>1. PICK r \in Replies :
            emu' = [emu EXCEPT ![p].inbox = Tail(@),
                               ![p].out = @ \o Answered(Head(emu[p].inbox), r)]
    BY <1>3 DEF Answer
  <2>2. emu[p].st = "running" /\ emu[p].inbox # <<>>
    BY <1>3 DEF Answer
  <2>3. /\ emu'[p].inbox = Tail(emu[p].inbox) /\ emu'[p].st = emu[p].st
        /\ emu'[p].out = emu[p].out \o Answered(Head(emu[p].inbox), r)
        /\ \A q \in Launches \ {p} : emu'[q] = emu[q]
    BY <1>2, <2>1 DEF Process
  <2> QED BY <1>1, <2>2, <2>3
<1>4. CASE Die(p)
  <2>1. PICK r \in Replies : \E n \in 0..(Len(r) - 1) :
          /\ n > 0 => emu[p].inbox # <<>>
          /\ emu' = [emu EXCEPT ![p].st = "dying", ![p].inbox = <<>>,
                       ![p].out = IF n = 0 THEN @ ELSE
                           @ \o SubSeq(Answered(Head(emu[p].inbox), r), 1, n)]
    BY <1>4 DEF Die
  <2>2. PICK n \in 0..(Len(r) - 1) :
          /\ n > 0 => emu[p].inbox # <<>>
          /\ emu' = [emu EXCEPT ![p].st = "dying", ![p].inbox = <<>>,
                       ![p].out = IF n = 0 THEN @ ELSE
                           @ \o SubSeq(Answered(Head(emu[p].inbox), r), 1, n)]
    BY <2>1
  <2>3. emu[p].st = "running" /\ Len(r) \in Nat
    BY <1>4, RepliesAssumption DEF Die
  <2>4. /\ emu'[p].inbox = <<>> /\ emu'[p].st = "dying"
        /\ emu'[p].out = IF n = 0 THEN emu[p].out ELSE
                             emu[p].out \o SubSeq(Answered(Head(emu[p].inbox), r), 1, n)
        /\ \A q \in Launches \ {p} : emu'[q] = emu[q]
    BY <1>2, <2>2 DEF Process
  <2>5. CASE n = 0
    BY <1>1, <2>4, <2>5
  <2>6. CASE n # 0
    <3>1. n > 0
      BY <2>3, <2>6
    <3> QED BY <1>1, <2>2, <2>3, <2>4, <2>6, <3>1
  <2> QED BY <2>5, <2>6
<1>5. CASE Exit(p)
  BY <1>1, <1>2, <1>5 DEF Exit, Process
<1> QED BY <1>3, <1>4, <1>5 DEF Emulator

(* A reader thread hands a line on, or the end marker.                     *)
LEMMA ReaderEffect ==
    ASSUME TypeOK, StreamInv, NEW q \in Launches, Reader(q)
    PROVE  /\ rdr[q].st = "running" /\ UNCHANGED <<process, lineQueue, th, abandoned>>
           /\ \A k \in Launches : emu'[k].st = emu[k].st /\ emu'[k].inbox = emu[k].inbox
           /\ \A k \in Launches : /\ rdr'[k].stream = rdr[k].stream /\ rdr'[k].sink = rdr[k].sink
                                  /\ (rdr'[k].st = "none") <=> (rdr[k].st = "none")
           /\ \A k \in Launches \ {q} : rdr'[k] = rdr[k] /\ emu'[k] = emu[k]
           /\ \A k \in LaunchOr0 \ {q} : queue'[k] = queue[k]
           /\ \A i \in DOMAIN queue[q] : queue[q][i] # EOF
           /\ \/ /\ emu[q].out # <<>> /\ queue'[q] = Append(queue[q], Head(emu[q].out))
                 /\ emu'[q].out = Tail(emu[q].out) /\ rdr'[q].st = "running"
              \/ /\ emu[q].out = <<>> /\ emu'[q].out = <<>> /\ emu[q].st # "running"
                 /\ queue'[q] = Append(queue[q], EOF) /\ rdr'[q].st = "done"
<1>1. /\ rdr[q].st = "running" /\ rdr[q].stream = q /\ rdr[q].sink = q
      /\ UNCHANGED <<process, lineQueue, th, abandoned>>
  BY DEF Reader, ReadLine, ReadEOF, attrs, StreamInv
<1>2. /\ queue \in [LaunchOr0 -> Seq(Lines \cup {EOF})] /\ q \in LaunchOr0
      /\ emu \in [Launches -> Process] /\ rdr \in [Launches -> ReaderThread]
  BY DEF TypeOK, PipesOK, LaunchOr0, Launches
<1>3. \A i \in DOMAIN queue[q] : queue[q][i] # EOF
  BY <1>1 DEF StreamInv
<1>4. CASE ReadLine(q)
  <2>1. /\ emu[q].out # <<>> /\ rdr' = rdr
        /\ queue' = [queue EXCEPT ![q] = Append(queue[q], Head(emu[q].out))]
        /\ emu' = [emu EXCEPT ![q].out = Tail(emu[q].out)]
    BY <1>1, <1>4 DEF ReadLine
  <2> QED BY <1>1, <1>2, <1>3, <2>1 DEF Process
<1>5. CASE ReadEOF(q)
  <2>1. /\ emu[q].out = <<>> /\ emu' = emu /\ emu[q].st # "running"
        /\ rdr' = [rdr EXCEPT ![q].st = "done"]
        /\ queue' = [queue EXCEPT ![q] = Append(queue[q], EOF)]
    BY <1>1, <1>5 DEF ReadEOF
  <2> QED BY <1>1, <1>2, <1>3, <2>1 DEF ReaderThread
<1> QED BY <1>4, <1>5 DEF Reader

-----------------------------------------------------------------------------
(* Line queue 0 is that of no launch.                                      *)
LEMMA ZeroOr == 0 \in LaunchOr0 /\ 0 \notin Launches /\ Launches \subseteq LaunchOr0
BY BoundsAssumption DEF LaunchOr0, Launches

(* The pairing is inductive.  A caller takes a line from a queue:          *)
LEMMA GetKeepsPairs ==
    ASSUME TypeOK, PairFree, NEW t \in Threads, Get(t)
    PROVE  PairFree'
<1> USE DEF PairFree
<1>0. PICK q, item : q = th[t].from /\ item = Head(queue[q])
  OBVIOUS
<1>1. /\ At(t, "get") /\ q \in LaunchOr0 /\ queue[q] # <<>>
      /\ queue' = [queue EXCEPT ![q] = Tail(queue[q])]
      /\ UNCHANGED <<process, lineQueue, emu, rdr>>
      /\ OthersRest(t) /\ th'[t].pc \in {"fetch", "release"}
  BY <1>0, GetEffect
<1>2. queue \in [LaunchOr0 -> Seq(Lines \cup {EOF})] /\ queue[q] \in Seq(Lines \cup {EOF})
  BY <1>1 DEF TypeOK, PipesOK
<1>3. q \in Launches
  BY <1>1 DEF StreamInv, LaunchOr0, Launches
<1>4. queue'[q] = Tail(queue[q]) /\ \A k \in LaunchOr0 \ {q} : queue'[k] = queue[k]
  BY <1>1, <1>2
<1>5. /\ Len(queue[q]) \in Nat /\ Len(Tail(queue[q])) = Len(queue[q]) - 1
      /\ \A i \in DOMAIN Tail(queue[q]) :
            /\ i \in Nat /\ i + 1 \in DOMAIN queue[q] /\ Tail(queue[q])[i] = queue[q][i + 1]
  BY <1>1, <1>2
<1>6. PairInv' /\ FreshInv'
  BY <1>1 DEF PairInv, QueueDue, FreshInv, OthersRest, Installs, Unsent
<1>7. ASSUME NEW i \in DOMAIN queue'[q], queue'[q][i] = EOF
      PROVE  i = Len(queue'[q]) /\ rdr[q].st = "done"
  <2>1. i + 1 \in DOMAIN queue[q] /\ queue[q][i + 1] = EOF
    BY <1>4, <1>5, <1>7
  <2>2. i + 1 = Len(queue[q]) /\ rdr[q].st = "done"
    BY <1>3, <2>1 DEF StreamInv
  <2> QED BY <1>4, <1>5, <1>7, <2>2
<1>8. rdr[q].st # "none"
  BY <1>1, <1>3 DEF StreamInv
<1>9. StreamInv'
  <2>1. queue'[0] = <<>>
    BY <1>3, <1>4, ZeroOr DEF StreamInv
  <2>2. ASSUME NEW k \in Launches, k # q PROVE queue'[k] = queue[k]
    BY <1>4, <2>2 DEF LaunchOr0, Launches
  <2> QED BY <1>1, <1>7, <1>8, <2>1, <2>2 DEF StreamInv
<1> QED BY <1>6, <1>9

(* The other steps of callers.                                             *)
LEMMA CallerKeepsPairs ==
    ASSUME TypeOK, PairFree, ~Rivals, NEW t \in Threads, Caller(t)
    PROVE  PairFree'
<1> USE DEF PairFree
<1>1. CASE Quiet(t)
  <2>1. PairInv'
    BY <1>1 DEF Quiet, PairInv, QueueDue, OthersRest, StatusKept, RolesKept, Installs
  <2>2. StreamInv'
    BY <1>1 DEF Quiet, StreamInv, StatusKept, PipesKept, RolesKept
  <2>3. FreshInv'
    BY <1>1 DEF Quiet, FreshInv, OthersRest
  <2> QED BY <2>1, <2>2, <2>3
<1>2. ASSUME NEW p \in Launches, Launch(t, p) PROVE PairFree'
  <2>1. \A u \in Threads \ {t} : th[u].pc \notin Installs
    BY <1>2, LaunchEffect DEF Rivals, InControl, InTry, Installs
  <2>2. PairInv'
    BY <1>2, <2>1, LaunchEffect DEF PairInv, QueueDue, OthersRest, Installs
  <2>3. StreamInv'
    BY <1>2, LaunchEffect DEF StreamInv, PairInv
  <2>4. FreshInv'
    BY <1>2, LaunchEffect DEF FreshInv, OthersRest, Unsent
  <2> QED BY <2>2, <2>3, <2>4
<1>3. CASE NewQueue(t)
  <2>1. \A u \in Threads \ {t} : th[u].pc \notin Installs
    BY <1>3, NewQueueEffect DEF Rivals, InControl, InTry, Installs
  <2>2. PairInv'
    <3>1. /\ emu[process].st # "none" /\ rdr[process].st = "none" /\ process \in Launches
          /\ UNCHANGED <<process, emu, rdr>> /\ lineQueue' = process
          /\ th'[t].to = process /\ th'[t].pc = "readStdout"
      BY <1>3, NewQueueEffect DEF PairInv, Installs
    <3>2. \A u \in Threads \ {t} : th'[u].pc \notin Installs
      BY <1>3, <2>1, NewQueueEffect DEF OthersRest
    <3>3. \A p \in Launches : emu[p].st = "none" => p # process /\ rdr[p].st = "none"
      BY <3>1 DEF PairInv
    <3> QED BY <3>1, <3>2, <3>3 DEF PairInv
  <2>3. StreamInv'
    BY <1>3, NewQueueEffect DEF StreamInv
  <2>4. FreshInv'
    BY <1>3, NewQueueEffect DEF FreshInv, OthersRest, Unsent
  <2> QED BY <2>2, <2>3, <2>4
<1>4. CASE ReadQueue(t)
  <2>1. \A u \in Threads \ {t} : th[u].pc \notin Installs
    BY <1>4, ReadQueueEffect DEF Rivals, InControl, InTry, Installs
  <2>0. emu[process].st # "none" /\ rdr[process].st = "none"
    BY <1>4, ReadQueueEffect DEF PairInv, Installs
  <2>2. PairInv'
    <3>1. \A u \in Threads : th'[u].pc \notin Installs
      BY <1>4, <2>1, ReadQueueEffect DEF OthersRest, Installs
    <3>2. \A p \in Launches : emu'[p].st = "none" => lineQueue' # p /\ rdr'[p].st = "none"
      BY <1>4, <2>0, ReadQueueEffect DEF PairInv
    <3>3. process' = 0 \/ process' = lineQueue'
      BY <1>4, ReadQueueEffect
    <3> QED BY <3>1, <3>2, <3>3 DEF PairInv
  <2>3. StreamInv'
    BY <1>4, <2>0, ReadQueueEffect DEF StreamInv
  <2>4. FreshInv'
    BY <1>4, ReadQueueEffect DEF FreshInv, OthersRest, Unsent
  <2> QED BY <2>2, <2>3, <2>4
<1>5. CASE Sends(t)
  <2>1. \A u \in Threads : (th[u].pc \in Installs \/ th'[u].pc \in Installs) => th'[u] = th[u]
    BY <1>5, SendEffect DEF OthersRest, Installs
  <2>2. PairInv'
    BY <1>5, <2>1, SendEffect DEF PairInv, QueueDue, Installs
  <2>3. StreamInv'
    BY <1>5, SendEffect DEF StreamInv
  <2>4. FreshInv'
    BY <1>5, SendEffect DEF FreshInv, OthersRest, Unsent
  <2> QED BY <2>2, <2>3, <2>4
<1>6. CASE FetchLine(t)
  BY <1>6, FetchEffect DEF PairInv, QueueDue, StreamInv, FreshInv, OthersRest, Installs, Unsent
<1>7. CASE Get(t)
  BY <1>7, GetKeepsPairs
<1>8. CASE Checks(t)
  <2>1. \A u \in Threads \ {t} : th[u].pc \notin Installs /\ th'[u].pc \notin Installs
    BY <1>8, ChecksEffect DEF Rivals, InControl, InTry, Installs, OthersRest
  <2>2. PairInv'
    BY <1>8, <2>1, ChecksEffect DEF PairInv, QueueDue, Installs
  <2>3. StreamInv'
    BY <1>8, ChecksEffect DEF StreamInv
  <2>4. FreshInv'
    BY <1>8, ChecksEffect DEF FreshInv, OthersRest, Unsent
  <2> QED BY <2>2, <2>3, <2>4
<1> QED BY <1>1, <1>2, <1>3, <1>4, <1>5, <1>6, <1>7, <1>8, CallerKinds

(* Then those of s3270 and of the reader threads.                          *)
LEMMA OthersKeepPairs ==
    ASSUME TypeOK, PairFree, NEW q \in Launches, Emulator(q) \/ Reader(q)
    PROVE  PairFree'
<1> USE DEF PairFree
<1>1. CASE Emulator(q)
  <2>0. StatusKept /\ UNCHANGED <<process, lineQueue, rdr, queue, th>>
    BY <1>1, EmulatorEffect
  <2>1. PairInv' /\ FreshInv'
    BY <2>0 DEF PairInv, QueueDue, FreshInv, StatusKept, Installs
  <2>2. \A k \in Launches : rdr[k].st = "done" => emu'[k].out = emu[k].out
    BY <1>1, EmulatorEffect DEF StreamInv
  <2>3. StreamInv'
    BY <2>0, <2>2 DEF StreamInv, StatusKept
  <2> QED BY <2>1, <2>3
<1>2. CASE Reader(q)
  <2>1. PairInv' /\ FreshInv'
    BY <1>2, ReaderEffect DEF PairInv, QueueDue, FreshInv, Installs
  <2>2. PICK old \in Seq(Lines \cup {EOF}), item \in {EOF, Head(emu[q].out)} :
            /\ old = queue[q] /\ queue'[q] = Append(old, item)
            /\ \/ item = EOF /\ rdr'[q].st = "done"
               \/ item = Head(emu[q].out) /\ emu[q].out # <<>>
    <3>1. queue[q] \in Seq(Lines \cup {EOF})
      BY ZeroOr DEF TypeOK, PipesOK
    <3>2. \/ queue'[q] = Append(queue[q], Head(emu[q].out)) /\ emu[q].out # <<>>
          \/ queue'[q] = Append(queue[q], EOF) /\ rdr'[q].st = "done"
      BY <1>2, ReaderEffect
    <3> QED BY <3>1, <3>2
  <2>3. /\ Len(old) \in Nat /\ Len(Append(old, item)) = Len(old) + 1
        /\ \A i \in DOMAIN Append(old, item) :
               \/ i \in DOMAIN old /\ Append(old, item)[i] = old[i]
               \/ i = Len(old) + 1 /\ Append(old, item)[i] = item
    BY <2>2
  <2>4. emu[q].out # <<>> => Head(emu[q].out) # EOF
    <3>1. emu[q].out \in Seq(Lines)
      BY DEF TypeOK, PipesOK, Process
    <3>2. EOF \notin Lines
      BY DEF Lines, EOF, Kinds
    <3> QED BY <3>1, <3>2
  <2>5. \A i \in DOMAIN queue'[q] :
            queue'[q][i] = EOF => i = Len(queue'[q]) /\ rdr'[q].st = "done"
    <3>1. \A i \in DOMAIN old : old[i] # EOF
      BY <1>2, <2>2, ReaderEffect
    <3>2. item = EOF => rdr'[q].st = "done"
      BY <2>2, <2>4
    <3>3. \A i \in DOMAIN Append(old, item) :
              Append(old, item)[i] = EOF => i = Len(Append(old, item)) /\ item = EOF
      BY <2>3, <3>1
    <3> QED BY <2>2, <3>2, <3>3
  <2>6. emu[q].st # "none"
    BY <1>2, ReaderEffect DEF PairInv
  <2>7. /\ queue'[0] = <<>>
        /\ \A k \in Launches \ {q} : rdr'[k] = rdr[k] /\ emu'[k] = emu[k] /\ queue'[k] = queue[k]
    BY <1>2, ZeroOr, ReaderEffect DEF StreamInv
  <2>8. /\ rdr'[q].st # "none" /\ rdr'[q].stream = q /\ rdr'[q].sink = q
        /\ rdr'[q].st = "done" => emu'[q].st \notin {"none", "running"} /\ emu'[q].out = <<>>
    BY <1>2, <2>6, ReaderEffect DEF StreamInv
  <2>9. StreamInv'
    BY <2>5, <2>7, <2>8 DEF StreamInv
  <2> QED BY <2>1, <2>9
<1> QED BY <1>1, <1>2

LEMMA PairsStep == ASSUME TypeOK, PairFree, ~Rivals, Next PROVE PairFree'
BY CallerKeepsPairs, OthersKeepPairs DEF Next

-----------------------------------------------------------------------------
(* A caller that waits reads from the queue of the process it wrote to.    *)
CallerInv ==
    \A t \in Threads :
        /\ Waits(t) => th[t].to = lineQueue /\ lineQueue \in Launches
        /\ At(t, "get") => th[t].from = lineQueue

(* No line of an answer is on its way from process q.                      *)
Silent(q) == /\ emu[q].out = <<>>
             /\ \A i \in DOMAIN queue[q] : queue[q][i] = EOF

(* Nothing of an answer to caller t has been written, or only one answer.  *)
Underway(t, q) ==
    \/ Silent(q) /\ th[t].got = <<>> /\ emu[q].inbox \in {<<>>, <<th[t].cmd>>}
    \/ /\ emu[q].inbox = <<>>
       /\ \E r \in Replies : FirstOf(th[t].got, queue[q], emu[q].out, th[t].cmd, r)

(* Unless a command was given up, all that a launch has in its pipes is    *)
(* for the caller that waits for it.                                       *)
PipeInv ==
    \A q \in Launches \ abandoned :
        /\ (\A t \in Threads : ~(Waits(t) /\ th[t].to = q)) => Silent(q) /\ emu[q].inbox = <<>>
        /\ \A t \in Threads : Waits(t) /\ th[t].to = q => Underway(t, q)

OwnFree    == CallerInv /\ PipeInv /\ ResponseIsOwn
AnswerFree == PairFree /\ OwnFree
AnswerInv  == \/ {"rivals", "early"} \cap seen # {}
              \/ ~Rivals /\ ~Early /\ AnswerFree

(* A step of a caller that neither sets a launch up nor reads or writes.   *)
LEMMA QuietKeepsOwn ==
    ASSUME TypeOK, OwnFree, NEW t \in Threads, Quiet(t)
    PROVE  OwnFree'
<1> USE DEF OwnFree, OthersRest, Quiet
<1>1. CallerInv'
  BY DEF CallerInv, Waits
<1>2. \A q \in Launches : Silent(q) => Silent(q)'
  BY DEF Silent, PipesKept
<1>3. Waits(t) => th[t].to \in abandoned'
  BY ZeroOr DEF CallerInv
<1>4. PipeInv'
  <2> SUFFICES ASSUME NEW q \in Launches \ abandoned'
               PROVE  /\ (\A u \in Threads : ~(Waits(u)' /\ th'[u].to = q))
                             => Silent(q)' /\ emu'[q].inbox = <<>>
                      /\ \A u \in Threads : Waits(u)' /\ th'[u].to = q => Underway(u, q)'
    BY DEF PipeInv
  <2>1. q \in Launches \ abandoned /\ emu'[q].inbox \in {emu[q].inbox, <<>>}
    BY DEF PipesKept
  <2>2. ASSUME \A u \in Threads : ~(Waits(u)' /\ th'[u].to = q)
        PROVE  Silent(q)' /\ emu'[q].inbox = <<>>
    <3>1. \A u \in Threads : ~(Waits(u) /\ th[u].to = q)
      BY <1>3, <2>2 DEF Waits
    <3> QED BY <1>2, <2>1, <3>1 DEF PipeInv
  <2>3. ASSUME NEW u \in Threads, Waits(u)', th'[u].to = q
        PROVE  Underway(u, q)'
    <3>1. th'[u] = th[u] /\ Underway(u, q)
      BY <2>1, <2>3 DEF Waits, PipeInv
    <3>2. CASE Silent(q) /\ th[u].got = <<>> /\ emu[q].inbox \in {<<>>, <<th[u].cmd>>}
      BY <1>2, <2>1, <3>1, <3>2 DEF Underway
    <3>3. CASE /\ emu[q].inbox = <<>>
               /\ \E r \in Replies : FirstOf(th[u].got, queue[q], emu[q].out, th[u].cmd, r)
      BY <2>1, <3>1, <3>3 DEF Underway, PipesKept
    <3> QED BY <3>1, <3>2, <3>3 DEF Underway
  <2> QED BY <2>2, <2>3
<1>5. ResponseIsOwn'
  BY DEF ResponseIsOwn, Responded
<1> QED BY <1>1, <1>4, <1>5

(* A step that changes neither the pipes nor the callers that wait.        *)
LEMMA SetUpKeepsOwn ==
    ASSUME OwnFree, NEW t \in Threads, OthersRest(t),
           ~Waits(t), ~Waits(t)', ~Responded(t)', UNCHANGED <<queue, abandoned>>,
           \A q \in Launches : emu'[q].out = emu[q].out /\ emu'[q].inbox = emu[q].inbox,
           UNCHANGED lineQueue \/ \A u \in Threads : ~InTry(u)
    PROVE  OwnFree'
<1> USE DEF OwnFree
<1>1. \A u \in Threads : /\ Waits(u)' => Waits(u) /\ th'[u] = th[u]
                         /\ Waits(u) => Waits(u)' /\ th'[u] = th[u] /\ UNCHANGED lineQueue
                         /\ Responded(u)' => Responded(u) /\ th'[u] = th[u]
  BY DEF OthersRest, Waits, InTry, Responded
<1>2. CallerInv'
  BY <1>1 DEF CallerInv, Waits
<1>3. ASSUME NEW q \in Launches
      PROVE  /\ Silent(q)' <=> Silent(q)
             /\ \A u \in Threads : Waits(u) /\ Underway(u, q) => Underway(u, q)'
  BY <1>1 DEF Silent, Underway
<1>4. PipeInv'
  BY <1>1, <1>3 DEF PipeInv
<1>5. ResponseIsOwn'
  BY <1>1 DEF ResponseIsOwn
<1> QED BY <1>2, <1>4, <1>5

(* The command is written to the process whose queue will be read, with    *)
(* nothing else on its way.                                                *)
LEMMA SendKeepsOwn ==
    ASSUME TypeOK, PairFree, OwnFree, LockInv, ~Early, NEW t \in Threads, Sends(t)
    PROVE  OwnFree'
<1> USE DEF OwnFree
<1>1. /\ At(t, "send") /\ process \in Launches
      /\ OthersRest(t) /\ th'[t].pc = "fetch" /\ th'[t].to = process
      /\ th[t].got = <<>> /\ th'[t].got = <<>> /\ th'[t].cmd = th[t].cmd
      /\ UNCHANGED <<process, lineQueue, rdr, queue, abandoned>>
      /\ \A q \in Launches : emu'[q].out = emu[q].out
      /\ \A q \in Launches \ {process} : emu'[q] = emu[q]
      /\ emu'[process].inbox = Append(emu[process].inbox, th[t].cmd)
  BY SendEffect DEF PairFree
<1>2. \A u \in Threads : ~Waits(u) /\ (Waits(u)' => u = t)
  BY <1>1 DEF LockInv, Waits, InTry, OthersRest
<1>3. process = lineQueue
  BY <1>1, ZeroOr DEF PairFree, PairInv, QueueDue, Early, InTry
<1>4. CallerInv'
  <2>1. \A u \in Threads : ~At(u, "get")'
    BY <1>1, <1>2 DEF Waits
  <2> QED BY <1>1, <1>2, <1>3, <2>1 DEF CallerInv
<1>5. ASSUME NEW q \in Launches \ abandoned
      PROVE  Silent(q)' /\ emu[q].inbox = <<>>
  BY <1>1, <1>2 DEF PipeInv, Silent
<1>6. th[t].cmd \in Commands /\ Append(<<>>, th[t].cmd) = <<th[t].cmd>>
  BY <1>1 DEF TypeOK, CallersOK, InTry
<1>7. ASSUME NEW q \in Launches \ abandoned, q = process PROVE Underway(t, q)'
  <2>1. Silent(q)' /\ emu'[q].inbox = <<th'[t].cmd>> /\ th'[t].got = <<>>
    BY <1>1, <1>5, <1>6, <1>7
  <2> QED BY <2>1 DEF Underway
<1>8. \A q \in Launches \ abandoned : q # process => emu'[q].inbox = <<>>
  BY <1>1, <1>5
<1>9. PipeInv'
  BY <1>1, <1>2, <1>5, <1>7, <1>8 DEF PipeInv, Waits
<1>10. ResponseIsOwn'
  <2>1. \A u \in Threads : Responded(u)' => th'[u] = th[u]
    BY <1>1 DEF Responded, OthersRest
  <2> QED BY <1>1, <2>1 DEF ResponseIsOwn, Responded
<1> QED BY <1>4, <1>9, <1>10

(* get() is called on the current line queue.                              *)
LEMMA FetchKeepsOwn ==
    ASSUME TypeOK, OwnFree, NEW t \in Threads, FetchLine(t)
    PROVE  OwnFree'
<1> USE DEF OwnFree
<1>1. /\ At(t, "fetch") /\ th'[t].pc = "get" /\ th'[t].from = lineQueue /\ OthersRest(t)
      /\ th'[t].to = th[t].to /\ th'[t].got = th[t].got /\ th'[t].cmd = th[t].cmd
      /\ UNCHANGED <<process, lineQueue, emu, rdr, queue, abandoned>>
  BY FetchEffect
<1>2. \A u \in Threads : (Waits(u)' <=> Waits(u)) /\ th'[u].to = th[u].to
  BY <1>1 DEF Waits, OthersRest
<1>3. CallerInv'
  BY <1>1, <1>2 DEF CallerInv, OthersRest
<1>4. \A u \in Threads, q \in Launches : Underway(u, q) => Underway(u, q)'
  BY <1>1 DEF Underway, Silent, OthersRest
<1>5. PipeInv'
  BY <1>1, <1>2, <1>4 DEF PipeInv, Silent
<1>6. ResponseIsOwn'
  BY <1>1 DEF ResponseIsOwn, Responded, OthersRest
<1> QED BY <1>3, <1>5, <1>6

(* The caller takes a line of its own answer, unless it or another caller  *)
(* has given a command up.                                                 *)
LEMMA GetKeepsOwn ==
    ASSUME TypeOK, OwnFree, LockInv, NEW t \in Threads, Get(t)
    PROVE  OwnFree'
<1>0. PICK q, item : q = th[t].from /\ item = Head(queue[q])
  OBVIOUS
<1>1. /\ At(t, "get") /\ q = lineQueue /\ q = th[t].to /\ q \in Launches /\ Waits(t)
      /\ queue[q] # <<>> /\ queue' = [queue EXCEPT ![q] = Tail(queue[q])]
      /\ UNCHANGED <<process, lineQueue, emu, rdr>>
      /\ OthersRest(t) /\ th'[t].pc \in {"fetch", "release"} /\ abandoned \subseteq abandoned'
      /\ th'[t].cmd = th[t].cmd /\ th'[t].to = q /\ th'[t].from = q
  <2>1. /\ At(t, "get") /\ queue[q] # <<>> /\ queue' = [queue EXCEPT ![q] = Tail(queue[q])]
        /\ UNCHANGED <<process, lineQueue, emu, rdr>>
        /\ OthersRest(t) /\ th'[t].pc \in {"fetch", "release"} /\ abandoned \subseteq abandoned'
        /\ th'[t].cmd = th[t].cmd /\ th'[t].to = th[t].to /\ th'[t].from = q
    BY <1>0, GetEffect
  <2> QED BY <1>0, <2>1 DEF OwnFree, CallerInv, Waits
<1>2. /\ queue \in [LaunchOr0 -> Seq(Lines \cup {EOF})] /\ queue[q] \in Seq(Lines \cup {EOF})
      /\ emu[q].out \in Seq(Lines) /\ th[t].got \in Seq(Lines) /\ th[t].cmd \in Commands
  <2>1. At(t, "get") => InTry(t)
    BY DEF InTry
  <2> QED BY <1>1, <2>1, ZeroOr DEF TypeOK, PipesOK, CallersOK, CallerState, Process
<1>3. queue'[q] = Tail(queue[q]) /\ \A k \in Launches \ {q} : queue'[k] = queue[k]
  BY <1>1, <1>2, ZeroOr
<1>4. item = queue[q][1] /\ 1 \in DOMAIN queue[q] /\ item \in Lines \cup {EOF}
  BY <1>0, <1>1, <1>2
<1>5. \A u \in Threads \ {t} : ~Waits(u) /\ ~Waits(u)' /\ ~Responded(u)' /\ th'[u].pc # "get"
  BY <1>1 DEF LockInv, InTry, Waits, OthersRest, Responded
<1>6. CallerInv'
  BY <1>1, <1>5 DEF OwnFree, CallerInv, Waits
<1>7. \A k \in Launches \ {q} : /\ Silent(k)' <=> Silent(k)
                                /\ \A u \in Threads : ~(Waits(u) /\ th[u].to = k)
  BY <1>1, <1>3, <1>5 DEF Silent
<1>8. \A k \in Launches \ abandoned : k # q => Silent(k)' /\ emu'[k].inbox = <<>>
  BY <1>1, <1>7 DEF OwnFree, PipeInv
<1>9. q \notin abandoned => Underway(t, q)
  BY <1>1 DEF OwnFree, PipeInv
<1>a. ASSUME q \notin abandoned' =>
               IF Waits(t)' THEN Underway(t, q)' ELSE Silent(q)' /\ emu'[q].inbox = <<>>
      PROVE  PipeInv'
  BY <1>1, <1>5, <1>8, <1>a DEF PipeInv
<1>10. CASE item = EOF
  <2>1. /\ th'[t].pc = "release" /\ th'[t].result = "process"
        /\ abandoned' = abandoned \cup ({th[t].to} \ {0})
    BY <1>0, <1>10, GetEffect
  <2>2. q \in abandoned'
    BY <1>1, <2>1, ZeroOr
  <2>3. PipeInv'
    BY <1>a, <2>2
  <2>4. ResponseIsOwn'
    BY <1>5, <2>1 DEF ResponseIsOwn, Responded
  <2> QED BY <1>6, <2>3, <2>4 DEF OwnFree
<1>11. CASE item # EOF
  <2>1. /\ th'[t].got = Append(th[t].got, item) /\ UNCHANGED abandoned
        /\ IF item.kind \in EndKinds
           THEN th'[t].pc = "release" /\ th'[t].result = "answered"
           ELSE th'[t].pc = "fetch"
    BY <1>0, <1>11, GetEffect
  <2>2. ASSUME q \notin abandoned
        PROVE  /\ emu[q].inbox = <<>>
               /\ \E r \in Replies :
                    /\ FirstOf(th'[t].got, queue'[q], emu[q].out, th[t].cmd, r)
                    /\ item.kind \in EndKinds =>
                          th'[t].got = Answered(th[t].cmd, r) /\ Silent(q)'
    <3>1. ~Silent(q)
      BY <1>4, <1>11 DEF Silent
    <3>2. PICK r \in Replies : /\ emu[q].inbox = <<>>
                               /\ FirstOf(th[t].got, queue[q], emu[q].out, th[t].cmd, r)
      BY <1>9, <2>2, <3>1 DEF Underway
    <3>3. FirstOf(Append(th[t].got, Head(queue[q])), Tail(queue[q]), emu[q].out, th[t].cmd, r)
      BY <1>0, <1>1, <1>2, <1>11, <3>2, TakeLine
    <3>4. FirstOf(th'[t].got, queue'[q], emu[q].out, th[t].cmd, r)
      BY <1>0, <1>3, <2>1, <3>3
    <3>5. ASSUME item.kind \in EndKinds
          PROVE  th'[t].got = Answered(th[t].cmd, r) /\ Silent(q)'
      <4>1. PICK had \in Seq(Lines), old \in Seq(Lines \cup {EOF}), out \in Seq(Lines) :
                had = th[t].got /\ old = queue[q] /\ out = emu[q].out
        BY <1>2
      <4> DEFINE got == Append(had, item)
                 lines == Tail(old)
      <4>2. got = th'[t].got /\ lines = queue'[q] /\ out = emu'[q].out
        BY <1>1, <1>3, <2>1, <4>1
      <4>3. /\ got \in Seq(Lines) /\ lines \in Seq(Lines \cup {EOF})
            /\ got # <<>> /\ got[Len(got)] = item
        <5>1. item \in Lines /\ old # <<>>
          BY <1>1, <1>4, <1>11, <4>1
        <5> QED BY <5>1
      <4>4. FirstOf(got, lines, out, th[t].cmd, r)
        BY <3>4, <4>1, <4>2
      <4> HIDE DEF got, lines
      <4>5. /\ got = Answered(th[t].cmd, r) /\ out = <<>>
            /\ \A i \in DOMAIN lines : lines[i] = EOF
        BY <1>2, <3>5, <4>1, <4>3, <4>4, WholeAnswer
      <4> QED BY <4>2, <4>5 DEF Silent
    <3> QED BY <3>2, <3>4, <3>5
  <2>3. CASE item.kind \in EndKinds
    <3>1. PipeInv'
      BY <1>1, <1>a, <2>1, <2>2, <2>3 DEF Waits
    <3>2. ResponseIsOwn'
      BY <1>1, <1>5, <2>1, <2>2, <2>3 DEF ResponseIsOwn
    <3> QED BY <1>6, <3>1, <3>2 DEF OwnFree
  <2>4. CASE item.kind \notin EndKinds
    <3>1. ASSUME q \notin abandoned PROVE Underway(t, q)'
      <4>1. emu' = emu /\ th'[t].cmd = th[t].cmd
        BY <1>1
      <4> QED BY <2>2, <3>1, <4>1 DEF Underway
    <3>2. PipeInv'
      BY <1>a, <2>1, <2>4, <3>1 DEF Waits
    <3>3. ResponseIsOwn'
      BY <1>5, <2>1, <2>4 DEF ResponseIsOwn, Responded
    <3> QED BY <1>6, <3>2, <3>3 DEF OwnFree
  <2> QED BY <2>3, <2>4
<1> QED BY <1>10, <1>11

(* A step of a caller.                                                     *)
LEMMA CallerKeepsOwn ==
    ASSUME TypeOK, AnswerFree, LockInv, ~Rivals, ~Early, NEW t \in Threads, Caller(t)
    PROVE  OwnFree'
<1> USE DEF AnswerFree, PairFree
<1>1. ASSUME NEW p \in Launches, Launch(t, p) PROVE OwnFree'
  BY <1>1, LaunchEffect, SetUpKeepsOwn DEF Waits, Responded
<1>2. CASE NewQueue(t)
  <2>1. \A u \in Threads : ~InTry(u)
    BY <1>2, NewQueueEffect DEF Early
  <2> QED BY <1>2, <2>1, NewQueueEffect, SetUpKeepsOwn DEF Waits, Responded
<1>3. CASE ReadQueue(t)
  BY <1>3, ReadQueueEffect, SetUpKeepsOwn DEF Waits, Responded
<1>4. CASE Quiet(t)
  BY <1>4, QuietKeepsOwn
<1>5. CASE Checks(t)
  BY <1>5, ChecksEffect, SetUpKeepsOwn DEF Waits, Responded
<1> QED
  BY <1>1, <1>2, <1>3, <1>4, <1>5, CallerKinds, SendKeepsOwn, FetchKeepsOwn, GetKeepsOwn

(* s3270 answers the one command there is, or dies.                        *)
LEMMA EmulatorKeepsOwn ==
    ASSUME TypeOK, PairFree, OwnFree, NEW p \in Launches, Emulator(p)
    PROVE  OwnFree'
<1> USE DEF OwnFree
<1>1. /\ UNCHANGED <<process, lineQueue, rdr, queue, th, abandoned>>
      /\ \A q \in Launches \ {p} : emu'[q] = emu[q]
  BY EmulatorEffect
<1>2. emu[p].out \in Seq(Lines) /\ emu[p].inbox \in Seq(Commands)
  BY DEF TypeOK, PipesOK, Process
<1>3. CallerInv' /\ ResponseIsOwn'
  BY <1>1 DEF CallerInv, Waits, ResponseIsOwn, Responded
<1>4. ASSUME NEW q \in Launches \ {p}
      PROVE  /\ Silent(q) => Silent(q)'
             /\ \A u \in Threads : Underway(u, q) => Underway(u, q)'
  BY <1>1, <1>4 DEF Silent, Underway
<1>5. CASE emu'[p].out = emu[p].out /\ emu'[p].inbox \in {emu[p].inbox, <<>>}
  <2>1. Silent(p) => Silent(p)'
    BY <1>1, <1>5 DEF Silent
  <2>2. \A u \in Threads : Underway(u, p) => Underway(u, p)'
    BY <1>1, <1>5, <2>1 DEF Underway
  <2>3. PipeInv'
    BY <1>1, <1>4, <1>5, <2>1, <2>2 DEF PipeInv, Waits
  <2> QED BY <1>3, <2>3
<1>6. ASSUME emu[p].st = "running", emu[p].inbox # <<>>,
             emu'[p].inbox \in {<<>>, Tail(emu[p].inbox)},
             NEW r \in Replies,
             \/ emu'[p].out = emu[p].out \o Answered(Head(emu[p].inbox), r)
             \/ \E n \in 0..(Len(r) - 1) :
                   emu'[p].out = emu[p].out \o SubSeq(Answered(Head(emu[p].inbox), r), 1, n)
      PROVE  PipeInv'
  <2>1. ASSUME p \notin abandoned, NEW u \in Threads, Waits(u), th[u].to = p
        PROVE  Underway(u, p)'
    <3>1. Silent(p) /\ th[u].got = <<>> /\ emu[p].inbox = <<th[u].cmd>>
      BY <1>6, <2>1 DEF PipeInv, Underway
    <3>2. queue[p] = <<>>
      <4>1. rdr[p].st # "done"
        BY <1>6 DEF PairFree, StreamInv
      <4>2. queue[p] \in Seq(Lines \cup {EOF})
        BY ZeroOr DEF TypeOK, PipesOK
      <4>3. 1 \notin DOMAIN queue[p]
        BY <3>1, <4>1 DEF PairFree, StreamInv, Silent
      <4> QED BY <4>2, <4>3
    <3>3. th[u].cmd \in Commands
      BY <2>1 DEF TypeOK, CallersOK, Waits, InTry
    <3>4. emu'[p].inbox = <<>> /\ Head(emu[p].inbox) = th[u].cmd /\ emu[p].out = <<>>
      BY <1>6, <3>1, <3>3 DEF Silent
    <3>5. \A s \in Seq(Lines) : <<>> \o s = s
      OBVIOUS
    <3>6. \/ emu'[p].out = Answered(th[u].cmd, r)
          \/ \E n \in 0..(Len(r) - 1) : emu'[p].out = SubSeq(Answered(th[u].cmd, r), 1, n)
      BY <1>6, <3>3, <3>4, <3>5, AnsweredType
    <3>7. FirstOf(<<>>, queue[p], emu'[p].out, th[u].cmd, r)
      BY <3>2, <3>3, <3>6, WriteLines
    <3> QED BY <1>1, <3>1, <3>4, <3>7 DEF Underway
  <2>2. ASSUME p \notin abandoned PROVE \E u \in Threads : Waits(u) /\ th[u].to = p
    BY <1>6, <2>2 DEF PipeInv
  <2> QED BY <1>1, <1>4, <2>1, <2>2 DEF PipeInv, Waits
<1>7. CASE ~(emu'[p].out = emu[p].out /\ emu'[p].inbox \in {emu[p].inbox, <<>>})
  BY <1>3, <1>6, <1>7, EmulatorEffect
<1> QED BY <1>5, <1>7

(* A reader thread hands a line on, or the end marker.                     *)
LEMMA ReaderKeepsOwn ==
    ASSUME TypeOK, PairFree, OwnFree, NEW q \in Launches, Reader(q)
    PROVE  OwnFree'
<1> USE DEF OwnFree
<1>1. /\ UNCHANGED <<process, lineQueue, th, abandoned>>
      /\ \A k \in Launches : emu'[k].st = emu[k].st /\ emu'[k].inbox = emu[k].inbox
      /\ \A k \in Launches \ {q} : rdr'[k] = rdr[k] /\ emu'[k] = emu[k]
      /\ \A k \in LaunchOr0 \ {q} : queue'[k] = queue[k]
  BY ReaderEffect DEF PairFree
<1>2. PICK old \in Seq(Lines \cup {EOF}), out \in Seq(Lines) :
          old = queue[q] /\ out = emu[q].out
  BY ZeroOr DEF TypeOK, PipesOK, Process
<1>3. \/ /\ out # <<>> /\ queue'[q] = Append(old, Head(out)) /\ emu'[q].out = Tail(out)
      \/ /\ out = <<>> /\ emu'[q].out = <<>> /\ queue'[q] = Append(old, EOF)
  BY <1>2, ReaderEffect DEF PairFree
<1>4. CallerInv' /\ ResponseIsOwn'
  BY <1>1 DEF CallerInv, Waits, ResponseIsOwn, Responded
<1>5. ASSUME NEW k \in Launches \ {q}
      PROVE  /\ Silent(k) => Silent(k)'
             /\ \A u \in Threads : Underway(u, k) => Underway(u, k)'
  BY <1>1, <1>5, ZeroOr DEF Silent, Underway
<1>6. Silent(q) => Silent(q)'
  <2>1. \A i \in DOMAIN Append(old, EOF) :
            \/ i \in DOMAIN old /\ Append(old, EOF)[i] = old[i]
            \/ Append(old, EOF)[i] = EOF
    OBVIOUS
  <2> QED BY <1>2, <1>3, <2>1 DEF Silent
<1>7. ASSUME NEW u \in Threads, Waits(u), Underway(u, q) PROVE Underway(u, q)'
  <2>1. th'[u] = th[u] /\ th[u].got \in Seq(Lines) /\ th[u].cmd \in Commands
    BY <1>1, <1>7 DEF CallerState, TypeOK, CallersOK, Waits, InTry
  <2>2. CASE Silent(q) /\ th[u].got = <<>> /\ emu[q].inbox \in {<<>>, <<th[u].cmd>>}
    BY <1>1, <1>6, <2>1, <2>2 DEF Underway
  <2>3. CASE /\ emu[q].inbox = <<>>
             /\ \E r \in Replies : FirstOf(th[u].got, queue[q], emu[q].out, th[u].cmd, r)
    <3>1. PICK r \in Replies : FirstOf(th[u].got, old, out, th[u].cmd, r)
      BY <1>2, <2>3
    <3>2. FirstOf(th[u].got, queue'[q], emu'[q].out, th[u].cmd, r)
      <4>1. CASE out # <<>>
        <5>1. FirstOf(th[u].got, Append(old, Head(out)), Tail(out), th[u].cmd, r)
          BY <2>1, <3>1, <4>1, MoveLine
        <5> QED BY <1>3, <4>1, <5>1
      <4>2. CASE out = <<>>
        BY <1>3, <2>1, <3>1, <4>2, AddEnd
      <4> QED BY <4>1, <4>2
    <3> QED BY <1>1, <2>1, <2>3, <3>2 DEF Underway
  <2> QED BY <1>7, <2>2, <2>3 DEF Underway
<1>8. PipeInv'
  BY <1>1, <1>5, <1>6, <1>7 DEF PipeInv, Waits
<1> QED BY <1>4, <1>8

(* AnswerFree is inductive as long as no start() or stop() overlaps        *)
(* another, and no execute() the beginning of a launch.                    *)
LEMMA AnswersStep ==
    ASSUME TypeOK, LockInv, AnswerFree, ~Rivals, ~Early, Next
    PROVE  AnswerFree'
<1> USE DEF AnswerFree
<1>1. PairFree'
  BY PairsStep
<1>2. ASSUME NEW t \in Threads, Caller(t) PROVE OwnFree'
  BY <1>2, CallerKeepsOwn
<1>3. ASSUME NEW p \in Launches, Emulator(p) \/ Reader(p) PROVE OwnFree'
  BY <1>3, EmulatorKeepsOwn, ReaderKeepsOwn
<1> QED BY <1>1, <1>2, <1>3 DEF Next

(* Nothing has been launched or written.                                   *)
LEMMA PairsInit == Init => PairFree /\ ~Rivals
<1> SUFFICES ASSUME Init PROVE PairFree /\ ~Rivals
  OBVIOUS
<1> USE DEF Init, Idle
<1>1. PairInv /\ StreamInv
  BY BoundsAssumption DEF PairInv, StreamInv, Installs, Launches
<1>2. FreshInv /\ ~Rivals
  BY DEF FreshInv, Rivals, InControl, InTry
<1> QED BY <1>1, <1>2 DEF PairFree

LEMMA AnswersInit == Init => AnswerFree /\ ~Rivals /\ ~Early
<1> SUFFICES ASSUME Init PROVE OwnFree /\ ~Early
  BY PairsInit DEF AnswerFree
<1> USE DEF Init, Idle
<1>1. CallerInv /\ ResponseIsOwn /\ ~Early
  BY DEF CallerInv, Waits, ResponseIsOwn, Responded, Early, InTry
<1>2. PipeInv
  BY BoundsAssumption DEF PipeInv, Waits, Silent, Launches
<1> QED BY <1>1, <1>2 DEF OwnFree

(* execute() returns the answer of its own command, for any number of      *)
(* threads that start, stop and execute, as long as no start() or stop()   *)
(* overlaps another, and no execute() a start() that has a new process but *)
(* the old line queue: crashes and restarts between calls mix nothing up.  *)
THEOREM OwnAnswerNeedsEarly == RacesSpec => []OwnNeedsEarly
<1>1. RacesInit => TypeOK /\ LockInv /\ AnswerInv
  BY InitType, LockInit, AnswersInit DEF RacesInit, AnswerInv
<1>2. TypeOK /\ LockInv /\ AnswerInv /\ [RacesNext]_allVars => TypeOK' /\ LockInv' /\ AnswerInv'
  <2> SUFFICES ASSUME TypeOK, LockInv, AnswerInv, [RacesNext]_allVars
               PROVE  TypeOK' /\ LockInv' /\ AnswerInv'
    OBVIOUS
  <2>1. [Next]_vars
    BY DEF RacesNext, allVars
  <2>2. TypeOK' /\ LockInv'
    BY <2>1, TypeStep, LockStep
  <2>3. CASE UNCHANGED allVars
    BY <2>2, <2>3 DEF allVars, vars, attrs, AnswerInv, Rivals, Early, InControl, InTry, AnswerFree,
                PairFree, PairInv, QueueDue, StreamInv, FreshInv, Unsent, OwnFree, CallerInv, PipeInv, ResponseIsOwn, Responded, Silent, Underway,
                Waits, Installs
  <2>4. CASE RacesNext
    <3>1. CASE {"rivals", "early"} \cap seen # {} \/ Rivals' \/ Early'
      BY <2>2, <2>4, <3>1 DEF RacesNext, Observe, AnswerInv
    <3>2. CASE {"rivals", "early"} \cap seen = {} /\ ~Rivals' /\ ~Early'
      BY <2>2, <2>4, <3>2, AnswersStep DEF RacesNext, AnswerInv
    <3> QED BY <3>1, <3>2
  <2> QED BY <2>2, <2>3, <2>4
<1>3. AnswerInv => OwnNeedsEarly
  BY DEF AnswerInv, OwnNeedsEarly, AnswerFree, OwnFree
<1> QED BY <1>1, <1>2, <1>3, PTL DEF RacesSpec

-----------------------------------------------------------------------------
(* Whoever reads them and whatever was given up, the lines of a launch are *)
(* whole answers, one after the other; the first may lack its beginning    *)
(* and the last its end.  Lines i to j of s belong to one answer:          *)
OneAnswer(s, i, j) ==
    \E c \in Commands, r \in Replies : \E k \in Nat :
        \A x \in i..j : k + (x - i) \in 1..Len(r) /\ s[x] = [cmd |-> c, kind |-> r[k + (x - i)]]

InAnswers(s) ==
    \A i \in 1..Len(s) : \A j \in i..Len(s) :
        /\ \A x \in i..j : s[x] # EOF
        /\ \A x \in i..(j - 1) : s[x].kind \notin EndKinds
        => OneAnswer(s, i, j)

Complete(s) == s = <<>> \/ s[Len(s)].kind \in EndKinds

(* got and what comes after it, the lines in a queue and those in the pipe *)
(* behind it: only a process that died can leave an answer without its end. *)
Sound(got, lines, out, st) ==
    LET s == got \o (lines \o out)
    IN InAnswers(s) /\ (st \in {"none", "running"} => Complete(s))

Unfinished(got) == \A i \in DOMAIN got : got[i].kind \notin EndKinds

ChainInv ==
    \A q \in Launches :
        /\ Sound(<<>>, queue[q], emu[q].out, emu[q].st)
        /\ \A t \in Threads : Waits(t) /\ lineQueue = q =>
                Sound(th[t].got, queue[q], emu[q].out, emu[q].st)

(* No answer has ended for a caller that waits, and it reads from the      *)
(* current line queue.                                                     *)
ReadInv == \A t \in Threads : /\ Waits(t) => Unfinished(th[t].got)
                              /\ At(t, "get") => th[t].from = lineQueue

ChainFree == ChainInv /\ ReadInv /\ ResponseNeverMixed
MixInv    == \/ {"rivals", "swap"} \cap seen # {}
             \/ ~Rivals /\ PairFree /\ ChainFree

Item == Lines \cup {EOF}

(* What two sequences one after the other hold.                            *)
LEMMA Joined ==
    ASSUME NEW a \in Seq(Item), NEW b \in Seq(Item)
    PROVE  /\ a \o b \in Seq(Item) /\ Len(a \o b) = Len(a) + Len(b)
           /\ Len(a) \in Nat /\ Len(b) \in Nat
           /\ \A i \in 1..Len(a) : (a \o b)[i] = a[i]
           /\ \A i \in 1..Len(b) : (a \o b)[Len(a) + i] = b[i]
OBVIOUS

(* The end of a sequence of answers is one.                                *)
LEMMA DropAnswers ==
    ASSUME NEW a \in Seq(Item), NEW b \in Seq(Item), InAnswers(a \o b)
    PROVE  InAnswers(b)
<1> DEFINE n == Len(a)
           s == a \o b
<1>1. /\ n \in Nat /\ Len(b) \in Nat /\ Len(s) = n + Len(b)
      /\ \A i \in 1..Len(b) : s[n + i] = b[i]
  BY Joined
<1>2. InAnswers(s)
  OBVIOUS
<1> HIDE DEF n, s
<1> SUFFICES ASSUME NEW i \in 1..Len(b), NEW j \in i..Len(b),
                    \A x \in i..j : b[x] # EOF,
                    \A x \in i..(j - 1) : b[x].kind \notin EndKinds
             PROVE  OneAnswer(b, i, j)
  BY DEF InAnswers
<1>3. /\ n + i \in 1..Len(s) /\ n + j \in (n + i)..Len(s)
      /\ \A x \in (n + i)..(n + j) : x - n \in i..j /\ s[x] = b[x - n]
      /\ \A x \in (n + i)..((n + j) - 1) : x - n \in i..(j - 1)
  <2>1. ASSUME NEW x \in (n + i)..(n + j) PROVE x - n \in i..j /\ s[x] = b[x - n]
    <3>1. x - n \in i..j /\ x - n \in 1..Len(b) /\ n + (x - n) = x
      BY <1>1
    <3> QED BY <1>1, <3>1
  <2> QED BY <1>1, <2>1
<1>4. /\ \A x \in (n + i)..(n + j) : s[x] # EOF
      /\ \A x \in (n + i)..((n + j) - 1) : s[x].kind \notin EndKinds
  <2>1. \A x \in (n + i)..((n + j) - 1) : x \in (n + i)..(n + j)
    BY <1>1
  <2> QED BY <1>3, <2>1
<1>5. OneAnswer(s, n + i, n + j)
  BY <1>2, <1>3, <1>4 DEF InAnswers
<1>6. PICK c \in Commands, r \in Replies, k \in Nat :
        \A x \in (n + i)..(n + j) :
            k + (x - (n + i)) \in 1..Len(r) /\ s[x] = [cmd |-> c, kind |-> r[k + (x - (n + i))]]
  BY <1>5 DEF OneAnswer
<1>7. ASSUME NEW x \in i..j
      PROVE  k + (x - i) \in 1..Len(r) /\ b[x] = [cmd |-> c, kind |-> r[k + (x - i)]]
  <2>1. n + x \in (n + i)..(n + j) /\ (n + x) - (n + i) = x - i /\ (n + x) - n = x
    BY <1>1
  <2> QED BY <1>3, <1>6, <2>1
<1> QED BY <1>7 DEF OneAnswer

LEMMA DropComplete ==
    ASSUME NEW a \in Seq(Item), NEW b \in Seq(Item), Complete(a \o b)
    PROVE  Complete(b)
<1>1. b # <<>> => Len(b) \in 1..Len(b) /\ (a \o b) # <<>> /\ (a \o b)[Len(a \o b)] = b[Len(b)]
  BY Joined
<1> QED BY <1>1 DEF Complete

(* The end marker is no line of an answer.                                 *)
LEMMA EndAnswers ==
    ASSUME NEW s \in Seq(Item), InAnswers(s)
    PROVE  InAnswers(Append(s, EOF))
<1> DEFINE z == Append(s, EOF)
<1>1. /\ Len(s) \in Nat /\ Len(z) = Len(s) + 1 /\ z[Len(s) + 1] = EOF
      /\ \A x \in 1..Len(s) : z[x] = s[x]
  OBVIOUS
<1> HIDE DEF z
<1>2. ASSUME NEW i \in 1..Len(z), NEW j \in i..Len(z),
             \A x \in i..j : z[x] # EOF,
             \A x \in i..(j - 1) : z[x].kind \notin EndKinds
      PROVE  OneAnswer(z, i, j)
  <2>1. j # Len(s) + 1
    <3>1. j \in i..j
      BY <1>1
    <3> QED BY <1>1, <1>2, <3>1
  <2>2. i \in 1..Len(s) /\ j \in i..Len(s) /\ \A x \in i..j : x \in 1..Len(s)
    BY <1>1, <2>1
  <2>3. \A x \in i..(j - 1) : x \in i..j
    BY <1>1
  <2>4. OneAnswer(s, i, j)
    BY <1>1, <1>2, <2>2, <2>3 DEF InAnswers
  <2> QED BY <1>1, <2>2, <2>4 DEF OneAnswer
<1>3. InAnswers(z)
  BY <1>2 DEF InAnswers
<1> QED BY <1>3 DEF z

(* s3270 writes an answer, or the beginning of one, behind complete ones.  *)
LEMMA MoreAnswers ==
    ASSUME NEW s \in Seq(Item), InAnswers(s), Complete(s),
           NEW c \in Commands, NEW r \in Replies, NEW m \in 0..Len(r),
           NEW part \in Seq(Lines), Len(part) = m,
           \A x \in 1..m : part[x] = [cmd |-> c, kind |-> r[x]]
    PROVE  InAnswers(s \o part) /\ (m = Len(r) => Complete(s \o part))
<1> DEFINE n == Len(s)
           z == s \o part
<1>0. part \in Seq(Item)
  BY DEF Item
<1>1. /\ n \in Nat /\ m \in Nat /\ Len(r) \in Nat /\ m <= Len(r) /\ Len(z) = n + m
      /\ \A x \in 1..n : z[x] = s[x]
      /\ \A x \in 1..m : z[n + x] = part[x]
  <2>1. Len(r) \in Nat
    BY RepliesAssumption
  <2>2. m \in Nat /\ m <= Len(r)
    BY <2>1
  <2> QED BY <1>0, <2>1, <2>2, Joined
<1>2. s = <<>> \/ (n \in 1..n /\ s[n].kind \in EndKinds)
  BY DEF Complete
<1>3. n = 0 => s = <<>>
  OBVIOUS
<1>z. z \in Seq(Item)
  BY <1>0, Joined
<1> HIDE DEF n, z
<1>4. ASSUME NEW i \in 1..Len(z), NEW j \in i..Len(z),
             \A x \in i..j : z[x] # EOF,
             \A x \in i..(j - 1) : z[x].kind \notin EndKinds
      PROVE  OneAnswer(z, i, j)
  <2>0. i \in Nat /\ j \in Nat /\ i <= j /\ 1 <= i /\ j <= n + m
    BY <1>1
  <2>1. CASE j <= n
    <3>1. i \in 1..n /\ j \in i..n /\ \A x \in i..j : x \in 1..n
      BY <1>1, <2>0, <2>1
    <3>2. \A x \in i..(j - 1) : x \in i..j
      BY <2>0
    <3>3. OneAnswer(s, i, j)
      BY <1>1, <1>4, <3>1, <3>2 DEF InAnswers, n
    <3>4. \A x \in i..j : z[x] = s[x]
      BY <1>1, <3>1
    <3>5. PICK d \in Commands, w \in Replies, k \in Nat :
            \A x \in i..j : k + (x - i) \in 1..Len(w) /\ s[x] = [cmd |-> d, kind |-> w[k + (x - i)]]
      BY <3>3 DEF OneAnswer
    <3>6. \A x \in i..j : k + (x - i) \in 1..Len(w) /\ z[x] = [cmd |-> d, kind |-> w[k + (x - i)]]
      BY <3>4, <3>5
    <3> QED BY <3>6 DEF OneAnswer
  <2>2. CASE i <= n /\ n < j
    <3>1. n \in i..(j - 1) /\ n \in 1..n /\ n # 0
      BY <1>1, <2>0, <2>2
    <3>2. s # <<>>
      BY <3>1 DEF n
    <3>3. z[n].kind \in EndKinds
      BY <1>1, <1>2, <3>1, <3>2
    <3> QED BY <1>4, <3>1, <3>3
  <2>3. CASE n < i
    <3> DEFINE k == i - n
    <3>1. k \in Nat
      BY <1>1, <2>0, <2>3
    <3>2. ASSUME NEW x \in i..j
          PROVE  k + (x - i) \in 1..Len(r) /\ z[x] = [cmd |-> c, kind |-> r[k + (x - i)]]
      <4>1. x - n \in 1..m /\ n + (x - n) = x /\ k + (x - i) = x - n
        BY <1>1, <2>0, <2>3
      <4> HIDE DEF k
      <4> QED BY <1>1, <4>1
    <3> HIDE DEF k
    <3> QED BY <3>1, <3>2 DEF OneAnswer
  <2> QED BY <1>1, <2>0, <2>1, <2>2, <2>3
<1>5. InAnswers(z)
  BY <1>4 DEF InAnswers
<1>6. ASSUME m = Len(r) PROVE Complete(z)
  <2>1. m > 0 /\ r[m] \in EndKinds
    BY <1>6, RepliesAssumption
  <2>2. m \in 1..m /\ n + m = Len(z)
    BY <1>1, <2>1
  <2>3. z[Len(z)] = [cmd |-> c, kind |-> r[m]]
    BY <1>1, <2>2
  <2> QED BY <2>1, <2>3 DEF Complete
<1> QED BY <1>5, <1>6 DEF z

(* The end of a sequence from its item k on.                               *)
LEMMA EndPart ==
    ASSUME NEW a \in Seq(Lines), NEW k \in 1..Len(a), NEW got \in Seq(Lines),
           Len(got) = Len(a) - k + 1,
           \A x \in 1..(Len(a) - k + 1) : got[x] = a[k + (x - 1)]
    PROVE  got = SubSeq(a, k, Len(a))
<1> DEFINE w == SubSeq(a, k, Len(a))
<1>1. /\ w \in Seq(Lines) /\ Len(w) = Len(a) - k + 1
      /\ \A x \in 1..(Len(a) - k + 1) : w[x] = a[k + x - 1]
  OBVIOUS
<1>2. \A x \in 1..(Len(a) - k + 1) : k + x - 1 = k + (x - 1)
  OBVIOUS
<1>3. Len(w) = Len(got) /\ \A x \in 1..Len(got) : got[x] = w[x]
  BY <1>1, <1>2
<1> HIDE DEF w
<1>4. got = w
  BY <1>1, <1>3
<1> QED BY <1>4 DEF w

(* A response that ends with the first end of an answer is the end of one. *)
LEMMA EndOfAnswer ==
    ASSUME NEW got \in Seq(Lines), NEW rest \in Seq(Item), InAnswers(got \o rest),
           NEW had \in Seq(Lines), NEW item \in Lines, got = Append(had, item),
           Unfinished(had), item.kind \in EndKinds
    PROVE  \E c \in Commands, r \in Replies : \E n \in 1..Len(r) :
               got = SubSeq(Answered(c, r), n, Len(r))
<1> DEFINE g == Len(got)
           s == got \o rest
<1>1. /\ g \in Nat /\ g = Len(had) + 1 /\ got[g] = item
      /\ \A x \in 1..(g - 1) : x \in DOMAIN had /\ got[x] = had[x]
  OBVIOUS
<1>2. /\ Len(s) \in Nat /\ g <= Len(s) /\ \A x \in 1..g : s[x] = got[x]
  <2>1. got \in Seq(Item)
    BY DEF Item
  <2> QED BY <2>1, Joined
<1>3. InAnswers(s)
  OBVIOUS
<1>4. /\ \A x \in 1..g : got[x] \in Lines
      /\ EOF \notin Lines
  <2>1. \A x \in 1..g : got[x] \in Lines
    OBVIOUS
  <2>2. EOF \notin Lines
    BY DEF Lines, EOF, Kinds
  <2> QED BY <2>1, <2>2
<1> HIDE DEF s
<1>5. 1 \in 1..Len(s) /\ g \in 1..Len(s) /\ g >= 1
  <2>1. Len(had) \in Nat
    OBVIOUS
  <2> HIDE DEF g
  <2> QED BY <1>1, <1>2, <2>1
<1>6. OneAnswer(s, 1, g)
  <2>1. \A x \in 1..g : s[x] # EOF
    BY <1>2, <1>4
  <2>2. \A x \in 1..(g - 1) : s[x].kind \notin EndKinds
    <3>1. \A x \in 1..(g - 1) : x \in 1..g
      BY <1>1
    <3> QED BY <1>1, <1>2, <3>1 DEF Unfinished
  <2> HIDE DEF g
  <2> QED BY <1>3, <1>5, <2>1, <2>2 DEF InAnswers
<1>7. PICK c \in Commands, r \in Replies, k \in Nat :
        \A x \in 1..g : k + (x - 1) \in 1..Len(r) /\ s[x] = [cmd |-> c, kind |-> r[k + (x - 1)]]
  BY <1>6 DEF OneAnswer
<1>8. Len(r) \in Nat /\ DOMAIN r = 1..Len(r) /\ \A i \in 1..Len(r) : r[i] \in EndKinds <=> i = Len(r)
  BY RepliesAssumption
<1>9. k + (g - 1) = Len(r) /\ k \in 1..Len(r)
  <2>1. k + (g - 1) \in 1..Len(r) /\ item = [cmd |-> c, kind |-> r[k + (g - 1)]]
    <3>1. g \in 1..g
      BY <1>1, <1>5
    <3> HIDE DEF g
    <3> QED BY <1>1, <1>2, <1>7, <3>1
  <2>2. r[k + (g - 1)] \in EndKinds
    BY <2>1
  <2>3. k + (g - 1) = Len(r)
    BY <1>8, <2>1, <2>2
  <2>4. k + (1 - 1) \in 1..Len(r)
    <3>1. 1 \in 1..g
      BY <1>1, <1>5
    <3> HIDE DEF g
    <3> QED BY <1>7, <3>1
  <2> HIDE DEF g
  <2> QED BY <1>1, <2>3, <2>4
<1>10. /\ Answered(c, r) \in Seq(Lines) /\ Len(Answered(c, r)) = Len(r)
       /\ \A i \in 1..Len(r) : Answered(c, r)[i] = [cmd |-> c, kind |-> r[i]]
  BY AnswerLines
<1> HIDE DEF g
<1>11. g = Len(r) - k + 1
  <2>1. g \in Nat /\ Len(r) \in Nat /\ k \in Nat /\ k + (g - 1) = Len(r)
    BY <1>1, <1>8, <1>9
  <2> QED BY <2>1
<1>12. ASSUME NEW x \in 1..g PROVE got[x] = Answered(c, r)[k + (x - 1)]
  <2>1. k + (x - 1) \in 1..Len(r) /\ got[x] = [cmd |-> c, kind |-> r[k + (x - 1)]]
    BY <1>2, <1>7
  <2> QED BY <1>10, <2>1
<1>13. got = SubSeq(Answered(c, r), k, Len(r))
  <2>1. PICK a \in Seq(Lines), l \in Nat : a = Answered(c, r) /\ l = Len(r) /\ Len(a) = l
    BY <1>8, <1>10
  <2>2. Len(got) = l - k + 1 /\ k \in 1..l /\ \A x \in 1..(l - k + 1) : got[x] = a[k + (x - 1)]
    BY <1>9, <1>11, <1>12, <2>1 DEF g
  <2>3. got = SubSeq(a, k, l)
    BY <2>1, <2>2, EndPart
  <2> QED BY <2>1, <2>3
<1> QED BY <1>9, <1>13

-----------------------------------------------------------------------------
LEMMA FirstAndRest ==
    ASSUME NEW s \in Seq(Item), s # <<>>
    PROVE  Head(s) \in Item /\ Tail(s) \in Seq(Item) /\ s = <<Head(s)>> \o Tail(s)
<1>1. /\ Len(s) \in Nat /\ Len(s) > 0 /\ Head(s) \in Item /\ Tail(s) \in Seq(Item)
      /\ Len(Tail(s)) = Len(s) - 1 /\ \A i \in 1..(Len(s) - 1) : Tail(s)[i] = s[i + 1]
      /\ Head(s) = s[1]
  OBVIOUS
<1>2. PICK one \in Seq(Item), rest \in Seq(Item) :
          /\ one = <<Head(s)>> /\ rest = Tail(s) /\ Len(one) = 1 /\ one[1] = Head(s)
  <2>1. \A h \in Item : <<h>> \in Seq(Item) /\ Len(<<h>>) = 1 /\ <<h>>[1] = h
    OBVIOUS
  <2> QED BY <1>1, <2>1
<1>3. /\ one \o rest \in Seq(Item) /\ Len(one \o rest) = Len(s) /\ (one \o rest)[1] = s[1]
      /\ \A i \in 1..(Len(s) - 1) : (one \o rest)[1 + i] = rest[i]
  BY <1>1, <1>2, Joined
<1>4. ASSUME NEW i \in 1..Len(s) PROVE (one \o rest)[i] = s[i]
  <2>1. CASE i = 1
    BY <1>3, <2>1
  <2>2. CASE i # 1
    <3>1. i - 1 \in 1..(Len(s) - 1) /\ 1 + (i - 1) = i /\ (i - 1) + 1 = i
      BY <1>1, <2>2
    <3>2. (one \o rest)[1 + (i - 1)] = s[(i - 1) + 1]
      BY <1>1, <1>2, <1>3, <3>1
    <3> QED BY <3>1, <3>2
  <2> QED BY <2>1, <2>2
<1>5. s = one \o rest
  BY <1>3, <1>4, SeqEqual
<1> QED BY <1>1, <1>2, <1>5

(* What the steps do to what a caller has got and what is to come.         *)
LEMMA SoundTake ==
    ASSUME NEW got \in Seq(Item), NEW lines \in Seq(Item), NEW out \in Seq(Item), NEW st,
           lines # <<>>
    PROVE  /\ Sound(got, lines, out, st) => Sound(Append(got, Head(lines)), Tail(lines), out, st)
           /\ Sound(<<>>, lines, out, st) => Sound(<<>>, Tail(lines), out, st)
<1>1. PICK item \in Item, rest \in Seq(Item) :
          item = Head(lines) /\ rest = Tail(lines) /\ lines = <<item>> \o rest
  BY FirstAndRest
<1>2. rest \o out \in Seq(Item) /\ <<item>> \in Seq(Item)
  OBVIOUS
<1>3. lines \o out = <<item>> \o (rest \o out)
  BY <1>1, <1>2, ConcatAssociative
<1>4. got \o (<<item>> \o (rest \o out)) = (got \o <<item>>) \o (rest \o out)
  BY <1>2, ConcatAssociative
<1>5. Append(got, item) = got \o <<item>>
  OBVIOUS
<1>6. Sound(got, lines, out, st) => Sound(Append(got, item), rest, out, st)
  BY <1>3, <1>4, <1>5 DEF Sound
<1>7. ASSUME Sound(<<>>, lines, out, st) PROVE Sound(<<>>, rest, out, st)
  <2>1. \A s \in Seq(Item) : <<>> \o s = s
    OBVIOUS
  <2>2. <<>> \o (lines \o out) = <<item>> \o (rest \o out) /\ <<>> \o (rest \o out) = rest \o out
    BY <1>2, <1>3, <2>1
  <2>3. InAnswers(<<item>> \o (rest \o out)) => InAnswers(rest \o out)
    BY <1>2, DropAnswers
  <2>4. Complete(<<item>> \o (rest \o out)) => Complete(rest \o out)
    BY <1>2, DropComplete
  <2> QED BY <1>7, <2>2, <2>3, <2>4 DEF Sound
<1> QED BY <1>1, <1>6, <1>7

LEMMA SoundMove ==
    ASSUME NEW got \in Seq(Item), NEW lines \in Seq(Item), NEW out \in Seq(Item), NEW st,
           out # <<>>, Sound(got, lines, out, st)
    PROVE  Sound(got, Append(lines, Head(out)), Tail(out), st)
<1>1. PICK item \in Item, rest \in Seq(Item) :
          item = Head(out) /\ rest = Tail(out) /\ out = <<item>> \o rest
  BY FirstAndRest
<1>2. lines \o out = (lines \o <<item>>) \o rest
  BY <1>1, ConcatAssociative
<1>3. Append(lines, item) = lines \o <<item>>
  OBVIOUS
<1> QED BY <1>1, <1>2, <1>3 DEF Sound

LEMMA SoundEnd ==
    ASSUME NEW got \in Seq(Item), NEW lines \in Seq(Item), NEW st, st \notin {"none", "running"},
           Sound(got, lines, <<>>, st)
    PROVE  Sound(got, Append(lines, EOF), <<>>, st)
<1>1. \A s \in Seq(Item) : s \o <<>> = s
  OBVIOUS
<1>2. Append(lines, EOF) \in Seq(Item) /\ got \o lines \in Seq(Item)
  BY DEF Item
<1>3. got \o Append(lines, EOF) = Append(got \o lines, EOF)
  <2>1. EOF \in Item
    BY DEF Item
  <2>2. Append(lines, EOF) = lines \o <<EOF>> /\ <<EOF>> \in Seq(Item)
    BY <2>1
  <2>3. got \o (lines \o <<EOF>>) = (got \o lines) \o <<EOF>>
    BY <2>2, ConcatAssociative
  <2>4. Append(got \o lines, EOF) = (got \o lines) \o <<EOF>>
    BY <1>2, <2>1
  <2> QED BY <2>2, <2>3, <2>4
<1>4. InAnswers(got \o lines)
  BY <1>1 DEF Sound
<1>5. InAnswers(Append(got \o lines, EOF))
  BY <1>2, <1>4, EndAnswers
<1> QED BY <1>1, <1>2, <1>3, <1>5 DEF Sound

LEMMA SoundMore ==
    ASSUME NEW got \in Seq(Item), NEW lines \in Seq(Item), NEW out \in Seq(Lines),
           Sound(got, lines, out, "running"), NEW c \in Commands, NEW r \in Replies
    PROVE  /\ Sound(got, lines, out \o Answered(c, r), "running")
           /\ \A n \in 0..(Len(r) - 1) :
                  Sound(got, lines, out \o SubSeq(Answered(c, r), 1, n), "dying")
<1>0. out \in Seq(Item) /\ \A p \in Seq(Lines) : p \in Seq(Item)
  BY DEF Item
<1>1. Len(r) \in Nat
  BY RepliesAssumption
<1>2. /\ Answered(c, r) \in Seq(Lines) /\ Len(Answered(c, r)) = Len(r)
      /\ \A i \in 1..Len(r) : Answered(c, r)[i] = [cmd |-> c, kind |-> r[i]]
  BY AnswerLines
<1> DEFINE s == got \o (lines \o out)
<1>3. InAnswers(s) /\ Complete(s)
  BY DEF Sound
<1>4. s \in Seq(Item)
  BY <1>0
<1>5. ASSUME NEW p \in Seq(Lines) PROVE got \o (lines \o (out \o p)) = s \o p
  <2>1. lines \o (out \o p) = (lines \o out) \o p /\ lines \o out \in Seq(Item)
    BY <1>0, ConcatAssociative
  <2>2. got \o ((lines \o out) \o p) = (got \o (lines \o out)) \o p
    BY <1>0, <2>1, ConcatAssociative
  <2> QED BY <2>1, <2>2
<1> HIDE DEF s
<1>6. Sound(got, lines, out \o Answered(c, r), "running")
  <2>1. Len(r) \in 0..Len(r)
    BY <1>1
  <2>2. InAnswers(s \o Answered(c, r)) /\ Complete(s \o Answered(c, r))
    BY <1>2, <1>3, <1>4, <2>1, MoreAnswers
  <2> QED BY <1>2, <1>5, <2>2 DEF Sound
<1>7. ASSUME NEW n \in 0..(Len(r) - 1)
      PROVE  Sound(got, lines, out \o SubSeq(Answered(c, r), 1, n), "dying")
  <2> DEFINE part == SubSeq(Answered(c, r), 1, n)
  <2>1. n \in 0..Len(r)
    BY <1>1
  <2>2. /\ part \in Seq(Lines) /\ Len(part) = n
        /\ \A i \in 1..n : part[i] = Answered(c, r)[i]
    BY <1>1, <1>2, <2>1
  <2>3. \A i \in 1..n : part[i] = [cmd |-> c, kind |-> r[i]]
    BY <1>1, <1>2, <2>2
  <2> HIDE DEF part
  <2>4. InAnswers(s \o part)
    BY <1>3, <1>4, <2>1, <2>2, <2>3, MoreAnswers
  <2>5. Sound(got, lines, out \o part, "dying")
    BY <1>5, <2>2, <2>4 DEF Sound
  <2> QED BY <2>5 DEF part
<1> QED BY <1>6, <1>7

(* A process that has ended may leave an answer without its end.           *)
LEMMA SoundFades ==
    ASSUME NEW got, NEW lines, NEW out, NEW st, NEW now, Sound(got, lines, out, st),
           now \in {"none", "running"} => st \in {"none", "running"}
    PROVE  Sound(got, lines, out, now)
BY DEF Sound

(* A step of a caller that reads no line.                                  *)
LEMMA RestKeepsChain ==
    ASSUME ChainFree, NEW t \in Threads, OthersRest(t), UNCHANGED queue,
           \A q \in Launches :
               /\ emu'[q].out = emu[q].out
               /\ emu'[q].st \in {"none", "running"} => emu[q].st \in {"none", "running"},
           UNCHANGED lineQueue \/ \A u \in Threads : ~InTry(u) /\ ~Waits(u)',
           Waits(t)' => th'[t].got = <<>> \/ (Waits(t) /\ th'[t].got = th[t].got),
           At(t, "get")' => th'[t].from = lineQueue',
           ~Responded(t)'
    PROVE  ChainFree'
<1> USE DEF ChainFree
<1>1. \A u \in Threads : u # t => th'[u] = th[u]
  BY DEF OthersRest
<1>2. ASSUME NEW q \in Launches, NEW got, Sound(got, queue[q], emu[q].out, emu[q].st)
      PROVE  Sound(got, queue'[q], emu'[q].out, emu'[q].st)
  BY <1>2, SoundFades
<1>3. ChainInv'
  <2>1. ASSUME NEW q \in Launches PROVE Sound(<<>>, queue'[q], emu'[q].out, emu'[q].st)
    BY <1>2 DEF ChainInv
  <2>2. ASSUME NEW q \in Launches, NEW u \in Threads, Waits(u)', lineQueue' = q
        PROVE  Sound(th'[u].got, queue'[q], emu'[q].out, emu'[q].st)
    <3>1. th'[u].got = <<>> \/ (Waits(u) /\ th'[u].got = th[u].got)
      BY <1>1, <2>2 DEF Waits
    <3>2. lineQueue = q
      BY <2>2
    <3>3. PICK got : got = th'[u].got /\ Sound(got, queue[q], emu[q].out, emu[q].st)
      BY <3>1, <3>2 DEF ChainInv
    <3> QED BY <1>2, <3>3
  <2> QED BY <2>1, <2>2 DEF ChainInv
<1>4. ReadInv'
  <2>1. \A u \in Threads : Waits(u)' => Unfinished(th'[u].got)
    BY <1>1 DEF ReadInv, Waits, Unfinished
  <2>2. \A u \in Threads : At(u, "get")' => th'[u].from = lineQueue'
    BY <1>1 DEF ReadInv, Waits
  <2> QED BY <2>1, <2>2 DEF ReadInv, Unfinished
<1>5. ResponseNeverMixed'
  BY <1>1 DEF ResponseNeverMixed, Responded
<1> QED BY <1>3, <1>4, <1>5

(* A caller takes a line from the current queue.                           *)
LEMMA GetKeepsChain ==
    ASSUME TypeOK, PairFree, ChainFree, LockInv, NEW t \in Threads, Get(t)
    PROVE  ChainFree'
<1> USE DEF ChainFree
<1>0. PICK q, item : q = th[t].from /\ item = Head(queue[q])
  OBVIOUS
<1>1. /\ At(t, "get") /\ queue[q] # <<>> /\ queue' = [queue EXCEPT ![q] = Tail(queue[q])]
      /\ UNCHANGED <<process, lineQueue, emu, rdr>>
      /\ OthersRest(t) /\ q \in LaunchOr0
      /\ \/ th'[t].pc = "release" /\ th'[t].result = "process"
         \/ /\ item # EOF /\ th'[t].got = Append(th[t].got, item)
            /\ IF item.kind \in EndKinds
               THEN th'[t].pc = "release" /\ th'[t].result = "answered"
               ELSE th'[t].pc = "fetch"
  <2>1. /\ At(t, "get") /\ queue[q] # <<>> /\ queue' = [queue EXCEPT ![q] = Tail(queue[q])]
        /\ UNCHANGED <<process, lineQueue, emu, rdr>>
        /\ OthersRest(t) /\ q \in LaunchOr0
    BY <1>0, GetEffect
  <2>2. item = EOF => th'[t].pc = "release" /\ th'[t].result = "process"
    BY <1>0, GetEffect
  <2>3. item # EOF => /\ th'[t].got = Append(th[t].got, item)
                      /\ IF item.kind \in EndKinds
                         THEN th'[t].pc = "release" /\ th'[t].result = "answered"
                         ELSE th'[t].pc = "fetch"
    BY <1>0, GetEffect
  <2> HIDE DEF ChainFree
  <2> QED BY <2>1, <2>2, <2>3
<1>2. Waits(t) /\ q = lineQueue
  BY <1>0, <1>1 DEF Waits, ReadInv
<1>3. q \in Launches
  BY <1>1 DEF PairFree, StreamInv, LaunchOr0, Launches
<1>4. PICK lines \in Seq(Item), out \in Seq(Item), got \in Seq(Lines), st \in {emu[q].st} :
          lines = queue[q] /\ out = emu[q].out /\ got = th[t].got /\ st = emu[q].st
  <2>1. queue[q] \in Seq(Item) /\ th[t].got \in Seq(Lines)
    BY <1>1 DEF TypeOK, PipesOK, CallersOK, CallerState, Item
  <2>2. emu[q].out \in Seq(Lines)
    BY <1>3 DEF TypeOK, PipesOK, Process
  <2>3. emu[q].out \in Seq(Item)
    BY <2>2 DEF Item
  <2> QED BY <2>1, <2>3
<1>5. /\ queue'[q] = Tail(lines) /\ \A k \in Launches \ {q} : queue'[k] = queue[k]
      /\ lines # <<>> /\ item = Head(lines) /\ item \in Item
      /\ UNCHANGED <<emu, lineQueue>>
  BY <1>0, <1>1, <1>4, ZeroOr DEF TypeOK, PipesOK
<1>6. got \in Seq(Item)
  BY DEF Item
<1>7. /\ Sound(Append(got, item), Tail(lines), out, st)
      /\ Sound(<<>>, Tail(lines), out, st)
  BY <1>2, <1>3, <1>4, <1>5, <1>6, SoundTake DEF ChainInv
<1>8. \A u \in Threads \ {t} : ~Waits(u)' /\ ~Responded(u)' /\ th'[u].pc # "get"
  BY <1>1 DEF LockInv, InTry, Waits, OthersRest, Responded
<1>9. ChainInv'
  <2>1. ASSUME NEW k \in Launches PROVE Sound(<<>>, queue'[k], emu'[k].out, emu'[k].st)
    <3>1. CASE k = q
      BY <1>4, <1>5, <1>7, <3>1
    <3>2. CASE k # q
      BY <1>5, <3>2 DEF ChainInv
    <3> QED BY <3>1, <3>2
  <2>2. ASSUME Waits(t)' PROVE Sound(th'[t].got, queue'[q], emu'[q].out, emu'[q].st)
    <3>1. th'[t].got = Append(got, item)
      BY <1>1, <1>4, <2>2 DEF Waits
    <3> QED BY <1>4, <1>5, <1>7, <3>1
  <2>3. ASSUME NEW k \in Launches, NEW u \in Threads, Waits(u)', lineQueue' = k
        PROVE  Sound(th'[u].got, queue'[k], emu'[k].out, emu'[k].st)
    <3>1. u = t /\ k = q
      BY <1>2, <1>5, <1>8, <2>3
    <3> QED BY <2>2, <2>3, <3>1
  <2> QED BY <2>1, <2>3 DEF ChainInv
<1>10. CASE th'[t].pc = "release" /\ th'[t].result = "process"
  BY <1>8, <1>9, <1>10 DEF ReadInv, ResponseNeverMixed, Responded, Waits
<1>11. CASE /\ item # EOF /\ th'[t].got = Append(got, item)
            /\ item.kind \notin EndKinds /\ th'[t].pc = "fetch"
  <2>1. Unfinished(got)
    BY <1>2, <1>4 DEF ReadInv
  <2>2. Unfinished(Append(got, item))
    <3>1. \A i \in DOMAIN Append(got, item) :
              \/ i \in DOMAIN got /\ Append(got, item)[i] = got[i]
              \/ Append(got, item)[i] = item
      OBVIOUS
    <3> QED BY <1>11, <2>1, <3>1 DEF Unfinished
  <2>3. ReadInv'
    BY <1>8, <1>11, <2>2 DEF ReadInv, Unfinished
  <2>4. ResponseNeverMixed'
    BY <1>8, <1>11 DEF ResponseNeverMixed, Responded
  <2> QED BY <1>9, <2>3, <2>4
<1>12. CASE /\ item # EOF /\ th'[t].got = Append(got, item)
            /\ item.kind \in EndKinds /\ th'[t].pc = "release"
  <2>1. Unfinished(got) /\ item \in Lines
    BY <1>2, <1>4, <1>5, <1>12 DEF ReadInv, Item
  <2>2. PICK all \in Seq(Lines) : all = Append(got, item)
    <3>1. Append(got, item) \in Seq(Lines)
      BY <2>1
    <3> QED BY <3>1
  <2>3. Tail(lines) \o out \in Seq(Item) /\ InAnswers(all \o (Tail(lines) \o out))
    BY <1>5, <1>7, <2>2 DEF Sound
  <2>4. \E c \in Commands, r \in Replies : \E n \in 1..Len(r) :
            all = SubSeq(Answered(c, r), n, Len(r))
    BY <1>12, <2>1, <2>2, <2>3, EndOfAnswer
  <2>5. ResponseNeverMixed'
    BY <1>8, <1>12, <2>2, <2>4 DEF ResponseNeverMixed
  <2>6. ReadInv'
    BY <1>8, <1>12 DEF ReadInv, Waits
  <2> QED BY <1>9, <2>5, <2>6
<1> QED BY <1>1, <1>4, <1>10, <1>11, <1>12

(* A step of a caller.                                                     *)
LEMMA CallerKeepsChain ==
    ASSUME TypeOK, PairFree, ChainFree, LockInv, ~Rivals, ~Swap, NEW t \in Threads, Caller(t)
    PROVE  ChainFree'
<1> USE DEF PairFree
<1>1. ASSUME NEW p \in Launches, Launch(t, p) PROVE ChainFree'
  BY <1>1, LaunchEffect, RestKeepsChain DEF Waits, Responded
<1>2. CASE NewQueue(t)
  <2>1. \A u \in Threads : ~InTry(u)
    BY <1>2, NewQueueEffect DEF Swap
  <2>2. \A u \in Threads : ~Waits(u)'
    BY <1>2, <2>1, NewQueueEffect DEF OthersRest, Waits, InTry
  <2> QED BY <1>2, <2>1, <2>2, NewQueueEffect, RestKeepsChain DEF Responded
<1>3. CASE ReadQueue(t)
  BY <1>3, ReadQueueEffect, RestKeepsChain DEF Waits, Responded
<1>4. CASE Quiet(t)
  <2>1. \A q \in Launches :
          /\ emu'[q].out = emu[q].out
          /\ emu'[q].st \in {"none", "running"} => emu[q].st \in {"none", "running"}
    BY <1>4 DEF Quiet, StatusKept, PipesKept
  <2> QED BY <1>4, <2>1, RestKeepsChain DEF Quiet, Waits
<1>5. CASE Sends(t)
  BY <1>5, SendEffect, RestKeepsChain DEF Responded
<1>6. CASE FetchLine(t)
  BY <1>6, FetchEffect, RestKeepsChain DEF Waits, Responded
<1>7. CASE Get(t)
  BY <1>7, GetKeepsChain
<1>8. CASE Checks(t)
  BY <1>8, ChecksEffect, RestKeepsChain DEF Waits, Responded
<1> QED BY <1>1, <1>2, <1>3, <1>4, <1>5, <1>6, <1>7, <1>8, CallerKinds

(* So does one of s3270 or of a reader thread.                             *)
LEMMA OthersKeepChain ==
    ASSUME TypeOK, PairFree, ChainFree, NEW q \in Launches, Emulator(q) \/ Reader(q)
    PROVE  ChainFree'
<1> USE DEF ChainFree
<1>1. UNCHANGED <<lineQueue, th>>
  BY EmulatorEffect, ReaderEffect DEF PairFree
<1>2. ReadInv' /\ ResponseNeverMixed'
  BY <1>1 DEF ReadInv, Waits, ResponseNeverMixed, Responded
<1>3. PICK lines \in Seq(Item), out \in Seq(Lines), st \in {emu[q].st} :
          lines = queue[q] /\ out = emu[q].out /\ st = emu[q].st
  <2>1. queue[q] \in Seq(Item) /\ emu[q].out \in Seq(Lines)
    BY ZeroOr DEF TypeOK, PipesOK, Process, Item
  <2> QED BY <2>1
<1>4. out \in Seq(Item)
  BY DEF Item
<1>5. ASSUME NEW got \in Seq(Item), Sound(got, lines, out, st)
      PROVE  Sound(got, queue'[q], emu'[q].out, emu'[q].st)
  <2>1. CASE Emulator(q)
    <3>1. queue'[q] = lines
      BY <1>3, <2>1, EmulatorEffect
    <3>2. CASE emu'[q].out = emu[q].out
      <4>1. emu'[q].st \in {"none", "running"} => st \in {"none", "running"}
        BY <1>3, <2>1, EmulatorEffect DEF StatusKept
      <4> QED BY <1>3, <1>5, <3>1, <3>2, <4>1, SoundFades
    <3>3. CASE emu'[q].out # emu[q].out
      <4>1. emu[q].st = "running" /\ emu[q].inbox # <<>>
        BY <2>1, <3>3, EmulatorEffect
      <4>2. PICK c \in Commands : c = Head(emu[q].inbox)
        <5>1. emu[q].inbox \in Seq(Commands)
          BY DEF TypeOK, PipesOK, Process
        <5> QED BY <4>1, <5>1
      <4>3. PICK r \in Replies :
              \/ emu'[q].out = out \o Answered(c, r) /\ emu'[q].st = "running"
              \/ /\ emu'[q].st = "dying"
                 /\ \E n \in 0..(Len(r) - 1) : emu'[q].out = out \o SubSeq(Answered(c, r), 1, n)
        BY <1>3, <2>1, <3>3, <4>2, EmulatorEffect
      <4>4. Sound(got, lines, out, "running")
        BY <1>3, <1>5, <4>1
      <4> QED BY <3>1, <4>3, <4>4, SoundMore
    <3> QED BY <3>2, <3>3
  <2>2. CASE Reader(q)
    <3>1. /\ emu'[q].st = st
          /\ \/ /\ out # <<>> /\ queue'[q] = Append(lines, Head(out)) /\ emu'[q].out = Tail(out)
             \/ /\ out = <<>> /\ emu'[q].out = <<>> /\ queue'[q] = Append(lines, EOF)
                /\ st \notin {"none", "running"}
      <4>1. rdr[q].st # "none" /\ emu[q].st # "none"
        BY <2>2, ReaderEffect DEF PairFree, PairInv
      <4> QED BY <1>3, <2>2, <4>1, ReaderEffect DEF PairFree
    <3>2. CASE out # <<>>
      BY <1>4, <1>5, <3>1, <3>2, SoundMove
    <3>3. CASE out = <<>>
      BY <1>5, <3>1, <3>3, SoundEnd
    <3> QED BY <3>2, <3>3
  <2> QED BY <2>1, <2>2
<1>6. \A k \in Launches \ {q} : queue'[k] = queue[k] /\ emu'[k] = emu[k]
  <2>1. CASE Emulator(q)
    BY <2>1, EmulatorEffect
  <2>2. CASE Reader(q)
    BY <2>2, ReaderEffect, ZeroOr DEF PairFree
  <2> QED BY <2>1, <2>2
<1>7. ChainInv'
  <2>1. <<>> \in Seq(Item) /\ \A t \in Threads : th[t].got \in Seq(Item)
    BY DEF TypeOK, CallersOK, CallerState, Item
  <2>2. /\ Sound(<<>>, queue'[q], emu'[q].out, emu'[q].st)
        /\ \A t \in Threads : Waits(t) /\ lineQueue = q =>
               Sound(th[t].got, queue'[q], emu'[q].out, emu'[q].st)
    BY <1>3, <1>5, <2>1 DEF ChainInv
  <2>3. \A k \in Launches \ {q} :
          /\ Sound(<<>>, queue'[k], emu'[k].out, emu'[k].st)
          /\ \A t \in Threads : Waits(t) /\ lineQueue = k =>
                 Sound(th[t].got, queue'[k], emu'[k].out, emu'[k].st)
    BY <1>6 DEF ChainInv
  <2> QED BY <1>1, <2>2, <2>3 DEF ChainInv, Waits
<1> QED BY <1>2, <1>7

(* However many threads execute, and whatever they give up, a response is  *)
(* the end of one single answer, unless a start() or stop() overlaps       *)
(* another or a start() replaces the line queue under an execute().        *)
THEOREM MixtureNeedsSwap == RacesSpec => []MixNeedsSwap
<1>1. RacesInit => TypeOK /\ LockInv /\ MixInv
  <2> SUFFICES ASSUME RacesInit PROVE TypeOK /\ LockInv /\ MixInv
    OBVIOUS
  <2> USE DEF RacesInit
  <2>1. TypeOK /\ LockInv
    BY InitType, LockInit
  <2>2. PairFree /\ ~Rivals
    BY PairsInit
  <2>3. ReadInv /\ ResponseNeverMixed /\ \A t \in Threads : ~Waits(t)
    BY DEF Init, Idle, ReadInv, ResponseNeverMixed, Responded, Waits
  <2>4. Sound(<<>>, <<>>, <<>>, "none")
    <3>1. <<>> \o (<<>> \o <<>>) = <<>> /\ Len(<<>>) = 0
      OBVIOUS
    <3> QED BY <3>1 DEF Sound, InAnswers, Complete
  <2>5. ChainInv
    BY <2>3, <2>4, ZeroOr DEF Init, ChainInv, LaunchOr0
  <2> QED BY <2>1, <2>2, <2>3, <2>5 DEF MixInv, ChainFree
<1>2. TypeOK /\ LockInv /\ MixInv /\ [RacesNext]_allVars => TypeOK' /\ LockInv' /\ MixInv'
  <2> SUFFICES ASSUME TypeOK, LockInv, MixInv, [RacesNext]_allVars
               PROVE  TypeOK' /\ LockInv' /\ MixInv'
    OBVIOUS
  <2>1. [Next]_vars
    BY DEF RacesNext, allVars
  <2>2. TypeOK' /\ LockInv'
    BY <2>1, TypeStep, LockStep
  <2>3. CASE UNCHANGED allVars
    <3>1. PairFree' <=> PairFree
      BY <2>3 DEF allVars, vars, attrs, PairFree, PairInv, QueueDue, StreamInv, FreshInv, Unsent, Installs
    <3>2. ChainFree' <=> ChainFree
      BY <2>3 DEF allVars, vars, attrs, ChainFree, ChainInv, ReadInv, Waits, ResponseNeverMixed,
                  Responded, Unfinished
    <3>3. Rivals' <=> Rivals
      BY <2>3 DEF allVars, vars, attrs, Rivals, InControl, InTry
    <3> QED BY <2>2, <2>3, <3>1, <3>2, <3>3 DEF allVars, MixInv
  <2>4. CASE RacesNext
    <3>1. CASE {"rivals", "swap"} \cap seen # {} \/ Rivals' \/ Swap
      BY <2>2, <2>4, <3>1 DEF RacesNext, Observe, MixInv
    <3>2. CASE {"rivals", "swap"} \cap seen = {} /\ ~Rivals' /\ ~Swap
      <4>1. ~Rivals /\ PairFree /\ ChainFree
        BY <3>2 DEF MixInv
      <4>2. PairFree'
        BY <2>4, <4>1, PairsStep DEF RacesNext
      <4>3. ASSUME NEW t \in Threads, Caller(t) PROVE ChainFree'
        BY <3>2, <4>1, <4>3, CallerKeepsChain
      <4>4. ASSUME NEW p \in Launches, Emulator(p) \/ Reader(p) PROVE ChainFree'
        BY <4>1, <4>4, OthersKeepChain
      <4>5. ChainFree'
        BY <2>4, <4>3, <4>4 DEF RacesNext, Next
      <4> QED BY <2>2, <3>2, <4>2, <4>5 DEF MixInv
    <3> QED BY <3>1, <3>2
  <2> QED BY <2>2, <2>3, <2>4
<1>3. MixInv => MixNeedsSwap
  BY DEF MixInv, MixNeedsSwap, ChainFree, Unharmed
<1> QED BY <1>1, <1>2, <1>3, PTL DEF RacesSpec

-----------------------------------------------------------------------------
(* A program that calls the transport from one thread has no overlaps: all *)
(* of it holds without an excuse.                                          *)
Alone == \A t, u \in Threads : t = u

SoloInv == TypeOK /\ LockInv /\ AnswerFree /\ FlagFree /\ StrayFree

(* The invariants of all of them together, for one thread.                 *)
LEMMA SoloHolds == ASSUME Alone PROVE Spec => []SoloInv
<1>1. Init => SoloInv
  <2> SUFFICES ASSUME Init PROVE SoloInv
    OBVIOUS
  <2>1. TypeOK /\ AnswerFree
    BY InitType, AnswersInit
  <2>2. LockInv /\ FlagFree /\ StrayFree
    <3>1. FlagFree
      BY FlagInit DEF FlagFree
    <3> QED BY <3>1, LockInit DEF Init, Idle, StrayFree, NoStrayProcess, LaunchSafe,
                                  DropSafe, EndLabels
  <2> QED BY <2>1, <2>2 DEF SoloInv
<1>2. SoloInv /\ [Next]_vars => SoloInv'
  <2> SUFFICES ASSUME SoloInv, [Next]_vars PROVE SoloInv'
    OBVIOUS
  <2> USE DEF SoloInv
  <2>1. TypeOK' /\ LockInv'
    BY TypeStep, LockStep
  <2>2. CASE UNCHANGED vars
    <3>1. AnswerFree'
      BY <2>2 DEF vars, attrs, AnswerFree, PairFree, PairInv, QueueDue, StreamInv, FreshInv, Unsent, OwnFree,
              CallerInv, PipeInv, ResponseIsOwn, Responded, Silent, Underway, Waits, Installs
    <3>2. FlagFree'
      BY <2>2 DEF vars, attrs, FlagFree, LaunchInv, Installs, OwnInv, Installing, HasEOF,
              MendInv, Mends, FromInv
    <3>3. StrayFree'
      BY <2>2 DEF vars, attrs, StrayFree, NoStrayProcess, LaunchSafe, DropSafe
    <3> QED BY <2>1, <3>1, <3>2, <3>3
  <2>3. CASE Next
    <3>1. ~Rivals /\ ~Early
      BY DEF Alone, Rivals, Early, InTry
    <3>2. ~Swap /\ ~Twins /\ ~Twins'
      BY DEF Alone, Swap, Twins, InTry
    <3>3. AnswerFree'
      BY <2>3, <3>1, AnswersStep
    <3>5. ~Rivals'
      BY DEF Alone, Rivals
    <3>6. ASSUME NEW t \in Threads, Caller(t) PROVE FlagFree' /\ StrayFree'
      BY <3>1, <3>2, <3>5, <3>6, StartKeepsFlag, StopKeepsFlag, ExecuteKeepsFlag, LookKeepsFlag,
         StartKeepsFree, StopKeepsFree, ExecuteKeepsFree, LookKeepsFree DEF Caller
    <3>7. ASSUME NEW p \in Launches, Emulator(p) \/ Reader(p) PROVE FlagFree' /\ StrayFree'
      BY <3>7, EmulatorKeepsFlag, ReaderKeepsFlag, OthersKeepFree
    <3> QED BY <2>1, <2>3, <3>3, <3>6, <3>7 DEF Next
  <2> QED BY <2>2, <2>3
<1> QED BY <1>1, <1>2, PTL DEF Spec

(* execute() returns the whole answer of its own command, as long as no    *)
(* command of the launch was given up.                                     *)
THEOREM SoloAnswers == ASSUME Alone PROVE Spec => []ResponseIsOwn
<1>1. SoloInv => ResponseIsOwn
  BY DEF SoloInv, AnswerFree, OwnFree
<1> QED BY <1>1, SoloHolds, PTL

(* The end marker is the last line of every line queue.                    *)
THEOREM SoloEnds == ASSUME Alone PROVE Spec => []EOFIsLast
<1>1. SoloInv => EOFIsLast
  BY DEF SoloInv, AnswerFree, PairFree, StreamInv, EOFIsLast
<1> QED BY <1>1, SoloHolds, PTL

(* A running process accepts commands outside of start() and stop().       *)
THEOREM SoloAccepts == ASSUME Alone PROVE Spec => []RunningAccepts
<1>1. SoloInv => RunningAccepts
  BY DEF SoloInv, FlagFree, MendInv, Mends, Makes, Installs, RunningAccepts, InControl,
         InTry
<1> QED BY <1>1, SoloHolds, PTL

(* A running process is the one the handle names.                          *)
THEOREM SoloKeepsHandle == ASSUME Alone PROVE Spec => []NoStrayProcess
<1>1. SoloInv => NoStrayProcess
  BY DEF SoloInv, StrayFree
<1> QED BY <1>1, SoloHolds, PTL
-----------------------------------------------------------------------------
(* What TransportChannel calls the answers in a sequence of lines: the     *)
(* recursive function exists, for every length.                            *)
Least(S) == \E n \in S : \A m \in S : n <= m

LEMMA LeastExists ==
    ASSUME NEW S \in SUBSET Nat, S # {}
    PROVE  Least(S)
<1>1. PICK n \in S : \A m \in S : ~(<<m, n>> \in OpToRel(<, Nat))
  BY NatLessThanWellFounded, WFMin, Zenon
<1>2. ASSUME NEW m \in S PROVE n <= m
  <2>1. n \in Nat /\ m \in Nat
    OBVIOUS
  <2>2. m < n => <<m, n>> \in OpToRel(<, Nat)
    BY <2>1 DEF OpToRel
  <2>3. ~(m < n)
    BY <1>1, <2>2
  <2> QED BY <2>1, <2>3
<1> QED BY <1>2 DEF Least

AnswersUpTo(f, s, N) ==
    f = [n \in 0..N |-> IF n = 0 THEN <<>>
                        ELSE IF s[n].kind \in EndKinds THEN Append(f[n - 1], s[n].cmd)
                        ELSE f[n - 1]]

LEMMA UpToExists ==
    ASSUME NEW s, NEW N \in Nat
    PROVE  \E f : AnswersUpTo(f, s, N)
<1> DEFINE Missing == {m \in Nat : ~ \E f : AnswersUpTo(f, s, m)}
<1>1. ASSUME NEW m \in Missing, \A k \in Missing : m <= k PROVE FALSE
  <2>1. CASE m = 0
    <3> DEFINE f == [n \in 0..0 |-> <<>>]
    <3>1. AnswersUpTo(f, s, 0)
      BY DEF AnswersUpTo
    <3> QED BY <2>1, <3>1
  <2>2. CASE m # 0
    <3>1. m - 1 \in Nat /\ m \in Nat /\ m - 1 \notin Missing
      <4>1. m \in Nat /\ m - 1 \in Nat /\ ~(m <= m - 1)
        BY <2>2
      <4> HIDE DEF Missing
      <4> QED BY <1>1, <4>1
    <3>2. PICK f : AnswersUpTo(f, s, m - 1)
      BY <3>1
    <3> DEFINE Turn(h, n) == IF n = 0 THEN <<>>
                             ELSE IF s[n].kind \in EndKinds THEN Append(h[n - 1], s[n].cmd)
                             ELSE h[n - 1]
               g == [n \in 0..m |-> Turn(f, n)]
    <3>3. ASSUME NEW n \in 0..(m - 1) PROVE g[n] = f[n]
      <4>1. f[n] = Turn(f, n)
        BY <3>2 DEF AnswersUpTo
      <4>2. n \in 0..m
        BY <3>1
      <4> HIDE DEF Turn
      <4> QED BY <4>1, <4>2
    <3>4. ASSUME NEW n \in 0..m PROVE Turn(f, n) = Turn(g, n)
      <4>1. CASE n = 0
        BY <4>1
      <4>2. CASE n # 0
        <5>1. n - 1 \in 0..(m - 1)
          BY <3>1, <4>2
        <5> HIDE DEF g
        <5>2. g[n - 1] = f[n - 1]
          BY <3>3, <5>1
        <5> QED BY <5>2
      <4> QED BY <4>1, <4>2
    <3>5. g = [n \in 0..m |-> Turn(g, n)]
      <4> HIDE DEF Turn
      <4> QED BY <3>4
    <3>6. AnswersUpTo(g, s, m)
      <4> HIDE DEF g
      <4> QED BY <3>5 DEF AnswersUpTo
    <3> HIDE DEF g
    <3> QED BY <3>6
  <2> QED BY <2>1, <2>2
<1>2. Missing = {}
  <2> HIDE DEF Missing
  <2>1. Missing \in SUBSET Nat
    BY DEF Missing
  <2> QED BY <1>1, <2>1, LeastExists DEF Least
<1> QED BY <1>2

LEMMA AnswersAreUpTo ==
    ASSUME NEW s \in Seq(Item)
    PROVE  \E f : AnswersUpTo(f, s, Len(s)) /\ AnswersIn(s) = f[Len(s)]
<1>1. \E f : AnswersUpTo(f, s, Len(s))
  BY UpToExists
<1> DEFINE g == CHOOSE f : AnswersUpTo(f, s, Len(s))
<1>2. AnswersUpTo(g, s, Len(s))
  BY <1>1
<1>3. AnswersIn(s) = g[Len(s)]
  BY DEF AnswersIn, AnswersUpTo
<1> HIDE DEF g
<1> QED BY <1>2, <1>3

(* One value of it from the one before.                                    *)
LEMMA UpToStep ==
    ASSUME NEW f, NEW s, NEW N \in Nat, AnswersUpTo(f, s, N)
    PROVE  /\ f[0] = <<>>
           /\ \A n \in 1..N : /\ n - 1 \in 0..N /\ n \in 0..N
                              /\ f[n] = IF s[n].kind \in EndKinds
                                        THEN Append(f[n - 1], s[n].cmd) ELSE f[n - 1]
<1>1. f[0] = <<>>
  BY DEF AnswersUpTo
<1>2. ASSUME NEW n \in 1..N
      PROVE  /\ n - 1 \in 0..N /\ n \in 0..N
             /\ f[n] = IF s[n].kind \in EndKinds
                       THEN Append(f[n - 1], s[n].cmd) ELSE f[n - 1]
  <2>1. n - 1 \in 0..N /\ n \in 0..N /\ n # 0
    OBVIOUS
  <2> QED BY <2>1 DEF AnswersUpTo
<1> QED BY <1>1, <1>2

(* Lines that end no answer make no difference.                            *)
LEMMA UpToSkips ==
    ASSUME NEW f, NEW s, NEW N \in Nat, AnswersUpTo(f, s, N), NEW p \in 0..N,
           \A k \in (p + 1)..N : s[k].kind \notin EndKinds
    PROVE  f[N] = f[p]
<1> DEFINE Other == {k \in p..N : f[k] # f[p]}
<1>1. ASSUME NEW k \in Other, \A j \in Other : k <= j PROVE FALSE
  <2>1. k \in (p + 1)..N /\ k \in 1..N /\ k - 1 \in p..N /\ ~(k <= k - 1)
    OBVIOUS
  <2>2. f[k] = f[k - 1]
    BY <2>1, UpToStep
  <2>3. k - 1 \in Other
    BY <2>1, <2>2
  <2> HIDE DEF Other
  <2> QED BY <1>1, <2>1, <2>3
<1>2. Other \in SUBSET Nat
  OBVIOUS
<1>3. N \in Other => FALSE
  <2> HIDE DEF Other
  <2> QED BY <1>1, <1>2, LeastExists DEF Least
<1> QED BY <1>3

(* Nor does what comes after.                                              *)
LEMMA UpToAgrees ==
    ASSUME NEW f, NEW s, NEW N \in Nat, AnswersUpTo(f, s, N),
           NEW g, NEW u, NEW M \in Nat, AnswersUpTo(g, u, M),
           N <= M, \A k \in 1..N : s[k] = u[k]
    PROVE  f[N] = g[N]
<1> DEFINE Other == {k \in 0..N : f[k] # g[k]}
<1>1. ASSUME NEW k \in Other, \A j \in Other : k <= j PROVE FALSE
  <2>1. f[0] = <<>> /\ g[0] = <<>>
    BY UpToStep
  <2>2. k \in 1..N /\ k \in 1..M /\ k - 1 \in 0..N /\ ~(k <= k - 1)
    BY <2>1
  <2>3. f[k] = IF s[k].kind \in EndKinds THEN Append(f[k - 1], s[k].cmd) ELSE f[k - 1]
    BY <2>2, UpToStep
  <2>4. g[k] = IF s[k].kind \in EndKinds THEN Append(g[k - 1], s[k].cmd) ELSE g[k - 1]
    <3>1. g[k] = IF u[k].kind \in EndKinds THEN Append(g[k - 1], u[k].cmd) ELSE g[k - 1]
      BY <2>2, UpToStep
    <3> QED BY <2>2, <3>1
  <2>5. f[k - 1] # g[k - 1]
    BY <2>3, <2>4
  <2>6. k - 1 \in Other
    BY <2>2, <2>5
  <2> HIDE DEF Other
  <2> QED BY <1>1, <2>2, <2>6
<1>2. Other \in SUBSET Nat
  OBVIOUS
<1>3. N \in Other => FALSE
  <2> HIDE DEF Other
  <2> QED BY <1>1, <1>2, LeastExists DEF Least
<1> QED BY <1>3

(* They are commands.                                                      *)
LEMMA UpToType ==
    ASSUME NEW s \in Seq(Item), NEW f, AnswersUpTo(f, s, Len(s)), NEW n \in 0..Len(s)
    PROVE  f[n] \in Seq(Commands)
<1> DEFINE Other == {k \in 0..Len(s) : f[k] \notin Seq(Commands)}
<1>1. ASSUME NEW k \in Other, \A j \in Other : k <= j PROVE FALSE
  <2>0. Len(s) \in Nat
    OBVIOUS
  <2>1. f[0] \in Seq(Commands)
    <3>1. f[0] = <<>>
      BY <2>0, UpToStep
    <3> QED BY <3>1
  <2>2. k \in 1..Len(s) /\ k - 1 \in 0..Len(s) /\ ~(k <= k - 1)
    BY <2>0, <2>1
  <2>3. f[k] = IF s[k].kind \in EndKinds THEN Append(f[k - 1], s[k].cmd) ELSE f[k - 1]
    BY <2>2, UpToStep
  <2>4. s[k].kind \in EndKinds => s[k].cmd \in Commands
    <3>1. s[k] \in Item
      BY <2>2
    <3> QED BY <3>1 DEF Item, Lines, EOF, EndKinds
  <2>5. f[k - 1] \notin Seq(Commands)
    <3>1. f[k] \notin Seq(Commands)
      OBVIOUS
    <3>2. ASSUME NEW h \in Seq(Commands), NEW c \in Commands PROVE Append(h, c) \in Seq(Commands)
      OBVIOUS
    <3> HIDE DEF Other
    <3> QED BY <2>3, <2>4, <3>1, <3>2
  <2>6. k - 1 \in Other
    BY <2>2, <2>5
  <2> HIDE DEF Other
  <2> QED BY <1>1, <2>2, <2>6
<1>2. Other \in SUBSET Nat
  OBVIOUS
<1>3. Other = {}
  <2> HIDE DEF Other
  <2> QED BY <1>1, <1>2, LeastExists DEF Least
<1> QED BY <1>3

LEMMA AnswersEmpty == AnswersIn(<<>>) = <<>>
<1>1. <<>> \in Seq(Item) /\ Len(<<>>) = 0
  OBVIOUS
<1>2. PICK f : AnswersUpTo(f, <<>>, 0) /\ AnswersIn(<<>>) = f[0]
  BY <1>1, AnswersAreUpTo
<1> QED BY <1>2, UpToStep

LEMMA AnswersType ==
    ASSUME NEW s \in Seq(Item)
    PROVE  AnswersIn(s) \in Seq(Commands)
<1>1. PICK f : AnswersUpTo(f, s, Len(s)) /\ AnswersIn(s) = f[Len(s)]
  BY AnswersAreUpTo
<1>2. Len(s) \in 0..Len(s)
  OBVIOUS
<1> QED BY <1>1, <1>2, UpToType

(* One more line at the end, or many that end no answer:                   *)
LEMMA AnswersAppend ==
    ASSUME NEW s \in Seq(Item), NEW l \in Item
    PROVE  AnswersIn(Append(s, l)) =
             IF l.kind \in EndKinds THEN Append(AnswersIn(s), l.cmd) ELSE AnswersIn(s)
<1> DEFINE u == Append(s, l)
<1>1. /\ u \in Seq(Item) /\ Len(s) \in Nat /\ Len(u) = Len(s) + 1 /\ u[Len(u)] = l
      /\ \A k \in 1..Len(s) : s[k] = u[k]
  OBVIOUS
<1> HIDE DEF u
<1>2. PICK f : AnswersUpTo(f, s, Len(s)) /\ AnswersIn(s) = f[Len(s)]
  BY AnswersAreUpTo
<1>3. PICK g : AnswersUpTo(g, u, Len(u)) /\ AnswersIn(u) = g[Len(u)]
  BY <1>1, AnswersAreUpTo
<1>4. f[Len(s)] = g[Len(s)]
  <2>1. Len(s) <= Len(u) /\ Len(u) \in Nat
    BY <1>1
  <2> QED BY <1>1, <1>2, <1>3, <2>1, UpToAgrees
<1>5. g[Len(u)] = IF l.kind \in EndKinds THEN Append(g[Len(s)], l.cmd) ELSE g[Len(s)]
  <2>1. Len(u) \in 1..Len(u) /\ Len(u) \in Nat /\ Len(u) - 1 = Len(s)
    BY <1>1
  <2>2. g[Len(u)] = IF u[Len(u)].kind \in EndKinds
                    THEN Append(g[Len(u) - 1], u[Len(u)].cmd) ELSE g[Len(u) - 1]
    BY <1>3, <2>1, UpToStep
  <2> QED BY <1>1, <2>1, <2>2
<1>6. AnswersIn(u) = IF l.kind \in EndKinds THEN Append(AnswersIn(s), l.cmd) ELSE AnswersIn(s)
  BY <1>2, <1>3, <1>4, <1>5
<1> QED BY <1>6 DEF u

LEMMA AnswersSkip ==
    ASSUME NEW s \in Seq(Item), NEW more \in Seq(Item),
           \A k \in DOMAIN more : more[k].kind \notin EndKinds
    PROVE  AnswersIn(s \o more) = AnswersIn(s)
<1> DEFINE u == s \o more
<1>1. /\ u \in Seq(Item) /\ Len(s) \in Nat /\ Len(u) \in Nat /\ Len(s) <= Len(u)
      /\ \A k \in 1..Len(s) : s[k] = u[k]
  OBVIOUS
<1>2. \A k \in (Len(s) + 1)..Len(u) : u[k].kind \notin EndKinds
  <2> SUFFICES ASSUME NEW k \in (Len(s) + 1)..Len(u) PROVE u[k].kind \notin EndKinds
    OBVIOUS
  <2>1. k - Len(s) \in DOMAIN more /\ u[k] = more[k - Len(s)]
    OBVIOUS
  <2> HIDE DEF u
  <2> QED BY <2>1
<1> HIDE DEF u
<1>3. PICK f : AnswersUpTo(f, s, Len(s)) /\ AnswersIn(s) = f[Len(s)]
  BY AnswersAreUpTo
<1>4. PICK g : AnswersUpTo(g, u, Len(u)) /\ AnswersIn(u) = g[Len(u)]
  BY <1>1, AnswersAreUpTo
<1>5. f[Len(s)] = g[Len(s)]
  BY <1>1, <1>3, <1>4, UpToAgrees
<1>6. g[Len(u)] = g[Len(s)]
  <2>1. Len(s) \in 0..Len(u)
    BY <1>1
  <2> QED BY <1>1, <1>2, <1>4, <2>1, UpToSkips
<1>7. AnswersIn(u) = AnswersIn(s)
  BY <1>3, <1>4, <1>5, <1>6
<1> QED BY <1>7 DEF u

(* A line taken from the front is that of the oldest answer, if it ends    *)
(* one.                                                                    *)
LEMMA AnswersHead ==
    ASSUME NEW s \in Seq(Item), s # <<>>
    PROVE  AnswersIn(s) = IF Head(s).kind \in EndKinds
                          THEN <<Head(s).cmd>> \o AnswersIn(Tail(s)) ELSE AnswersIn(Tail(s))
<1> DEFINE u == Tail(s)
           first == IF Head(s).kind \in EndKinds THEN <<Head(s).cmd>> ELSE <<>>
<1>1. /\ u \in Seq(Item) /\ Len(s) \in Nat /\ Len(u) = Len(s) - 1 /\ Len(s) # 0
      /\ Head(s) = s[1] /\ \A k \in 1..Len(u) : u[k] = s[k + 1]
  OBVIOUS
<1>2. first \in Seq(Commands)
  <2>1. Head(s) \in Item
    OBVIOUS
  <2> QED BY <2>1 DEF Item, Lines, EOF, EndKinds
<1>3. first = IF s[1].kind \in EndKinds THEN <<s[1].cmd>> ELSE <<>>
  BY <1>1
<1> HIDE DEF u, first
<1>4. PICK f : AnswersUpTo(f, s, Len(s)) /\ AnswersIn(s) = f[Len(s)]
  BY AnswersAreUpTo
<1>5. PICK g : AnswersUpTo(g, u, Len(u)) /\ AnswersIn(u) = g[Len(u)]
  BY <1>1, AnswersAreUpTo
<1>6. PICK N \in Nat : N = Len(u) /\ Len(s) = N + 1
  BY <1>1
<1>7. f[N + 1] = first \o g[N]
  <2> DEFINE Other == {k \in 0..N : f[k + 1] # first \o g[k]}
  <2>1. ASSUME NEW k \in Other, \A j \in Other : k <= j PROVE FALSE
    <3>1. f[0] = <<>> /\ g[0] = <<>>
      BY <1>4, <1>5, <1>6, UpToStep
    <3>2. k + 1 \in 1..(N + 1) /\ (k + 1) - 1 = k
      OBVIOUS
    <3>3. f[k + 1] = IF s[k + 1].kind \in EndKinds THEN Append(f[k], s[k + 1].cmd) ELSE f[k]
      <4>1. f[k + 1] = IF s[k + 1].kind \in EndKinds
                       THEN Append(f[(k + 1) - 1], s[k + 1].cmd) ELSE f[(k + 1) - 1]
        BY <1>4, <1>6, <3>2, UpToStep
      <4> QED BY <3>2, <4>1
    <3>4. CASE k = 0
      <4>1. f[1] = IF s[1].kind \in EndKinds THEN Append(f[0], s[1].cmd) ELSE f[0]
        <5> HIDE DEF Other
        <5> QED BY <3>3, <3>4
      <4>2. f[1] = first
        BY <1>3, <3>1, <4>1
      <4>3. first \o g[0] = first
        BY <1>2, <3>1
      <4> QED BY <3>4, <4>2, <4>3
    <3>5. CASE k # 0
      <4>1. k \in 1..N /\ k - 1 \in 0..N /\ (k - 1) + 1 = k /\ ~(k <= k - 1)
        BY <3>5
      <4>2. g[k] = IF u[k].kind \in EndKinds THEN Append(g[k - 1], u[k].cmd) ELSE g[k - 1]
        BY <1>5, <1>6, <4>1, UpToStep
      <4>3. u[k] = s[k + 1]
        BY <1>1, <1>6, <4>1
      <4>4. k - 1 \notin Other
        <5> HIDE DEF Other
        <5> QED BY <2>1, <4>1
      <4>5. f[k] = first \o g[k - 1]
        BY <4>1, <4>4
      <4>6. g[k - 1] \in Seq(Commands)
        BY <1>1, <1>5, <1>6, <4>1, UpToType
      <4>7. s[k + 1].kind \in EndKinds => s[k + 1].cmd \in Commands
        <5>1. k + 1 \in 1..Len(s)
          BY <1>6, <3>2
        <5>2. s[k + 1] \in Item
          BY <5>1
        <5> QED BY <5>2 DEF Item, Lines, EOF, EndKinds
      <4>8. ASSUME NEW a \in Seq(Commands), NEW b \in Seq(Commands), NEW c \in Commands
            PROVE  Append(a \o b, c) = a \o Append(b, c)
        OBVIOUS
      <4>9. f[k + 1] = first \o g[k]
        <5> HIDE DEF Other
        <5>1. CASE s[k + 1].kind \in EndKinds
          <6>1. Append(first \o g[k - 1], s[k + 1].cmd) = first \o Append(g[k - 1], s[k + 1].cmd)
            BY <1>2, <4>6, <4>7, <4>8, <5>1
          <6> QED BY <3>3, <4>2, <4>3, <4>5, <5>1, <6>1
        <5>2. CASE s[k + 1].kind \notin EndKinds
          BY <3>3, <4>2, <4>3, <4>5, <5>2
        <5> QED BY <5>1, <5>2
      <4> QED BY <4>9
    <3> QED BY <3>4, <3>5
  <2>2. Other \in SUBSET Nat
    OBVIOUS
  <2>3. N \in Other => FALSE
    <3> HIDE DEF Other
    <3> QED BY <2>1, <2>2, LeastExists DEF Least
  <2> QED BY <2>3
<1>8. AnswersIn(s) = first \o AnswersIn(u)
  BY <1>4, <1>5, <1>6, <1>7
<1>9. AnswersIn(u) \in Seq(Commands)
  BY <1>1, AnswersType
<1> QED BY <1>8, <1>9 DEF u, first

(* A whole answer at the end is one more, the beginning of one is none.    *)
LEMMA AnswersBroken ==
    ASSUME NEW s \in Seq(Item), NEW c \in Commands, NEW r \in Replies, NEW n \in 0..(Len(r) - 1)
    PROVE  /\ SubSeq(Answered(c, r), 1, n) \in Seq(Item)
           /\ AnswersIn(s \o SubSeq(Answered(c, r), 1, n)) = AnswersIn(s)
<1>1. /\ r \in Seq(Kinds) /\ Len(r) \in Nat /\ Len(r) > 0
      /\ \A i \in 1..Len(r) : r[i] \in EndKinds <=> i = Len(r)
  BY RepliesAssumption
<1>2. /\ Answered(c, r) \in Seq(Lines) /\ Len(Answered(c, r)) = Len(r)
      /\ \A i \in 1..Len(r) : Answered(c, r)[i] = [cmd |-> c, kind |-> r[i]]
  BY AnswerLines
<1> DEFINE more == SubSeq(Answered(c, r), 1, n)
<1>3. more \in Seq(Lines) /\ Len(more) = n /\ \A i \in 1..n : more[i] = Answered(c, r)[i]
  <2>1. n \in Nat /\ n <= Len(Answered(c, r))
    BY <1>1, <1>2
  <2> HIDE DEF more
  <2> QED BY <1>2, <2>1 DEF more
<1> HIDE DEF more
<1>4. more \in Seq(Item)
  BY <1>3 DEF Item
<1>5. ASSUME NEW k \in DOMAIN more PROVE more[k].kind \notin EndKinds
  <2>1. k \in 1..n /\ k \in 1..Len(r) /\ k # Len(r)
    BY <1>1, <1>3
  <2>2. r[k] \notin EndKinds
    BY <1>1, <2>1
  <2>3. more[k] = [cmd |-> c, kind |-> r[k]]
    BY <1>2, <1>3, <2>1
  <2> QED BY <2>2, <2>3
<1>6. AnswersIn(s \o more) = AnswersIn(s)
  BY <1>4, <1>5, AnswersSkip
<1> QED BY <1>4, <1>6 DEF more

LEMMA AnswersWhole ==
    ASSUME NEW s \in Seq(Item), NEW c \in Commands, NEW r \in Replies
    PROVE  /\ Answered(c, r) \in Seq(Item)
           /\ AnswersIn(s \o Answered(c, r)) = Append(AnswersIn(s), c)
<1>1. /\ r \in Seq(Kinds) /\ Len(r) \in Nat /\ Len(r) > 0
      /\ \A i \in 1..Len(r) : r[i] \in EndKinds <=> i = Len(r)
  BY RepliesAssumption
<1>2. /\ Answered(c, r) \in Seq(Lines) /\ Len(Answered(c, r)) = Len(r)
      /\ \A i \in 1..Len(r) : Answered(c, r)[i] = [cmd |-> c, kind |-> r[i]]
  BY AnswerLines
<1> DEFINE front == SubSeq(Answered(c, r), 1, Len(r) - 1)
           last  == [cmd |-> c, kind |-> r[Len(r)]]
<1>3. Len(r) - 1 \in 0..(Len(r) - 1) /\ Len(r) \in 1..Len(r)
  BY <1>1
<1>4. front \in Seq(Item) /\ AnswersIn(s \o front) = AnswersIn(s)
  BY <1>3, AnswersBroken
<1>5. last \in Item /\ last.kind \in EndKinds /\ last.cmd = c
  <2>1. r[Len(r)] \in Kinds
    BY <1>1, <1>3
  <2> QED BY <1>1, <1>3, <2>1 DEF Item, Lines
<1>6. s \o Answered(c, r) = Append(s \o front, last)
  <2>1. ASSUME NEW a \in Seq(Lines), NEW m \in Nat, Len(a) = m, m > 0
        PROVE  a = Append(SubSeq(a, 1, m - 1), a[m])
    BY <2>1
  <2>2. Answered(c, r) = Append(front, last)
    BY <1>1, <1>2, <1>3, <2>1
  <2> HIDE DEF front, last
  <2>3. s \o Append(front, last) = Append(s \o front, last)
    BY <1>4, <1>5
  <2> QED BY <2>2, <2>3
<1>7. s \o front \in Seq(Item)
  BY <1>4
<1> HIDE DEF front, last
<1>8. AnswersIn(Append(s \o front, last)) = Append(AnswersIn(s), c)
  BY <1>4, <1>5, <1>7, AnswersAppend
<1>9. Answered(c, r) \in Seq(Item)
  BY <1>2 DEF Item
<1> QED BY <1>6, <1>8, <1>9

-----------------------------------------------------------------------------
(* The transport of one caller implements CommandChannel.  A command has   *)
(* been counted before its answer is owed; nothing is sent or given up     *)
(* before a write; nothing of a process that no caller has read from is;   *)
(* and a response has a line.                                              *)
CountInv == Len(Owed) + (IF \E t \in Threads : th[t].pc \in Unsent THEN 1 ELSE 0) <= calls
SentInv  == \A t \in Threads : th[t].pc \in Unsent \cup {"idle"} => th[t].to = 0
NewInv   == \A p \in abandoned : /\ emu[p].st # "none"
                                 /\ \A t \in Threads : QueueDue(t) => process # p

TookInv  == \A t \in Threads : Responded(t) => th[t].got # <<>>

ChannelInv == CountInv /\ SentInv /\ NewInv /\ TookInv

(* What the calls of a step's caller and its command do.                   *)
Counts(t) ==
    /\ calls' \in {calls, calls + 1}
    /\ th'[t].pc \in Unsent => th[t].pc \in Unsent \/ calls' = calls + 1
    /\ th'[t].pc \in Unsent \cup {"idle"} => th'[t].to = 0

(* A quiet step of a caller that is not waiting, that takes its answer, or *)
(* that gives its command up.                                              *)
Rests(t)   == Quiet(t) /\ ~Waits(t) /\ ~Responded(t) /\ UNCHANGED abandoned
Returns(t) == Quiet(t) /\ Responded(t) /\ UNCHANGED <<emu, abandoned>>
GivesUp(t) == Quiet(t) /\ Waits(t) /\ UNCHANGED emu
              /\ abandoned' = abandoned \cup ({th[t].to} \ {0})

LEMMA GoesOn ==
    ASSUME TypeOK, NEW t \in Threads
    PROVE  /\ \A l : Goto(t, l) => th'[t].pc = l /\ th'[t].to = th[t].to
           /\ \A r : Return(t, r) => th'[t].pc = "idle" /\ th'[t].to = 0
           /\ \A r : End(t, r) => th'[t].pc = "release"
BY DEF TypeOK, CallersOK, CallerState, Goto, Return, End, Idle

LEMMA StartCounts ==
    ASSUME TypeOK, NEW t \in Threads, Start(t)
    PROVE  Counts(t) /\ UNCHANGED abandoned /\ ~Waits(t) /\ ~Responded(t)
<1> USE GoesOn DEF Counts, Unsent, Waits, Responded
<1>1. CASE StartCall(t)
  BY <1>1 DEF StartCall, Call
<1>2. CASE StartPoll(t)
  BY <1>2 DEF StartPoll
<1>3. CASE LaunchFails(t)
  BY <1>3 DEF LaunchFails
<1>4. CASE NewQueue(t)
  BY <1>4 DEF NewQueue
<1>5. CASE ReadQueue(t) \/ NewReader(t)
  BY <1>5 DEF ReadQueue, NewReader
<1>6. CASE StartReader(t)
  BY <1>6 DEF StartReader
<1>7. CASE ClearStopped(t)
  BY <1>7 DEF ClearStopped
<1>8. CASE CheckStdout(t)
  BY <1>8 DEF CheckStdout
<1>9. CASE ReadStdout(t)
  <2>1. process # 0 => th'[t].pc = "readQueue" /\ UNCHANGED calls
    BY <1>9 DEF ReadStdout, TypeOK, CallersOK, CallerState
  <2> QED BY <1>9, <2>1 DEF ReadStdout
<1>10. ASSUME NEW p \in Launches, Launch(t, p)
      PROVE  Counts(t) /\ UNCHANGED abandoned /\ ~Waits(t) /\ ~Responded(t)
  BY <1>10, LaunchEffect DEF Launch
<1> QED
  BY <1>1, <1>2, <1>3, <1>4, <1>5, <1>6, <1>7, <1>8, <1>9, <1>10 DEF Start

LEMMA StopCounts ==
    ASSUME TypeOK, NEW t \in Threads, Stop(t)
    PROVE  Counts(t) /\ UNCHANGED abandoned /\ ~Waits(t) /\ ~Responded(t)
<1> USE GoesOn DEF Counts, Unsent, Waits, Responded
<1>1. CASE StopCall(t)
  BY <1>1 DEF StopCall, Call
<1>2. CASE StopCheck(t)
  BY <1>2 DEF StopCheck
<1>3. CASE CloseStdin(t)
  BY <1>3 DEF CloseStdin
<1>4. CASE Terminate(t)
  BY <1>4 DEF Terminate
<1>5. CASE WaitExit(t)
  BY <1>5 DEF WaitExit
<1>6. CASE Kill(t)
  BY <1>6 DEF Kill
<1>7. CASE JoinCheck(t)
  BY <1>7 DEF JoinCheck
<1>8. CASE Join(t)
  BY <1>8 DEF Join
<1>9. CASE DropReader(t)
  BY <1>9 DEF DropReader
<1>10. CASE DropProcess(t)
  BY <1>10 DEF DropProcess
<1> QED BY <1>1, <1>2, <1>3, <1>4, <1>5, <1>6, <1>7, <1>8, <1>9, <1>10 DEF Stop

LEMMA LookCounts ==
    ASSUME TypeOK, NEW t \in Threads, Look(t)
    PROVE  Counts(t) /\ UNCHANGED abandoned /\ ~Waits(t) /\ ~Responded(t)
BY GoesOn DEF Look, LookCall, LookAgain, Call, Counts, Unsent, Waits, Responded

LEMMA ExecuteCounts ==
    ASSUME TypeOK, SentInv, NEW t \in Threads, Execute(t)
    PROVE  /\ Counts(t)
           /\ \/ Sends(t) \/ FetchLine(t) \/ Get(t)
              \/ ~Waits(t) /\ UNCHANGED abandoned /\ (Responded(t) => UNCHANGED emu)
              \/ /\ Waits(t) /\ ~Responded(t) /\ UNCHANGED emu
                 /\ abandoned' = abandoned \cup ({th[t].to} \ {0})
<1> USE GoesOn DEF Counts, Unsent, Waits, Responded
<1>1. CASE ExecCall(t)
  <2>1. /\ At(t, "idle") /\ calls' = calls + 1 /\ UNCHANGED <<emu, abandoned>>
        /\ \/ Return(t, "stopped")
           \/ th' = [th EXCEPT ![t] = [Idle("none") EXCEPT !.pc = "acquire", !.cmd = calls']]
    BY <1>1 DEF ExecCall, Call
  <2>2. th'[t].to = 0
    BY <2>1 DEF TypeOK, CallersOK, Idle
  <2> QED BY <2>1, <2>2
<1>2. CASE Acquire(t)
  BY <1>2 DEF Acquire, SentInv
<1>3. CASE Check(t)
  BY <1>3 DEF Check, End, SentInv
<1>4. CASE Poll(t)
  BY <1>4 DEF Poll, End, SentInv
<1>5. CASE Send(t)
  <2>1. CASE Sends(t)
    BY <1>5, <2>1 DEF Send, Sends, TypeOK, CallersOK, CallerState
  <2>2. CASE ~Sends(t)
    BY <1>5, <2>2 DEF Send, Sends, End, SentInv
  <2> QED BY <2>1, <2>2
<1>6. CASE Fetch(t)
  <2>1. CASE FetchLine(t)
    BY <1>6, <2>1 DEF Fetch, FetchLine
  <2>2. CASE ~FetchLine(t)
    <3>1. At(t, "fetch") /\ End(t, "timeout") /\ UNCHANGED <<emu, calls>>
      BY <1>6, <2>2 DEF Fetch, FetchLine, TypeOK, CallersOK, CallerState
    <3> QED BY <3>1 DEF End
  <2> QED BY <2>1, <2>2
<1>7. CASE Get(t)
  BY <1>7, GetEffect DEF Get, Consume
<1>8. CASE GetTimeout(t)
  BY <1>8 DEF GetTimeout, End
<1>9. CASE Release(t)
  BY <1>9 DEF Release
<1> QED BY <1>1, <1>2, <1>3, <1>4, <1>5, <1>6, <1>7, <1>8, <1>9 DEF Execute

(* The only caller is the one the mapping looks at.                        *)
LEMMA OnlyCaller ==
    ASSUME Alone, NEW t \in Threads
    PROVE  /\ CurrentCommand = IF Waits(t) \/ Responded(t) THEN th[t].cmd ELSE 0
           /\ CurrentCommand' = IF Waits(t)' \/ Responded(t)' THEN th'[t].cmd ELSE 0
           /\ Answering = IF Responded(t) THEN LastOf(th[t].got).cmd ELSE 0
           /\ Answering' = IF Responded(t)' THEN LastOf(th'[t].got).cmd ELSE 0
<1>1. \A u \in Threads : u = t
  BY DEF Alone
<1>2. \A u \in Threads : (Waiting(u) <=> Waits(u) \/ Responded(u))
  BY DEF Waiting, Waits
<1>3. \A u \in Threads : (Waiting(u)' <=> Waits(u)' \/ Responded(u)')
  BY DEF Waiting, Waits
<1>4. CurrentCommand = IF Waits(t) \/ Responded(t) THEN th[t].cmd ELSE 0
  BY <1>1, <1>2 DEF CurrentCommand
<1>5. CurrentCommand' = IF Waits(t)' \/ Responded(t)' THEN th'[t].cmd ELSE 0
  BY <1>1, <1>3 DEF CurrentCommand
<1>6. Answering = IF Responded(t) THEN LastOf(th[t].got).cmd ELSE 0
  BY <1>1 DEF Answering
<1>7. Answering' = IF Responded(t)' THEN LastOf(th'[t].got).cmd ELSE 0
  BY <1>1 DEF Answering
<1> QED BY <1>4, <1>5, <1>6, <1>7

(* What is owed by a launch.                                               *)
OwedBy(q) == AnswersIn(queue[q] \o emu[q].out) \o emu[q].inbox

LEMMA OwedType ==
    ASSUME TypeOK
    PROVE  /\ Owed = IF lineQueue = 0 THEN <<>> ELSE OwedBy(lineQueue)
           /\ lineQueue # 0 => lineQueue \in Launches
           /\ \A q \in Launches : /\ queue[q] \in Seq(Item) /\ emu[q].out \in Seq(Item)
                                  /\ queue[q] \o emu[q].out \in Seq(Item)
                                  /\ emu[q].inbox \in Seq(Commands)
                                  /\ AnswersIn(queue[q] \o emu[q].out) \in Seq(Commands)
                                  /\ OwedBy(q) \in Seq(Commands)
           /\ Owed \in Seq(Commands)
<1>1. lineQueue # 0 => lineQueue \in Launches
  BY DEF TypeOK, AttrsOK, LaunchOr0, Launches
<1>2. ASSUME NEW q \in Launches
      PROVE  /\ queue[q] \in Seq(Item) /\ emu[q].out \in Seq(Item)
             /\ queue[q] \o emu[q].out \in Seq(Item)
             /\ emu[q].inbox \in Seq(Commands)
             /\ AnswersIn(queue[q] \o emu[q].out) \in Seq(Commands)
             /\ OwedBy(q) \in Seq(Commands)
  <2>1. /\ queue[q] \in Seq(Item) /\ emu[q].out \in Seq(Lines)
        /\ emu[q].inbox \in Seq(Commands)
    BY ZeroOr DEF TypeOK, PipesOK, Process, Item
  <2>2. emu[q].out \in Seq(Item)
    BY <2>1 DEF Item
  <2>3. queue[q] \o emu[q].out \in Seq(Item)
    BY <2>1, <2>2
  <2>4. AnswersIn(queue[q] \o emu[q].out) \in Seq(Commands)
    BY <2>3, AnswersType
  <2> QED BY <2>1, <2>2, <2>3, <2>4 DEF OwedBy
<1>3. Owed = IF lineQueue = 0 THEN <<>> ELSE OwedBy(lineQueue)
  BY DEF Owed, OwedBy
<1> QED BY <1>1, <1>2, <1>3

(* Answers are lost from the end: when inboxes are emptied,                *)
Shorter == \E n \in 0..Len(Owed) : Owed' = SubSeq(Owed, 1, n)

LEMMA InboxLost ==
    ASSUME TypeOK, UNCHANGED <<lineQueue, queue>>,
           lineQueue # 0 => /\ emu'[lineQueue].out = emu[lineQueue].out
                            /\ emu'[lineQueue].inbox \in {emu[lineQueue].inbox, <<>>}
    PROVE  Shorter
<1>1. ASSUME NEW a \in Seq(Commands), NEW b \in Seq(Commands)
      PROVE  \E n \in 0..Len(a \o b) : a \o <<>> = SubSeq(a \o b, 1, n)
  <2>1. Len(a) \in 0..Len(a \o b) /\ a \o <<>> = SubSeq(a \o b, 1, Len(a))
    OBVIOUS
  <2> QED BY <2>1
<1>2. Owed \in Seq(Commands) /\ (UNCHANGED Owed => Shorter)
  <2>1. ASSUME NEW a \in Seq(Commands)
        PROVE  Len(a) \in 0..Len(a) /\ a = SubSeq(a, 1, Len(a))
    OBVIOUS
  <2>2. Owed \in Seq(Commands)
    BY OwedType
  <2> QED BY <2>1, <2>2 DEF Shorter
<1>3. CASE lineQueue = 0
  <2>1. UNCHANGED Owed
    BY <1>3 DEF Owed
  <2> QED BY <1>2, <2>1
<1>4. CASE lineQueue # 0
  <2>1. PICK a \in Seq(Commands), b \in Seq(Commands) :
            /\ a = AnswersIn(queue[lineQueue] \o emu[lineQueue].out)
            /\ b = emu[lineQueue].inbox
    BY <1>4, OwedType
  <2>2. Owed = a \o b /\ Owed' = a \o emu'[lineQueue].inbox
    BY <1>4, <2>1, OwedType DEF Owed
  <2>3. emu'[lineQueue].inbox \in {b, <<>>}
    BY <1>4, <2>1, OwedType
  <2> QED BY <1>1, <1>2, <2>2, <2>3 DEF Shorter
<1> QED BY <1>3, <1>4

(* and when s3270 dies.  When it answers none are.                         *)
LEMMA EmulatorOwes ==
    ASSUME TypeOK, NEW p \in Launches, Emulator(p)
    PROVE  Shorter
<1>0. /\ UNCHANGED <<lineQueue, queue>> /\ \A q \in Launches \ {p} : emu'[q] = emu[q]
  BY EmulatorEffect
<1>1. CASE emu'[p].out = emu[p].out /\ emu'[p].inbox \in {emu[p].inbox, <<>>}
  <2>1. lineQueue # 0 => /\ emu'[lineQueue].out = emu[lineQueue].out
                         /\ emu'[lineQueue].inbox \in {emu[lineQueue].inbox, <<>>}
    BY <1>0, <1>1, OwedType
  <2> QED BY <1>0, <2>1, InboxLost
<1>2. CASE ~(emu'[p].out = emu[p].out /\ emu'[p].inbox \in {emu[p].inbox, <<>>})
  <2>1. CASE lineQueue # p
    <3>1. lineQueue # 0 => emu'[lineQueue] = emu[lineQueue]
      BY <1>0, <2>1, OwedType
    <3> QED BY <1>0, <3>1, InboxLost
  <2>2. CASE lineQueue = p
    <3>1. PICK s \in Seq(Item), out \in Seq(Item), lines \in Seq(Item), b \in Seq(Commands) :
              /\ lines = queue[p] /\ out = emu[p].out /\ s = lines \o out
              /\ b = emu[p].inbox /\ AnswersIn(s) \in Seq(Commands)
      BY OwedType
    <3>2. lineQueue # 0
      BY <2>2 DEF Launches
    <3>3. Owed = AnswersIn(s) \o b /\ Owed' = AnswersIn(lines \o emu'[p].out) \o emu'[p].inbox
      BY <1>0, <2>2, <3>1, <3>2 DEF Owed
    <3>4. b # <<>>
      BY <1>2, <3>1, EmulatorEffect
    <3>5. PICK c \in Commands : c = Head(b) /\ b = <<c>> \o Tail(b) /\ Tail(b) \in Seq(Commands)
      <4>1. ASSUME NEW z \in Seq(Commands), z # <<>>
            PROVE  Head(z) \in Commands /\ z = <<Head(z)>> \o Tail(z) /\ Tail(z) \in Seq(Commands)
        BY <4>1
      <4> QED BY <3>1, <3>4, <4>1
    <3>6. ASSUME NEW more \in Seq(Item) PROVE lines \o (out \o more) = s \o more
      <4>1. ASSUME NEW x \in Seq(Item), NEW y \in Seq(Item), NEW z \in Seq(Item)
            PROVE  x \o (y \o z) = (x \o y) \o z
        OBVIOUS
      <4>2. lines \o (out \o more) = (lines \o out) \o more
        BY <4>1
      <4> QED BY <3>1, <4>2
    <3>7. CASE \E r \in Replies : /\ emu'[p].inbox = Tail(b)
                                  /\ emu'[p].out = out \o Answered(c, r)
      <4>1. PICK r \in Replies : /\ emu'[p].inbox = Tail(b)
                                 /\ emu'[p].out = out \o Answered(c, r)
        BY <3>7
      <4>2. Owed' = Append(AnswersIn(s), c) \o Tail(b)
        <5>1. /\ Answered(c, r) \in Seq(Item)
              /\ AnswersIn(s \o Answered(c, r)) = Append(AnswersIn(s), c)
          BY AnswersWhole
        <5>2. lines \o emu'[p].out = s \o Answered(c, r)
          BY <3>6, <4>1, <5>1
        <5> QED BY <3>3, <4>1, <5>1, <5>2
      <4>3. ASSUME NEW x \in Seq(Commands), NEW y \in Seq(Commands)
            PROVE  Append(x, c) \o y = x \o (<<c>> \o y)
        OBVIOUS
      <4>4. Owed' = Owed
        <5>1. Append(AnswersIn(s), c) \o Tail(b) = AnswersIn(s) \o (<<c>> \o Tail(b))
          BY <3>1, <3>5, <4>3
        <5>2. <<c>> \o Tail(b) = b
          BY <3>5
        <5> QED BY <3>3, <4>2, <5>1, <5>2
      <4>5. Len(Owed) \in 0..Len(Owed) /\ Owed = SubSeq(Owed, 1, Len(Owed))
        BY OwedType
      <4> QED BY <4>4, <4>5 DEF Shorter
    <3>8. CASE /\ emu'[p].inbox = <<>>
               /\ \E r \in Replies : \E n \in 0..(Len(r) - 1) :
                     emu'[p].out = out \o SubSeq(Answered(c, r), 1, n)
      <4>1. PICK r \in Replies : \E n \in 0..(Len(r) - 1) :
                     emu'[p].out = out \o SubSeq(Answered(c, r), 1, n)
        BY <3>8
      <4>2. PICK n \in 0..(Len(r) - 1) : emu'[p].out = out \o SubSeq(Answered(c, r), 1, n)
        BY <4>1
      <4>3. Owed' = AnswersIn(s) \o <<>>
        <5>1. /\ SubSeq(Answered(c, r), 1, n) \in Seq(Item)
              /\ AnswersIn(s \o SubSeq(Answered(c, r), 1, n)) = AnswersIn(s)
          BY AnswersBroken
        <5>2. lines \o emu'[p].out = s \o SubSeq(Answered(c, r), 1, n)
          BY <3>6, <4>2, <5>1
        <5> QED BY <3>3, <3>8, <5>1, <5>2
      <4>4. ASSUME NEW x \in Seq(Commands), NEW y \in Seq(Commands)
            PROVE  Len(x) \in 0..Len(x \o y) /\ x \o <<>> = SubSeq(x \o y, 1, Len(x))
        OBVIOUS
      <4> QED BY <3>1, <3>3, <4>3, <4>4 DEF Shorter
    <3>9. \/ emu'[p].inbox = Tail(b) /\ \E r \in Replies : emu'[p].out = out \o Answered(c, r)
          \/ /\ emu'[p].inbox = <<>>
             /\ \E r \in Replies : \E n \in 0..(Len(r) - 1) :
                   emu'[p].out = out \o SubSeq(Answered(c, r), 1, n)
      BY <1>2, <3>1, <3>5, EmulatorEffect
    <3> QED BY <3>7, <3>8, <3>9
  <2> QED BY <2>1, <2>2
<1> QED BY <1>1, <1>2

(* What a reader thread hands on stays owed, and the end marker is no      *)
(* answer.                                                                 *)
LEMMA ReaderOwes ==
    ASSUME TypeOK, StreamInv, NEW q \in Launches, Reader(q)
    PROVE  UNCHANGED Owed
<1>1. UNCHANGED lineQueue
  BY ReaderEffect
<1>2. CASE lineQueue # q
  <2>1. lineQueue # 0 => /\ queue'[lineQueue] = queue[lineQueue]
                         /\ emu'[lineQueue] = emu[lineQueue]
    BY <1>2, ReaderEffect, OwedType, ZeroOr
  <2> QED BY <1>1, <2>1 DEF Owed
<1>3. CASE lineQueue = q
  <2>1. PICK lines \in Seq(Item), out \in Seq(Item) : lines = queue[q] /\ out = emu[q].out
    BY OwedType
  <2>2. lineQueue # 0 /\ emu'[q].inbox = emu[q].inbox
    BY <1>3, ReaderEffect DEF Launches
  <2>3. AnswersIn(queue'[q] \o emu'[q].out) = AnswersIn(queue[q] \o emu[q].out)
    <3>1. CASE out # <<>> /\ queue'[q] = Append(lines, Head(out)) /\ emu'[q].out = Tail(out)
      <4>1. Append(lines, Head(out)) \o Tail(out) = lines \o out
        BY <3>1
      <4> QED BY <2>1, <3>1, <4>1
    <3>2. CASE out = <<>> /\ queue'[q] = Append(lines, EOF) /\ emu'[q].out = <<>>
      <4>1. Append(lines, EOF) \o <<>> = Append(lines, EOF) /\ lines \o <<>> = lines
        BY DEF Item
      <4>2. AnswersIn(Append(lines, EOF)) = AnswersIn(lines)
        BY AnswersAppend DEF Item, EOF, EndKinds
      <4> QED BY <2>1, <3>2, <4>1, <4>2
    <3> QED BY <2>1, <3>1, <3>2, ReaderEffect
  <2> QED BY <1>1, <1>3, <2>2, <2>3 DEF Owed
<1> QED BY <1>2, <1>3

(* A caller that takes a line takes the oldest answer if the line ends one. *)
LEMMA GetOwes ==
    ASSUME TypeOK, CallerInv, NEW t \in Threads, Get(t), NEW item, item = Head(queue[lineQueue])
    PROVE  /\ lineQueue \in Launches /\ item \in Item /\ UNCHANGED lineQueue
           /\ IF item.kind \in EndKinds
              THEN Owed # <<>> /\ Head(Owed) = item.cmd /\ Owed' = Tail(Owed)
              ELSE UNCHANGED Owed
<1>1. /\ th[t].from = lineQueue /\ lineQueue \in Launches
      /\ queue[lineQueue] # <<>> /\ UNCHANGED <<lineQueue, emu>>
      /\ queue' = [queue EXCEPT ![lineQueue] = Tail(queue[lineQueue])]
  BY GetEffect DEF CallerInv, Waits, Get, Consume
<1>2. PICK lines \in Seq(Item), out \in Seq(Item), b \in Seq(Commands) :
          /\ lines = queue[lineQueue] /\ out = emu[lineQueue].out /\ b = emu[lineQueue].inbox
  BY <1>1, OwedType
<1>3. lines # <<>> /\ item = Head(lines) /\ item \in Item /\ Tail(lines) \in Seq(Item)
  BY <1>1, <1>2
<1>4. queue'[lineQueue] = Tail(lines)
  BY <1>1, <1>2, ZeroOr DEF TypeOK, PipesOK
<1>5. lineQueue # 0
  BY <1>1 DEF Launches
<1>6. /\ Owed = AnswersIn(lines \o out) \o b
      /\ Owed' = AnswersIn(Tail(lines) \o out) \o b
  BY <1>1, <1>2, <1>4, <1>5 DEF Owed
<1>7. /\ lines \o out \in Seq(Item) /\ lines \o out # <<>> /\ Head(lines \o out) = item
      /\ Tail(lines \o out) = Tail(lines) \o out /\ Tail(lines) \o out \in Seq(Item)
  BY <1>3
<1>8. AnswersIn(lines \o out) = IF item.kind \in EndKinds
                                THEN <<item.cmd>> \o AnswersIn(Tail(lines) \o out)
                                ELSE AnswersIn(Tail(lines) \o out)
  BY <1>7, AnswersHead
<1>9. AnswersIn(Tail(lines) \o out) \in Seq(Commands)
  BY <1>7, AnswersType
<1>10. CASE item.kind \in EndKinds
  <2>1. item.cmd \in Commands
    BY <1>3, <1>10 DEF Item, Lines, EOF, EndKinds
  <2>2. ASSUME NEW c \in Commands, NEW x \in Seq(Commands), NEW y \in Seq(Commands)
        PROVE  /\ (<<c>> \o x) \o y # <<>> /\ Head((<<c>> \o x) \o y) = c
               /\ Tail((<<c>> \o x) \o y) = x \o y
    OBVIOUS
  <2>3. Owed = (<<item.cmd>> \o AnswersIn(Tail(lines) \o out)) \o b
    BY <1>6, <1>8, <1>10
  <2>4. Owed # <<>> /\ Head(Owed) = item.cmd /\ Tail(Owed) = Owed'
    <3>1. PICK x \in Seq(Commands) : x = AnswersIn(Tail(lines) \o out)
      BY <1>9
    <3>2. Owed = (<<item.cmd>> \o x) \o b /\ Owed' = x \o b
      BY <1>6, <2>3, <3>1
    <3> QED BY <2>1, <2>2, <3>2
  <2> QED BY <1>1, <1>3, <1>10, <2>4
<1>11. CASE item.kind \notin EndKinds
  BY <1>1, <1>3, <1>6, <1>8, <1>11
<1> QED BY <1>10, <1>11

(* The command written is the youngest owed.                               *)
LEMMA SendOwes ==
    ASSUME TypeOK, FreshInv, NEW t \in Threads, Sends(t), process = lineQueue
    PROVE  Owed' = Append(Owed, th[t].cmd) /\ th[t].cmd \in Commands
<1>1. /\ lineQueue \in Launches /\ UNCHANGED <<lineQueue, queue>>
      /\ emu'[lineQueue].out = emu[lineQueue].out
      /\ emu'[lineQueue].inbox = Append(emu[lineQueue].inbox, th[t].cmd)
      /\ At(t, "send")
  BY SendEffect
<1>2. th[t].cmd \in Commands
  BY <1>1 DEF TypeOK, CallersOK, InTry
<1>3. PICK x \in Seq(Commands), y \in Seq(Commands) :
          /\ x = AnswersIn(queue[lineQueue] \o emu[lineQueue].out)
          /\ y = emu[lineQueue].inbox
  BY <1>1, OwedType
<1>4. lineQueue # 0
  BY <1>1 DEF Launches
<1>5. Owed = x \o y /\ Owed' = x \o Append(y, th[t].cmd)
  BY <1>1, <1>3, <1>4 DEF Owed
<1>6. ASSUME NEW c \in Commands PROVE x \o Append(y, c) = Append(x \o y, c)
  OBVIOUS
<1> QED BY <1>2, <1>5, <1>6

(* A new line queue owes nothing.                                          *)
LEMMA NewQueueOwes ==
    ASSUME Alone, TypeOK, PairFree, PipeInv, NewInv, NEW t \in Threads, NewQueue(t)
    PROVE  Owed' = <<>> /\ lineQueue' \notin abandoned'
<1>1. /\ At(t, "newQueue") /\ process \in Launches /\ lineQueue' = process
      /\ UNCHANGED <<emu, queue, abandoned>>
  BY NewQueueEffect DEF PairFree
<1>2. process \notin abandoned
  BY <1>1 DEF NewInv, QueueDue
<1>3. rdr[process].st = "none" /\ queue[process] = <<>>
  BY <1>1 DEF PairFree, PairInv, StreamInv, Installs
<1>4. \A u \in Threads : ~Waits(u)
  BY <1>1 DEF Alone, Waits
<1>5. emu[process].out = <<>> /\ emu[process].inbox = <<>>
  BY <1>1, <1>2, <1>4 DEF PipeInv, Silent
<1>6. process # 0
  BY <1>1 DEF Launches
<1>7. Owed' = AnswersIn(<<>> \o <<>>) \o <<>>
  BY <1>1, <1>3, <1>5, <1>6 DEF Owed
<1>8. <<>> \o <<>> = <<>>
  OBVIOUS
<1> QED BY <1>1, <1>2, <1>7, <1>8, AnswersEmpty

(* A quiet step takes nothing but what an inbox held.                      *)
LEMMA QuietOwes ==
    ASSUME TypeOK, NEW t \in Threads, Quiet(t)
    PROVE  Shorter /\ (UNCHANGED emu => UNCHANGED Owed)
<1>1. UNCHANGED <<lineQueue, queue>>
  BY DEF Quiet
<1>2. lineQueue # 0 => /\ emu'[lineQueue].out = emu[lineQueue].out
                       /\ emu'[lineQueue].inbox \in {emu[lineQueue].inbox, <<>>}
  BY OwedType DEF Quiet, PipesKept
<1>3. Shorter
  BY <1>1, <1>2, InboxLost
<1>4. UNCHANGED emu => UNCHANGED Owed
  BY <1>1 DEF Owed
<1> QED BY <1>3, <1>4

(* The kinds of steps, with what becomes of the command.                   *)
LEMMA SoloKinds ==
    ASSUME Alone, TypeOK, FreshInv, SentInv, NEW t \in Threads, Caller(t)
    PROVE  /\ Counts(t)
           /\ \/ Rests(t) \/ Returns(t) \/ GivesUp(t)
              \/ (Checks(t) \/ NewQueue(t) \/ ReadQueue(t)) /\ ~Waits(t) /\ ~Responded(t)
              \/ \E p \in Launches : Launch(t, p) /\ ~Waits(t) /\ ~Responded(t)
              \/ Sends(t) \/ FetchLine(t) \/ Get(t)
<1>1. ~Rivals
  BY DEF Alone, Rivals
<1>2. CASE Start(t)
  BY <1>2, StartKinds, StartCounts DEF Rests
<1>3. CASE Stop(t)
  BY <1>1, <1>3, StopKinds, StopCounts DEF Rests
<1>4. CASE Look(t)
  BY <1>4, LookKinds, LookCounts DEF Rests
<1>5. CASE Execute(t)
  BY <1>5, ExecuteKinds, ExecuteCounts DEF Rests, Returns, GivesUp
<1> QED BY <1>2, <1>3, <1>4, <1>5 DEF Caller

(* Every step of a caller is one of the channel's, or none.                *)
LEMMA CallerRefines ==
    ASSUME Alone, SoloInv, ChannelInv, NEW t \in Threads, Caller(t)
    PROVE  Channel!Next \/ UNCHANGED Channel!vars
<1> USE DEF SoloInv, AnswerFree, OwnFree, ChannelInv
<1> DEFINE behind == lineQueue \in abandoned
<1>0. /\ Counts(t) /\ FreshInv /\ PairInv /\ StreamInv /\ PairFree /\ PipeInv /\ CallerInv
      /\ lineQueue # 0 => lineQueue \in Launches
      /\ Owed \in Seq(Commands) /\ Len(Owed) \in Nat /\ calls \in Nat /\ calls <= MaxCalls
  BY SoloKinds, OwedType, BoundsAssumption DEF PairFree, TypeOK, AttrsOK
<1>1. /\ CurrentCommand = IF Waits(t) \/ Responded(t) THEN th[t].cmd ELSE 0
      /\ CurrentCommand' = IF Waits(t)' \/ Responded(t)' THEN th'[t].cmd ELSE 0
      /\ Answering = IF Responded(t) THEN LastOf(th[t].got).cmd ELSE 0
      /\ Answering' = IF Responded(t)' THEN LastOf(th'[t].got).cmd ELSE 0
  BY OnlyCaller
<1>2. Waits(t) => ~Responded(t)
  BY DEF Waits, Responded
<1>3. Waits(t) \/ Responded(t) => th[t].cmd \in Commands /\ th[t].cmd # 0
  BY DEF TypeOK, CallersOK, InTry, Waits, Responded, Commands
<1>4. CASE Rests(t)
  <2>1. CurrentCommand' = CurrentCommand /\ Answering' = Answering /\ UNCHANGED behind
    BY <1>1, <1>4 DEF Rests, Quiet
  <2>2. \E n \in 0..Len(Owed) : Owed' = SubSeq(Owed, 1, n)
    BY <1>4, QuietOwes DEF Rests, Shorter
  <2>3. Channel!Lose
    BY <2>1, <2>2 DEF Channel!Lose
  <2> QED BY <2>3 DEF Channel!Next
<1>5. CASE Returns(t)
  <2>1. Answering' = 0 /\ CurrentCommand' = 0 /\ UNCHANGED behind /\ UNCHANGED Owed
    BY <1>1, <1>5, QuietOwes DEF Returns, Quiet
  <2>2. Answering # 0
    <3>1. th[t].got \in Seq(Lines) /\ th[t].got # <<>> /\ Responded(t)
      BY <1>5 DEF Returns, TookInv, TypeOK, CallersOK, CallerState
    <3>2. LastOf(th[t].got) \in Lines
      BY <3>1 DEF LastOf
    <3> QED BY <1>1, <3>1, <3>2 DEF Lines, Commands
  <2>3. Channel!Return
    BY <2>1, <2>2 DEF Channel!Return
  <2> QED BY <2>3 DEF Channel!Next
<1>6. CASE GivesUp(t)
  <2>1. /\ CurrentCommand' = 0 /\ Answering' = Answering /\ Answering = 0 /\ CurrentCommand # 0
        /\ UNCHANGED Owed
    BY <1>1, <1>2, <1>3, <1>6, QuietOwes DEF GivesUp, Quiet
  <2>2. behind' = TRUE
    BY <1>6 DEF GivesUp, Quiet, CallerInv, Launches
  <2>3. Channel!GiveUp
    BY <2>1, <2>2 DEF Channel!GiveUp
  <2> QED BY <2>3 DEF Channel!Next
<1>7. CASE NewQueue(t) /\ ~Waits(t) /\ ~Responded(t)
  <2>1. /\ Answering' = Answering /\ CurrentCommand' = CurrentCommand /\ CurrentCommand = 0
        /\ th'[t].pc = "readStdout"
    BY <1>0, <1>1, <1>7, NewQueueEffect DEF Waits, Responded
  <2>2. Owed' = <<>> /\ behind' = FALSE
    BY <1>0, <1>7, NewQueueOwes
  <2>3. Channel!Restart
    BY <2>1, <2>2 DEF Channel!Restart
  <2> QED BY <2>3 DEF Channel!Next
<1>8. CASE (Checks(t) \/ ReadQueue(t)) /\ ~Waits(t) /\ ~Responded(t)
  <2>1. /\ UNCHANGED <<lineQueue, queue, emu, abandoned>>
        /\ th'[t].pc \in {"newQueue", "readQueue", "newReader"}
    BY <1>0, <1>8, ChecksEffect, ReadQueueEffect
  <2>2. Answering' = Answering /\ CurrentCommand' = CurrentCommand /\ UNCHANGED behind
    BY <1>1, <1>8, <2>1 DEF Waits, Responded
  <2>3. UNCHANGED Owed
    BY <2>1 DEF Owed
  <2> QED BY <2>2, <2>3 DEF Channel!vars
<1>9. ASSUME NEW p \in Launches, Launch(t, p), ~Waits(t), ~Responded(t)
      PROVE  UNCHANGED Channel!vars
  <2>1. /\ UNCHANGED <<lineQueue, queue, abandoned>> /\ th'[t].pc = "checkStdout"
        /\ \A q \in Launches : emu'[q].out = emu[q].out /\ emu'[q].inbox = emu[q].inbox
    BY <1>9, LaunchEffect
  <2>2. Answering' = Answering /\ CurrentCommand' = CurrentCommand /\ UNCHANGED behind
    BY <1>1, <1>9, <2>1 DEF Waits, Responded
  <2>3. UNCHANGED Owed
    BY <1>0, <2>1 DEF Owed
  <2> QED BY <2>2, <2>3 DEF Channel!vars
<1>10. CASE Sends(t)
  <2>1. /\ At(t, "send") /\ th'[t].pc = "fetch" /\ th'[t].cmd = th[t].cmd
        /\ UNCHANGED <<lineQueue, abandoned>> /\ process # 0
    BY <1>0, <1>10, SendEffect DEF Launches
  <2>2. process = lineQueue
    BY <1>0, <2>1 DEF PairInv, QueueDue, Alone
  <2>3. Owed' = Append(Owed, th[t].cmd) /\ th[t].cmd \in Commands
    BY <1>0, <1>10, <2>2, SendOwes
  <2>4. Len(Owed) < MaxCalls
    <3>1. Len(Owed) + 1 <= calls
      BY <2>1 DEF CountInv, Unsent
    <3> QED BY <1>0, <3>1, BoundsAssumption
  <2>5. CurrentCommand = 0 /\ CurrentCommand' = th[t].cmd /\ Answering' = Answering
        /\ UNCHANGED behind
    BY <1>1, <2>1 DEF Waits, Responded
  <2>6. Channel!Write(th[t].cmd)
    BY <2>3, <2>4, <2>5 DEF Channel!Write
  <2> QED BY <2>3, <2>6 DEF Channel!Next
<1>11. CASE FetchLine(t)
  <2>1. /\ UNCHANGED <<lineQueue, queue, emu, abandoned>> /\ At(t, "fetch")
        /\ th'[t].pc = "get" /\ th'[t].cmd = th[t].cmd
    BY <1>11, FetchEffect
  <2>2. Answering' = Answering /\ CurrentCommand' = CurrentCommand /\ UNCHANGED behind
    BY <1>1, <2>1 DEF Waits, Responded
  <2>3. UNCHANGED Owed
    BY <2>1 DEF Owed
  <2> QED BY <2>2, <2>3 DEF Channel!vars
<1>12. CASE Get(t)
  <2>1. PICK q, item : /\ q = lineQueue /\ q = th[t].from /\ item = Head(queue[q])
                       /\ th[t].to = q /\ q \in Launches /\ At(t, "get")
    BY <1>0, <1>12 DEF CallerInv, Waits, Get, Consume
  <2>2. /\ item \in Item /\ UNCHANGED lineQueue
        /\ IF item.kind \in EndKinds
           THEN Owed # <<>> /\ Head(Owed) = item.cmd /\ Owed' = Tail(Owed)
           ELSE UNCHANGED Owed
    BY <1>0, <1>12, <2>1, GetOwes
  <2>3. th'[t].cmd = th[t].cmd /\ CurrentCommand = th[t].cmd /\ CurrentCommand # 0 /\ Answering = 0
    BY <1>1, <1>2, <1>3, <1>12, <2>1, GetEffect DEF Waits
  <2>4. /\ item = EOF => /\ th'[t].pc = "release" /\ th'[t].result = "process"
                         /\ abandoned' = abandoned \cup ({th[t].to} \ {0})
    BY <1>12, <2>1, GetEffect
  <2>5. item # EOF => /\ th'[t].got = Append(th[t].got, item) /\ UNCHANGED abandoned
                      /\ IF item.kind \in EndKinds
                         THEN th'[t].pc = "release" /\ th'[t].result = "answered"
                         ELSE th'[t].pc = "fetch"
    BY <1>12, <2>1, GetEffect
  <2>6. CASE item = EOF
    <3>1. item.kind \notin EndKinds
      BY <2>6 DEF EOF, EndKinds
    <3>2. Answering' = 0 /\ CurrentCommand' = 0 /\ behind' = TRUE /\ UNCHANGED Owed
      <4>1. UNCHANGED <<lineQueue, Owed>>
        BY <2>2, <3>1
      <4>2. lineQueue \in abandoned'
        BY <2>1, <2>4, <2>6 DEF Launches
      <4>3. ~Waits(t)' /\ ~Responded(t)'
        BY <2>4, <2>6 DEF Waits, Responded
      <4> QED BY <1>1, <4>1, <4>2, <4>3
    <3>3. Channel!GiveUp
      BY <2>3, <3>2 DEF Channel!GiveUp
    <3> QED BY <3>3 DEF Channel!Next
  <2>7. CASE item # EOF /\ item.kind \in EndKinds
    <3>1. CurrentCommand' = CurrentCommand /\ UNCHANGED behind /\ Responded(t)'
      BY <1>1, <2>2, <2>3, <2>5, <2>7 DEF Responded
    <3>2. Answering' = item.cmd
      <4>1. th[t].got \in Seq(Lines)
        BY DEF TypeOK, CallersOK, CallerState
      <4>2. ASSUME NEW got \in Seq(Lines) PROVE LastOf(Append(got, item)) = item
        BY DEF LastOf
      <4>3. LastOf(th'[t].got) = item
        BY <2>5, <2>7, <4>1, <4>2
      <4> QED BY <1>1, <3>1, <4>3
    <3>3. Channel!Respond
      BY <2>2, <2>3, <2>7, <3>1, <3>2 DEF Channel!Respond
    <3> QED BY <3>3 DEF Channel!Next
  <2>8. CASE item # EOF /\ item.kind \notin EndKinds
    <3>1. /\ UNCHANGED Owed /\ UNCHANGED behind
          /\ CurrentCommand' = CurrentCommand /\ Answering' = Answering
      BY <1>1, <2>2, <2>3, <2>5, <2>8 DEF Waits, Responded
    <3> QED BY <3>1 DEF Channel!vars
  <2> QED BY <2>6, <2>7, <2>8
<1>13. \/ Rests(t) \/ Returns(t) \/ GivesUp(t)
       \/ (Checks(t) \/ NewQueue(t) \/ ReadQueue(t)) /\ ~Waits(t) /\ ~Responded(t)
       \/ \E p \in Launches : Launch(t, p) /\ ~Waits(t) /\ ~Responded(t)
       \/ Sends(t) \/ FetchLine(t) \/ Get(t)
  BY <1>0, SoloKinds
<1> HIDE DEF SoloInv, ChannelInv
<1> QED
  BY <1>4, <1>5, <1>6, <1>7, <1>8, <1>9, <1>10, <1>11, <1>12, <1>13

(* The invariants of the mapping are inductive: a caller's step,           *)
LEMMA CallerKeepsChannel ==
    ASSUME Alone, SoloInv, ChannelInv, NEW t \in Threads, Caller(t)
    PROVE  ChannelInv'
<1> USE DEF SoloInv, AnswerFree, OwnFree, ChannelInv
<1>0. /\ Counts(t) /\ FreshInv /\ PairInv /\ StreamInv /\ PairFree /\ PipeInv /\ CallerInv
      /\ lineQueue # 0 => lineQueue \in Launches /\ emu[lineQueue].st # "none"
      /\ \A u \in Threads : u = t
  BY SoloKinds, OwedType DEF PairFree, PairInv, Alone
<1>1. \/ Rests(t) \/ Returns(t) \/ GivesUp(t)
      \/ (Checks(t) \/ NewQueue(t) \/ ReadQueue(t)) /\ ~Waits(t) /\ ~Responded(t)
      \/ \E p \in Launches : Launch(t, p) /\ ~Waits(t) /\ ~Responded(t)
      \/ Sends(t) \/ FetchLine(t) \/ Get(t)
  BY <1>0, SoloKinds
<1>2. SentInv'
  BY <1>0 DEF SentInv, Counts
<1>3. PICK n \in Nat, busy \in {0, 1} : /\ n = Len(Owed) /\ n + busy <= calls
                                        /\ busy = 1 <=> th[t].pc \in Unsent
  <2>1. Len(Owed) \in Nat
    BY OwedType
  <2>2. Len(Owed) + (IF th[t].pc \in Unsent THEN 1 ELSE 0) <= calls
    BY <1>0 DEF CountInv
  <2>3. PICK busy \in {0, 1} : busy = IF th[t].pc \in Unsent THEN 1 ELSE 0
    OBVIOUS
  <2> QED BY <2>1, <2>2, <2>3
<1>4. ASSUME Len(Owed') \in 0..n PROVE CountInv'
  <2>1. Len(Owed') + (IF th'[t].pc \in Unsent THEN 1 ELSE 0) <= calls'
    <3>1. calls \in Nat /\ calls' \in {calls, calls + 1}
      BY <1>0 DEF Counts, TypeOK, AttrsOK
    <3>2. th'[t].pc \in Unsent => busy = 1 \/ calls' = calls + 1
      BY <1>0, <1>3 DEF Counts
    <3>3. Len(Owed') <= n /\ Len(Owed') \in Nat /\ n + busy <= calls
      BY <1>3, <1>4
    <3> QED BY <3>1, <3>2, <3>3
  <2> QED BY <1>0, <2>1 DEF CountInv
<1>5. ASSUME \/ UNCHANGED Owed
             \/ Owed' = <<>>
             \/ Owed # <<>> /\ Owed' = Tail(Owed)
             \/ Shorter
      PROVE  Len(Owed') \in 0..n
  <2>1. Owed \in Seq(Commands) /\ n = Len(Owed)
    BY <1>3, OwedType
  <2> QED BY <1>5, <2>1 DEF Shorter
<1>6. ASSUME abandoned' \subseteq abandoned \cup ({lineQueue} \ {0}),
             \A p \in Launches : emu[p].st # "none" => emu'[p].st # "none",
             \/ UNCHANGED process /\ (QueueDue(t)' => QueueDue(t) /\ UNCHANGED abandoned)
             \/ ~QueueDue(t)'
      PROVE  NewInv'
  <2>1. \A p \in abandoned : p \in Launches
    BY DEF TypeOK, AttrsOK
  <2> QED BY <1>0, <1>6, <2>1 DEF NewInv
<1>7. CASE Rests(t) \/ Returns(t) \/ GivesUp(t)
  <2>1. Quiet(t) /\ Shorter
    BY <1>7, QuietOwes DEF Rests, Returns, GivesUp
  <2>2. ~QueueDue(t)' /\ ~Responded(t)'
    BY <2>1 DEF Quiet, QueueDue, Installs
  <2>3. abandoned' \subseteq abandoned \cup ({lineQueue} \ {0})
    BY <1>0, <1>7 DEF Rests, Returns, GivesUp, CallerInv
  <2>4. \A p \in Launches : emu[p].st # "none" => emu'[p].st # "none"
    BY <2>1 DEF Quiet, StatusKept
  <2>5. CountInv' /\ NewInv'
    BY <1>4, <1>5, <1>6, <2>1, <2>2, <2>3, <2>4
  <2> QED BY <1>0, <1>2, <2>2, <2>5 DEF TookInv
<1>8. CASE NewQueue(t)
  <2>1. Owed' = <<>> /\ th'[t].pc = "readStdout" /\ UNCHANGED <<emu, abandoned>>
    BY <1>0, <1>8, NewQueueOwes, NewQueueEffect
  <2>2. CountInv' /\ NewInv'
    BY <1>4, <1>5, <1>6, <2>1 DEF QueueDue
  <2> QED BY <1>0, <1>2, <2>1, <2>2 DEF TookInv, Responded
<1>9. CASE Checks(t) \/ ReadQueue(t)
  <2>1. /\ UNCHANGED <<process, lineQueue, queue, emu, abandoned>>
        /\ th'[t].pc \in {"newQueue", "readQueue", "newReader"}
        /\ QueueDue(t)' => QueueDue(t)
    BY <1>0, <1>9, ChecksEffect, ReadQueueEffect DEF QueueDue
  <2>2. UNCHANGED Owed
    BY <2>1 DEF Owed
  <2>3. CountInv' /\ NewInv'
    BY <1>4, <1>5, <1>6, <2>1, <2>2
  <2> QED BY <1>0, <1>2, <2>1, <2>3 DEF TookInv, Responded
<1>10. ASSUME NEW p \in Launches, Launch(t, p) PROVE ChannelInv'
  <2>1. /\ UNCHANGED <<lineQueue, queue, abandoned>> /\ th'[t].pc = "checkStdout" /\ process' = p
        /\ \A q \in Launches : emu'[q].out = emu[q].out /\ emu'[q].inbox = emu[q].inbox
        /\ emu[p].st = "none" /\ emu'[p].st = "running"
        /\ \A q \in Launches \ {p} : emu'[q].st = emu[q].st
    BY <1>10, LaunchEffect
  <2>2. UNCHANGED Owed
    BY <1>0, <2>1 DEF Owed
  <2>3. CountInv'
    BY <1>4, <1>5, <2>2
  <2>4. NewInv'
    <3>1. p \notin abandoned /\ \A q \in abandoned : q \in Launches /\ emu[q].st # "none"
      BY <2>1 DEF NewInv, TypeOK, AttrsOK
    <3> QED BY <2>1, <3>1 DEF NewInv
  <2> QED BY <1>0, <1>2, <2>1, <2>3, <2>4 DEF TookInv, Responded
<1>11. CASE Sends(t)
  <2>1. /\ At(t, "send") /\ th'[t].pc = "fetch" /\ UNCHANGED <<process, abandoned>>
        /\ \A q \in Launches : emu'[q].st = emu[q].st
    BY <1>0, <1>11, SendEffect
  <2>2. Owed' = Append(Owed, th[t].cmd) /\ th[t].cmd \in Commands
    <3>1. process = lineQueue
      <4>1. process # 0
        BY <1>11 DEF Sends
      <4> QED BY <1>0, <2>1, <4>1 DEF PairInv, QueueDue
    <3> QED BY <1>0, <1>11, <3>1, SendOwes
  <2>3. CountInv'
    <3>1. Len(Owed') = n + 1
      BY <1>3, <2>2, OwedType
    <3>2. n + 1 <= calls /\ calls \in Nat /\ calls' \in {calls, calls + 1}
      BY <1>0, <1>3, <2>1 DEF Unsent, Counts, TypeOK, AttrsOK
    <3>3. \A u \in Threads : th'[u].pc \notin Unsent
      BY <1>0, <2>1 DEF Unsent
    <3>4. n + 1 <= calls'
      BY <3>2
    <3> QED BY <3>1, <3>3, <3>4 DEF CountInv
  <2>4. NewInv'
    BY <1>6, <2>1 DEF QueueDue
  <2> QED BY <1>0, <1>2, <2>1, <2>3, <2>4 DEF TookInv, Responded
<1>12. CASE FetchLine(t)
  <2>1. UNCHANGED <<lineQueue, queue, emu, abandoned>> /\ th'[t].pc = "get"
    BY <1>12, FetchEffect
  <2>2. UNCHANGED Owed
    BY <2>1 DEF Owed
  <2>3. CountInv' /\ NewInv'
    BY <1>4, <1>5, <1>6, <2>1, <2>2 DEF QueueDue
  <2> QED BY <1>0, <1>2, <2>1, <2>3 DEF TookInv, Responded
<1>13. CASE Get(t)
  <2>1. PICK q, item : /\ q = lineQueue /\ q = th[t].from /\ item = Head(queue[q])
                       /\ th[t].to = q /\ q \in Launches /\ At(t, "get")
    BY <1>0, <1>13 DEF CallerInv, Waits, Get, Consume
  <2>2. IF item.kind \in EndKinds THEN Owed # <<>> /\ Owed' = Tail(Owed) ELSE UNCHANGED Owed
    BY <1>0, <1>13, <2>1, GetOwes
  <2>3. UNCHANGED emu
    BY <1>13, <2>1, GetEffect
  <2>4. item = EOF => /\ th'[t].pc = "release" /\ th'[t].result = "process"
                      /\ abandoned' = abandoned \cup ({th[t].to} \ {0})
    BY <1>13, <2>1, GetEffect
  <2>5. item # EOF => /\ th'[t].got = Append(th[t].got, item) /\ UNCHANGED abandoned
                      /\ th'[t].pc \in {"release", "fetch"}
    BY <1>13, <2>1, GetEffect
  <2>6. ~QueueDue(t)' /\ abandoned' \subseteq abandoned \cup ({lineQueue} \ {0})
    BY <2>1, <2>4, <2>5 DEF QueueDue
  <2>7. CountInv'
    BY <1>4, <1>5, <2>2
  <2>8. NewInv'
    BY <1>6, <2>3, <2>6
  <2>9. Responded(t)' => th'[t].got # <<>>
    <3>1. th[t].got \in Seq(Lines)
      BY DEF TypeOK, CallersOK, CallerState
    <3>2. Append(th[t].got, item) # <<>>
      BY <3>1
    <3> QED BY <2>4, <2>5, <3>2 DEF Responded
  <2> QED BY <1>0, <1>2, <2>7, <2>8, <2>9 DEF TookInv
<1> HIDE DEF SoloInv, ChannelInv
<1> QED BY <1>1, <1>7, <1>8, <1>9, <1>10, <1>11, <1>12, <1>13

(* and one of s3270 or of a reader thread, which is one of the channel's   *)
(* too, or none.                                                           *)
LEMMA OthersRefine ==
    ASSUME SoloInv, ChannelInv, NEW q \in Launches, Emulator(q) \/ Reader(q)
    PROVE  (Channel!Next \/ UNCHANGED Channel!vars) /\ ChannelInv'
<1> USE DEF SoloInv, AnswerFree, PairFree, ChannelInv
<1>1. UNCHANGED <<process, lineQueue, th, abandoned>>
  BY EmulatorEffect, ReaderEffect
<1>2. CurrentCommand' = CurrentCommand /\ Answering' = Answering
  BY <1>1 DEF CurrentCommand, Answering, Waiting, Responded
<1>3. Owed \in Seq(Commands) /\ (Shorter \/ UNCHANGED Owed)
  BY OwedType, EmulatorOwes, ReaderOwes
<1>4. UNCHANGED calls
  BY DEF Emulator, Reader, Answer, Die, Exit, ReadLine, ReadEOF
<1>5. \A p \in Launches : emu[p].st # "none" => emu'[p].st # "none"
  BY EmulatorEffect, ReaderEffect DEF StatusKept
<1>6. Channel!Next \/ UNCHANGED Channel!vars
  <2>1. CASE Shorter
    <3>1. Channel!Lose
      BY <1>1, <1>2, <2>1 DEF Channel!Lose, Shorter
    <3> QED BY <3>1 DEF Channel!Next
  <2>2. CASE UNCHANGED Owed
    BY <1>1, <1>2, <2>2 DEF Channel!vars
  <2> QED BY <1>3, <2>1, <2>2
<1>7. CountInv'
  <2>1. PICK n \in Nat, busy \in {0, 1} :
            /\ n = Len(Owed) /\ n + busy <= calls
            /\ busy = IF \E t \in Threads : th[t].pc \in Unsent THEN 1 ELSE 0
    <3>1. Len(Owed) \in Nat
      BY <1>3
    <3>2. PICK busy \in {0, 1} : busy = IF \E t \in Threads : th[t].pc \in Unsent THEN 1 ELSE 0
      OBVIOUS
    <3> QED BY <3>1, <3>2 DEF CountInv
  <2>2. Len(Owed') \in 0..n
    <3>1. n = Len(Owed)
      BY <2>1
    <3> QED BY <1>3, <3>1 DEF Shorter
  <2>3. calls \in Nat
    BY DEF TypeOK, AttrsOK
  <2>4. Len(Owed') + busy <= calls
    <3>1. n + busy <= calls
      BY <2>1
    <3> QED BY <2>2, <2>3, <3>1
  <2> QED BY <1>1, <1>4, <2>1, <2>4 DEF CountInv
<1>8. SentInv' /\ TookInv'
  BY <1>1 DEF SentInv, TookInv, Responded
<1>9. NewInv'
  <2>1. \A p \in abandoned : p \in Launches
    BY DEF TypeOK, AttrsOK
  <2> QED BY <1>1, <1>5, <2>1 DEF NewInv, QueueDue
<1> QED BY <1>6, <1>7, <1>8, <1>9

(* The transport of one thread is a channel whose answers come in the      *)
(* order of the commands, and none from before a restart (lines 98-112 and *)
(* 163-204).                                                               *)
THEOREM SoloImplements == ASSUME Alone PROVE Spec => ImplementsChannel
<1>1. Init => ChannelInv /\ Channel!Init
  <2> SUFFICES ASSUME Init PROVE ChannelInv /\ Channel!Init
    OBVIOUS
  <2>1. /\ lineQueue = 0 /\ abandoned = {} /\ calls = 0
        /\ \A t \in Threads : /\ th[t].pc = "idle" /\ th[t].to = 0 /\ ~Responded(t) /\ ~Waiting(t)
    BY DEF Init, Idle, Responded, Waiting
  <2>2. Owed = <<>> /\ CurrentCommand = 0 /\ Answering = 0
    BY <2>1 DEF Owed, CurrentCommand, Answering
  <2>3. CountInv
    <3>1. Len(Owed) = 0
      BY <2>2
    <3>2. ~ \E t \in Threads : th[t].pc \in Unsent
      BY <2>1 DEF Unsent
    <3> QED BY <2>1, <3>1, <3>2 DEF CountInv
  <2>4. ChannelInv
    BY <2>1, <2>3 DEF ChannelInv, SentInv, NewInv, TookInv
  <2>5. Channel!Init
    BY <2>1, <2>2 DEF Channel!Init
  <2> QED BY <2>4, <2>5
<1>2. SoloInv /\ ChannelInv /\ [Next]_vars
        => ChannelInv' /\ [Channel!Next]_(Channel!vars)
  <2> SUFFICES ASSUME SoloInv, ChannelInv, [Next]_vars
               PROVE  ChannelInv' /\ (Channel!Next \/ UNCHANGED Channel!vars)
    OBVIOUS
  <2>1. CASE UNCHANGED vars
    BY <2>1 DEF vars, attrs, ChannelInv, CountInv, SentInv, NewInv, QueueDue, TookInv, Owed, Responded,
            Channel!vars, CurrentCommand, Answering, Waiting
  <2>2. CASE Next
    BY <2>2, CallerRefines, CallerKeepsChannel, OthersRefine DEF Next
  <2> QED BY <2>1, <2>2
<1>3. Spec => []SoloInv
  BY SoloHolds
<1> QED BY <1>1, <1>2, <1>3, PTL DEF Spec, ImplementsChannel, Channel!Spec
=============================================================================
