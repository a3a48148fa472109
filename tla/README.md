# Verification of py3270

py3270 (`ibm3270/`) drives IBM 3270 terminals from Python. Each session owns one
`s3270` subprocess that speaks a line protocol on stdin and stdout: the program
writes a command, the process writes data lines, a status line, and `ok` or
`error`. There are no command numbers: an answer belongs to a command by its
position only. This directory holds TLA+ models of the parts where order,
threads and failures matter, TLC configurations that check them, and proofs for
TLAPS.

## Inventory of the system

| Part | State | Operations | Talks to |
|---|---|---|---|
| `Transport` (`transport.py`) | `_process`, `_line_queue`, `_reader`, `_stopped`, `_inflight_lock` | `start`, `stop`, `execute`, `available`, `pid` | s3270 by pipes, the reader thread by the line queue |
| `_StdoutReader` (`transport.py`) | its stream and queue | `run` | puts lines and one end marker into the queue it was made with |
| `Terminal` (`terminal.py`) | `_connected`, `_state`, `_last_status_info`, `_screen_buffer` | `start`, `stop`, `command`, `connect`, `disconnect`, `refresh`, keys, typing, `wait_*`, `expect`, `read*`, `find`, queries | its `Transport` |
| `SessionManager` (`session_manager.py`) | `_sessions` under `_lock` | `create_session`, `get_session`, `close_session`, `close_all`, `list_sessions` | `Terminal.start`, `Terminal.stop` |
| `_ResponseParser` (`_parser.py`) | `_buffer`, `_lines` | `feed` | a callback; no other part uses it |
| `parse_status`, `validate_escape_sequences` (`_parser.py`) | none | pure functions | called by `Terminal` |
| types and errors | none | declarations | everybody |
| documentation search (`docs/api_reference/search.js`) | an index over the documented names | `pdocSearch(term)` | the pages of the generated API documentation, which ask it; not the Python program |
| `bin/demo_real_session.py` | none | a script over the API | `Terminal` |

What is hard, part by part, and what makes the part correct:

* **Transport.** Any attribute may change between two lines of `start`, `stop` and
  `execute`, because only `execute` takes a lock, and only for itself. The process can
  die, ignore SIGTERM, answer late or never. Correct means: one command in flight; a
  response is the answer of its command; no answer survives a restart; no process
  without a handle; every call comes back; readers end.
* **Reader thread.** It outlives `stop()` when its join times out. Correct means: it
  never writes to the queue of another launch, the end marker is the last thing it
  writes, and it ends.
* **Terminal.** A method is a sequence of commands, each of which may fail, time out or
  find the process dead, with assignments to the object after them. Correct means: what
  the object says (state, keyboard flag, screen) agrees with the emulator.
* **SessionManager.** The registry changes under its lock, sessions start and stop
  outside of it. Correct means: a running session can be closed, none is stopped twice,
  closed ones do stop.
* **Pure functions.** Boundaries: rows and columns out of range, negative slices, chunk
  borders, run lengths in escapes, malformed status lines. Correct means: the result is that
  of a definition by positions.
* **Documentation search.** Generated by pdoc around a vendored library; its own logic is
  which parts of the library's pipeline it removes, which fields it indexes and how it asks.
  Correct means: a name is found by the words that are there, whichever they are.

`PROJECT.json` lists these hazards at their lines with the properties that catch them.

## Modules

| Module | Models |
|---|---|
| `Transport` | `transport.py`: callers, reader threads and processes, one shared access per step |
| `TransportRaces` | the same with a history of the calls that have overlapped |
| `CommandChannel` | the abstract specification: what `execute()` promises |
| `TransportChannel` | the refinement mapping from `Transport` to `CommandChannel` |
| `Terminal` | `terminal.py` over a `CommandChannel`, with an emulator and a host |
| `SessionManager` | `session_manager.py` |
| `ResponseParser` | `_ResponseParser` of `_parser.py`, character by character |
| `Inputs` | one call of a pure function, for the four modules below |
| `Screen` | `read`, `find`, `read_many` and the text of `write` of `terminal.py` |
| `EscapeValidator` | `validate_escape_sequences` of `_parser.py` |
| `StatusLine` | `parse_status` of `_parser.py`, and the getters over what it returns |
| `DocSearch` | the search script of the API documentation |
| `MCTransport`, `MCTransportRaces`, `MCCommandChannel`, `MCTerminal`, `MCSessionManager`, `MCFunctions` | small instances |
| `TransportProofs`, `TransportRacesProofs`, `TransportAnswersProofs` | theorems about the transport: types and lock; harm and overlaps; answers, one caller, the refinement |
| `CommandChannelProofs`, `TerminalProofs`, `SessionManagerProofs` | theorems about the channel, the terminal over it, the manager |
| `ScreenProofs`, `FunctionProofs` | theorems about the pure functions and the response parser |

Each module also holds a few *faulty variants*: an action as it would be after a plausible
slip in the code (a dropped line, a lock not looked at). They are in no specification; put
in the place of the action they vary, they break the property that guards it, which shows
that the property has teeth.

### Transport

Variables are the attributes of the object (`process`, `lineQueue`, `reader`, `stopped`,
`lock`), the processes with their pipes (`emu`), the reader threads (`rdr`), the line queues
(`queue`) and the callers (`th`, with a program counter). Launches are numbered; a launch
number names the process, the queue and the reader that one `start()` makes, and 0 is `None`
(for `lineQueue`, the queue of `__init__`). Every action names its lines. The grain is one
access to something another thread may change: `available()` is two steps because it reads
`_process` twice, each line of `stop()` reads it anew, and line 110 is three steps: it reads the
process, then the line queue, then stores the reader, so that two racing `start()` calls can tie
a reader of one process to the queue of the other. Exceptions that the code does not
convert (attribute of `None`, `assert`, write to a closed file, a thread started twice) are
the result `"internal"`, the only way to end a call that is remembered after it.

Abstractions: a line is its command and one of four kinds (data, status, ok, error), since
`_read_response` looks only at the kind; time is left out, a wait with a timeout may end
whenever the code would let the timeout win; a full pipe is left out. The emulator is
external: it answers in order, may stay silent, and dies at any moment, also in the middle
of an answer, its pipes closing before `poll()` can see it.

`abandoned` is a history variable: launches of which a command was given up.

`pid()` and `available()` are one operation, `Look`: both read `_process` twice and take no
lock. `Terminal.command()` calls the second before every command and the first, for its log,
after every response.

### TransportRaces

Nothing but `execute()` takes a lock, so threads that call `start()` and `stop()` against each
other, or against an `execute()`, do harm. `seen` records which overlaps there have been:
`"rivals"`, two threads inside `start()` or `stop()`; `"twins"`, two threads inside `start()` that
have a new process each and make their readers (lines 98-110); `"swap"`, a `start()` that replaced the
line queue under an `execute()`; `"early"`, an `execute()` while a `start()` has a new process but
still the old line queue (lines 98-109); `"any"`, a `start()` or `stop()` that overlapped any other
call. `"early"` is there because of the proof of `OwnNeedsEarly`: with five calls a thread can
write to the new process, be answered from the old queue, and leave its own answer to the next
caller, though the queue was replaced under nobody. Each property but `OneInFlight`, which holds in any case,
says of one kind of harm which overlap it needs, and each does occur once that overlap has: without the excuse every one of these
properties fails in the same instance, and `RefusalNeedsCrossing` also with only one of its two.

### CommandChannel and TransportChannel

The channel has the commands whose answers are owed, the command in flight, the answer handed
to the caller, and `behind`: a command of this process was given up, or was in flight when it
was started (`RestartUnder`). A caller gets the oldest answer owed, whichever that is. `TransportChannel` computes these from the pipes, the queue
and the callers: the answers owed are the commands of the end lines (`AnswersIn`) in the line
queue and the pipe, and then those the process has not read. Run `transport_solo` checks
`Channel!Spec` as a property of the transport, and `SoloImplements` proves it.

### Terminal

`Terminal` uses the channel in place of the transport. That is what `SoloImplements`
justifies for one thread; for several, `MutualExclusion` shows that the lock keeps executions apart,
`OwnAnswerNeedsEarly` and `MixtureNeedsSwap` that their answers do not get mixed up,
and `FlagNeedsCrossing` that nothing but a crossing of launches stops a running transport. A
`start()` while another caller is in a method (`Overlapped`) is the channel's `RestartUnder`: the
answers of the process before may be gone or still be taken for those of the new one, the channel is
`behind` from then on, and a caller that still meets the old end marker sets the flag of the new
process (`Died`, `CallStopped`). Three restrictions remain: a `start()` and a `stop()` change the
transport in one step each, so that two of them never overlap here (`Transport` has that), the
exceptions that such an overlap raises are not seen, and neither are answers cut off by a dying
process.

A method is the list of its commands (`Script`) and what is done at the end (`Finish`,
`WaitForEnds`, `WaitForAgain`). `Take` is the assignment of status and screen, a step of its
own, because `execute()` has released the lock by then. `buffer` keeps which command's output
is stored as the screen, whether that was an error, and which of the host's screens it shows;
`status` keeps the keyboard field of the last status line. The emulator and the host are
external: a key locks the keyboard, the host unlocks it and sends screens in any order, as often as
it likes, `Wait(Unlock)` blocks while the keyboard is locked, the host may drop the connection, s3270
may die. What a method returns is left
out; which action ends it tells. Two calls change nothing and are left out: `disconnect()`
without a connection and `wait_for()` with a timeout of zero. `TextRefused` is the `ValueError`
of `string()`, which comes after `write()` has moved the cursor. `lost` is a history variable:
the host or s3270 went away on its own, which no line of the code looks for.

`KeyWaitsForUnlock` says what `enter()` and its like can promise: they return when the keyboard is
free again, and the screen they leave was read then. It is not said that this is the host's reply,
since a host may unlock the keyboard before it sends. `AnswerIsOwn` compares the command whose
answer `execute()` returns with the very command the caller wrote.

### SessionManager

Of a session the model keeps whether its process runs and whether its `Transport` has the handle
of the process. `Create` and `Register` are apart because `start()` runs before the lock is
taken; a `stop()` looks for the handle (`EnterStop`), ends the process (`EndProcess`) and drops
the handle (`LeaveStop`), so that a `start()` through a handle that somebody took from
`get_session()` can come in between, or after the session left the registry. `StopRaises` is the
exception of `transport.py` 138, which needs another `stop()` or `start()` of the same session at
work. `aborted` and `revived` are history variables for the two ways to lose a running session.
The order in which `close_all()` stops its sessions is left open.

### ResponseParser

The pure part that remembers: `feed()` with its loop, over an alphabet that has what the code
tells apart (CR, LF, the letters of `ok`, a word for each of the two prefixes). The reference,
`ResponsesOf(LinesOf(fed))`, is defined by the positions of LF and of end lines in the whole
text. A turn of the loop is `TakeLine`; the loop is a recursive function of the number of turns
(`Drain`), as many as there are characters in the buffer.

### Screen, EscapeValidator, StatusLine, DocSearch

Functions without state, as operators. `Inputs` declares the one variable `input`, a call with
its arguments; `MCFunctions` starts from every call in its bounds and the properties are
invariants that compare the operator with a reference written without the code's method:
`Region` by cells instead of Python slices (`Clip` and `Slice` are Python's, with negative
indices), `WellFormed` by the parity of backslashes and the length of runs instead of a scan.

`Screen` has three characters: a blank, a digit for what `float()` takes, a letter for the rest.
`EscapeValidator` has one character for each class that the scan and its patterns tell apart;
`\d` also takes digits of other scripts, which is why "N" is there. In `StatusLine` a field
is one of the values that decide about it, every mode of `types.py` among them, or junk. In
`DocSearch` a text is a sequence of words and a word a sequence of letters: the separators of line 7,
ranking and the library's index structure are left out. Of the vendored library (line 2) there are
the three functions of a new index's pipeline, of which the script leaves the trimmer (it strips what
is not a word character at both ends of a word, in the index and in the term), and the expansion of a
word of the term to all words that start with it, the empty word to none. `FoundWhileTyping` is why
the script removes the other two: a stemmed or filtered index would not have the words that a reader
has half typed.

## Runs

| Run | Instance | Shows |
|---|---|---|
| `transport_solo` | 1 thread, 2 launches, 5 calls, 2 answer shapes | `ResponseIsOwn`, `RunningAccepts`, `NoStrayProcess`, `EOFIsLast`, `ImplementsChannel` |
| `transport_races` | 2 threads with every method, 2 launches, 4 calls | `StrayNeedsRivals`, `RefusalNeedsCrossing`, `OwnNeedsEarly`, `MixNeedsSwap`, `InternalNeedsOverlap`, `OneInFlight` |
| `transport_rivals` | 2 controlling threads, 2 launches, 3 calls | `TypeOK`, `CallsReturn`, `ReadersEnd` |
| `channel` | 3 commands, 4 owed | `InStepInv` |
| `terminal_session` | 1 thread, every method, 2 screens | `TypeOK`, `FailedMeansDead`, `DisconnectedMeansNoHost`, `ConnectedMeansHost`, `KeyWaitsForUnlock`, `KeyboardFlagIsTrue`, `BufferMovesForward`, `MethodsReturn` |
| `terminal_pair` | 2 threads, 3 commands, no new screens | `AnswerIsOwn` |
| `manager` | 2 threads, every operation, 2 sessions | `TypeOK`, `RunningIsReachable`, `StoppedOnce`, `ClosedIsStopped` |
| `functions` | texts of up to 7 characters in chunks of up to 4; screens of up to 2 rows of 3; escapes with up to 6 characters after them; 1 or 2 status lines; 2 documents | `ChunksDoNotMatter`, `RestIsKept`, `ReadIsRegion`, `ReadFits`, `FindAgrees`, `NumbersSurviveTrim`, `VerdictByPositions`, `CutIsSafe`, `FlagsAreOfLastLine`, `FoundWhileTyping` |
| `late_reply`, `noop_disconnect`, `wait_for_raises`, `find_blank` | as above | the disagreements below |

Bounds. Five calls are enough to start, give up a command, stop, start again and execute: the
shortest way for an answer to reach the wrong launch. Two launches give every restart. Four
calls let a `start`, an `execute`, a `stop` and another `start` overlap in any way, or two
`execute` calls with a restart between them after a crash; three let a `start` or `stop` overlap
another one and an `execute`. The two threads of `transport_races` are interchangeable, and its
properties are invariants, so it uses their symmetry. With `MaxBehind = 1` a Terminal method
begins only when no late answer is pending (the properties say nothing about a session that is
behind, except that methods return; two threads can still meet a late answer of the other);
`MaxIds` stops no command of one thread under it. Two screens let a key be pressed on one and
answered by the other; `AnswerIsOwn` looks at no screen, so `terminal_pair` has none. Three commands
there are one in flight, one whose answer its caller still has in hand, and one given up. Two sessions let `close_all()` be in the first with the second to come, while the other
thread closes, stops or starts either. Seven characters hold two responses, or one with data and
a status, in up to seven chunks. Rows of three cells have a beginning, an inside and an end, and
columns, rows and lengths go beyond them on both sides. Six characters after the opening of an
escape hold the longest run of hexadecimal digits that is clamped and what follows it. Deadlock
is not checked in the runs whose calls are bounded: when the calls are used up the system may rest.

Fairness. `Transport`: a thread inside a call is scheduled, and a reader whose `readline()` can
return is too; nobody has to call anything and s3270 need not answer. `Terminal`: a method
that was called goes on (weak fairness: `execute()` has a deadline), and the deadline of
`wait_for()` comes (strong fairness of `WaitForEnds`, which is enabled again in every turn of
the loop; line 569 compares with a fixed moment). `SessionManager`: a thread inside a method
goes on, since `start()` and `stop()` have time limits.

## What is proved

Every property that a passing run checks is also a theorem, but for the four about liveness. A
theorem says for all values of the constants (threads, methods, shapes of answers, bounds, screens,
texts) what the run shows of a small instance; it assumes no more than the named assumptions of the
modules, and `Alone` where it says so. Each inductive invariant was first checked with TLC.

### Transport, any number of threads

* `TransportProofs!TypeCorrect`: `TypeOK` is inductive as it stands, because it also says that a
  caller between `acquire` and `release` has a command, and that a reader that exists has a
  stream. One lemma per method (start, stop, execute) and one for the environment.
* `TransportProofs!MutualExclusion`: `Spec => []OneInFlight`: one thread inside, and the lock held for
  such a thread only, so that no exception keeps it. `OneInFlight` is not inductive: a release by one
  of two threads inside could let a third in. `LockInv`, that the threads inside are the ones the lock
  names, is, and implies it.
* `TransportRacesProofs!LossNeedsRivals`: `RacesSpec => []StrayNeedsRivals`. That a running process
  is the one the handle names is not inductive: a thread at `launch` must know that no process
  runs, one at the end of `stop()` that the process is gone, and both only hold while nobody else
  is in control. `StrayInv` says so: rivals have been seen, or there are none and `StrayFree`.
* `TransportRacesProofs!FlagNeedsCrossing`: `RacesSpec => []RefusalNeedsCrossing`. The flag is set by
  whoever takes an end marker from a line queue, so `RefusalInv` is about queues: a `start()` that makes
  its reader has a launch of its own (`LaunchInv`); the process and the queue it finds at line 110 are
  that launch's, a reader fills the queue of its own process, and an end marker is there only when that
  process is gone (`OwnInv`); callers read from the current queue (`FromInv`); and who left the flag set
  at a running process is still there to mend it (`MendInv`). A swap breaks this, and so do two `start()`
  calls that make their readers at the same time; the other overlaps of `start()` and `stop()` do not.
* `TransportRacesProofs!InternalErrorNeedsOverlap`: `RacesSpec => []InternalNeedsOverlap`.
  `OverlapInv` says, for each exception, why a thread that is alone in a call does not meet it: the
  handle it has tested is still there (`HandleInv`), the reader it starts or joins was created and
  not started (`ReaderInv`), stdin is closed only inside a `stop()` (`StdinInv`).
* `TransportAnswersProofs!OwnAnswerNeedsEarly`: `RacesSpec => []OwnNeedsEarly`. `PairFree`: process,
  queue and reader of one launch belong together, and the end marker is the last line; `OwnFree`: a
  caller reads from the queue of the process it wrote to, and unless a command of the launch was
  given up, the lines it has got, the queue and the pipe together are the beginning of its own
  answer, or nothing is on the way for anybody.
* `TransportAnswersProofs!MixtureNeedsSwap`: `RacesSpec => []MixNeedsSwap`, also once commands were
  given up, when one caller's answer is another's. `ChainInv`: what a caller has got, followed by
  the queue and the pipe, is a chain of answers, each the end of one answer and the last
  one whole while the process lives; so what is cut off at the first end line is of one answer.

### Transport, one caller

`Alone` says that there is at most one thread; crashes, timeouts and restarts stay. Its overlaps
are then impossible and the excuses above drop out (`SoloInv`).

* `SoloAnswers`, `SoloEnds`, `SoloAccepts`, `SoloKeepsHandle`: `ResponseIsOwn`, `EOFIsLast`,
  `RunningAccepts` and `NoStrayProcess`, without an excuse.
* `SoloImplements`: `Spec => ImplementsChannel`, the refinement. The initial states map to initial
  states, and every step is a step of the channel or leaves it unchanged: `send` is `Write`, an end
  line taken is `Respond`, the end of a call is `Return` or `GiveUp`, a death loses what has not been
  answered, `newQueue` is `Restart`. `ChannelInv` adds to `SoloInv` what that takes:
  no more is owed than there were calls (`CountInv`), nothing is owed for a command that was not
  written (`SentInv`), a new launch was never given up on (`NewInv`), a response has a line
  (`TookInv`).

### Channel and terminal

* `CommandChannelProofs!InStepHolds`: `InStepInv` is inductive as it stands. Unless a command was given
  up, or the process replaced under one, nothing is owed but the answer of the command in flight.
* `TerminalProofs!TypeCorrect`, `OwnAnswers`: `[]TypeOK` and the action property `AnswerIsOwn`, for any
  number of threads and any methods, restarts under a command among them. `HandInv` says that a command
  number is that of one command only, from its write until the caller is done with the answer; `WaitInv`
  that the command in flight is that of the one caller that waits; `OwnInv` that what was replied to it
  is of its kind; and `InStepInv` holds of the terminal's channel.
* `SoloFailure`, `SoloDisconnected`, `SoloConnected`, `SoloKeyboard`, `SoloKey`, `SoloBuffer`:
  `FailedMeansDead`, `DisconnectedMeansNoHost`, `ConnectedMeansHost`, `KeyboardFlagIsTrue`,
  `KeyWaitsForUnlock`
  and the action property `BufferMovesForward`, for one thread (`Alone`), which is all that the code can
  promise: the object has no lock of its own. `SoloInv` follows the caller through its method: what it
  has in hand when it has taken a reply (`StageInv`), that a failure is the process's end (`FailInv`),
  that nothing is newer than the reply at hand (`ReplyInv`), what a connect or disconnect under way
  already knows (`StateInv`), and that after the `Wait(Unlock)` behind a key the keyboard stays free
  and no screen is older than the key (`KeyInv`). A session that is behind is left out by the properties themselves.

### Session manager

* `SessionManagerProofs!TypeCorrect`, `Reachability` and `ClosersAreDisjoint`: `Spec => []TypeOK`,
  `[]RunningIsReachable` and `[]StoppedOnce`, for any threads and number of sessions. `ReachableInv`
  adds that what a thread stops is among what it has to do, and that what runs at the end of a
  `stop()` was revived; `OwnersInv` adds that what a closer has is in the registry no more.

### Functions

`input` never changes, so these are implications from the shape of the call: `ReadCall`, `FindCall`,
`ReadManyCall`, `StatusCall`, `ValidateCall` and `WriteCall` say that the arguments are of their types,
nothing about their size.

* `ScreenProofs!ReadReturnsRegion`, `ReadNeverOverflows`, `FindIsSound` and `TrimKeepsNumbers`: for every
  screen, row, column and length a `read()` is its region and no longer than asked for, what `find()`
  finds is there, and whether a field is a number does not hang on `trim`. The lemmas say what a Python
  slice is when an index is negative or too large.
* `FunctionProofs!FlagsFollowLastLine`, `VerdictOfEveryText`, `CutOfEveryText`, `SearchFindsWhileTyping`:
  status lines in any number, texts, lengths, indexes and terms of every size.
* `FunctionProofs!ChunksNeverMatter` and `RestStays`: `Spec => []ChunksDoNotMatter` and `[]RestIsKept` of
  the response parser, for chunks and texts of every length. `ParserInv`: the text fed is a text of
  whole lines followed by the buffer, the responses emitted and the lines kept are those of these
  lines, and the buffer holds no LF. A turn of the loop (`TakeLineParses`) and so the loop
  (`DrainParses`) keep it.

Induction over data. The library's induction theorems take an operator, which the provers cannot
instantiate, so the proofs about scans, folds and loops argue by a least counterexample
(`Least`, from the well-foundedness of the numbers): a recursive function exists up to every bound,
and the first place where it would not have the property has a predecessor that does. For this
`Drain`, `AnswersIn`, `Positions`, `After` and the scan of the validator are recursive functions, not
RECURSIVE operators.

### Only model-checked

`CallsReturn`, `ReadersEnd`, `MethodsReturn` and `ClosedIsStopped`: liveness under fairness is out of the
prover's reach, as is ENABLED. The four properties of the runs that expect a violation are false. The
refinement of the channel is proved and checked for one caller; for several threads its
consequences are proved (own answers, no mixtures, mutual exclusion), not the refinement itself.

## Where code and documentation differ

* `late_reply`: a timeout leaves the answer behind in the queue; the next `execute()` returns it
  (`types.py` 102, 108).
* `noop_disconnect`: `disconnect()` of an emulator that has a host can be a no-op, since
  `connect()` notes the connection only at its very end (`terminal.py` 238).
* `wait_for_raises`: `wait_for()` raises when a refresh times out (`06_waiting_for_changes.md` 30).
* `find_blank`: `find()` at a position never finds a text that ends in a blank, since it compares
  with a trimmed read (`terminal.py` 369, 383).

Three more have no run of their own:

* A read after a key. The user guide says that a read right after `enter()` or `pf()` shows the old
  screen, and to wait for the keyboard first (`06_waiting_for_changes.md` 7-9, `05_sending_input.md` 30;
  likewise `04_reading_the_screen.md` 192 and `08_troubleshooting.md` 223-229). The code
  waits: `enter()`, `clear()`, `pf()` and `pa()` end in `refresh()`, which sends `Wait(Unlock)` before it
  reads the screen (`terminal.py` 314, 430-434, 445). `KeyWaitsForUnlock` is what the code does. The guide
  is right as far as the host may unlock the keyboard before it sends its reply.
* Status lines that cannot be parsed. `parse_status()` returns `None` "so callers can safely skip"
  (`_parser.py` 76-77), and a `StatusInfo` is "updated after each successful command" (`types.py` 135).
  `command()` skips nothing: it stores the `None` over the status before, and it stores the status of a
  command that failed as well (`terminal.py` 157-158). `FlagsAreOfLastLine` is what the code does.
* `wait_unlock()` that times out: the guide has a response with `ok` false (`06_waiting_for_changes.md`
  59, "False if timeout"); the code raises `SessionTimeoutError` (`TimedOut`).

Also seen in the models, where no document promises otherwise for several threads: two racing
`start()` calls launch two processes, one without a handle; a `stop()` that races a `start()`
drops the handle of the new process; a `stop()` during `execute()` or `pid()` surfaces as
`ValueError`, `AssertionError` or `AttributeError`, also after the response was read, through the
log line of `command()`; a restart during `execute()` can join lines of two processes in one
response, hand out another command's answer, or set the stopped flag of the new transport; and two
racing `start()` calls can tie a reader to the other's queue, with the same end. `TransportRaces` says which overlap each
of these needs. An exception in `close_all()` leaves the later sessions running and unregistered,
and a `start()` through a handle of a closed session makes a process the manager does not know
(`RunningIsReachable` says that these are the only ways). A session keeps saying `Connected` after
its host dropped. `disconnect()` raises when its command times out.

Seen in the functions: a negative length, or a column below 1, reads from the wrong end of the row;
`read_many()` stores the blanks of a blank numeric field when `trim` is false, where its docstring
(394) has `None` in mind; `write()` fills its text up on the right, where its docstring (360) says
right-justify, and may cut an escape in two; `\pf1` followed by a digit of another script is
accepted; after a malformed status line every flag is false, also that of the keyboard lock.

## Not modelled

* Start arguments, the connect address, the formatting of commands: strings.
* `list_sessions()` and the plain getters: they only read.
* Argument checks that raise before any command; logging (but for the `pid()` it calls); the demo
  script; declarations; tests.
* What a method returns; the responses `run_workflow()` loses when one of its commands raises are in
  no state.
* Of the documentation search: tokenizing, ranking, the vendored library's own data structures.
* A full pipe or a full memory; wall-clock time.

## Plan

Done: every module above with its runs; a theorem for every safety and action property that a run
checks, and the refinement for one caller. What remains: the refinement for several
threads of which only one starts and stops, with the excuse of an early `execute()`.
