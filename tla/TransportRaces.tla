--------------------------- MODULE TransportRaces ---------------------------
(***************************************************************************)
(* Transport shared by threads that start, stop and execute against each   *)
(* other, with a history of the overlaps that took place.  No method but   *)
(* execute() takes a lock, so overlaps do harm; what is said here is which *)
(* harm needs which overlap.                                               *)
(***************************************************************************)
EXTENDS Transport

VARIABLE seen   \* history: the kinds of overlap there have been

allVars == <<vars, seen>>

(* Two threads are inside start() or stop().                               *)
Rivals == \E t, u \in Threads : t # u /\ InControl(t) /\ InControl(u)

(* Two start() calls have a new process each and make their readers (lines *)
(* 98-110).                                                                *)
Installs == {"checkStdout", "newQueue", "readStdout", "readQueue"}

Twins == \E t, u \in Threads : t # u /\ th[t].pc \in Installs /\ th[u].pc \in Installs

(* A start() passes line 109 while another thread is inside execute().     *)
Swap == \E t, u \in Threads : /\ At(t, "newQueue") /\ ~At(t, "newQueue")'
                              /\ InTry(u)

(* A thread is inside execute() while a start() has made a new process but *)
(* not yet the new line queue (lines 98-109).                              *)
Early == \E t, u \in Threads : th[t].pc \in {"checkStdout", "newQueue"} /\ InTry(u)

(* A thread is inside start() or stop() while another is inside any call.  *)
Overlap == \E t, u \in Threads : t # u /\ InControl(t) /\ ~At(u, "idle")

RacesInit == Init /\ seen = {}

Observe == seen' = seen \cup (IF Rivals' THEN {"rivals"} ELSE {})
                        \cup (IF Twins' THEN {"twins"} ELSE {})
                        \cup (IF Swap THEN {"swap"} ELSE {})
                        \cup (IF Early' THEN {"early"} ELSE {})
                        \cup (IF Overlap' THEN {"any"} ELSE {})

RacesNext == Next /\ Observe

RacesSpec == RacesInit /\ [][RacesNext]_allVars /\ Fairness

-----------------------------------------------------------------------------
Unharmed == {"rivals", "swap"} \cap seen = {}

(* Threads may execute while another starts and stops: unless two start()  *)
(* or stop() calls have overlapped, a running process is the one the       *)
(* handle names (lines 94, 98, 129-141).                                   *)
StrayNeedsRivals == NoStrayProcess \/ "rivals" \in seen

(* Its inductive form: one thread that is about to launch has found no     *)
(* process, or one that is gone, and one that is about to drop the handle  *)
(* has seen the process end or killed it.                                  *)
EndLabels == {"joinCheck", "join", "dropReader", "dropProcess"}

LaunchSafe == \A t \in Threads : At(t, "launch") => process = 0 \/ emu[process].st = "exited"
DropSafe   == \A t \in Threads : th[t].pc \in EndLabels =>
                                    process = 0 \/ emu[process].st # "running"

StrayFree == NoStrayProcess /\ LaunchSafe /\ DropSafe
StrayInv  == "rivals" \in seen \/ (~Rivals /\ StrayFree)

(* A running process refuses commands, outside of start() and stop(), only *)
(* after the end marker of another process has set the flag: a start()     *)
(* replaced the line queue under an execute(), which then read from the    *)
(* old one, or two start() calls gave the stdout of one process and the    *)
(* queue of the other to one reader (lines 109, 110, 112, 198).            *)
RefusalNeedsCrossing == RunningAccepts \/ {"twins", "swap"} \cap seen # {}

(* execute() returns another command's answer, on a launch of which none   *)
(* was given up, only after rivals or after an execute() that wrote to a   *)
(* new process, or read from the queue of the old one, in the middle of a  *)
(* start() (lines 98, 109, 160, 193): a restart between two execute()      *)
(* calls, by whatever threads, never mixes them up.                        *)
OwnNeedsEarly == ResponseIsOwn \/ {"rivals", "early"} \cap seen # {}

(* Likewise for a response made of the lines of several answers: the lock  *)
(* alone keeps two executing threads from sharing out an answer.           *)
MixNeedsSwap == ResponseNeverMixed \/ ~Unharmed

(* Exceptions the code does not convert (AssertionError, AttributeError,   *)
(* ValueError, RuntimeError) come out of start(), stop(), execute(), pid() *)
(* and available() only when a start() or stop() overlapped another call   *)
(* (lines 79, 85, 111, 138, 171, 177, 180): threads that take turns never  *)
(* meet one.                                                               *)
InternalNeedsOverlap ==
    (\E t \in Threads : th[t].result = "internal") => "any" \in seen
=============================================================================
