--------------------------- MODULE SessionManager ---------------------------
(***************************************************************************)
(* ibm3270/session_manager.py: the registry of sessions, shared by threads.*)
(* The registry changes under the lock, one step each; start() and stop()  *)
(* of a session run outside of it, and callers that got a Terminal from    *)
(* get_session() start and stop it behind the manager's back.              *)
(*                                                                         *)
(* A session is known here by whether an s3270 process of it runs and      *)
(* whether its Transport has the handle of that process.  stop() looks for *)
(* the handle (transport.py 117), ends the process (120-135) and drops the *)
(* handle (141).  The order of the dict is left open.                      *)
(***************************************************************************)
EXTENDS Naturals, FiniteSets

CONSTANTS Threads,      \* the threads that share the manager
          Ops,          \* what each of them does
          MaxSessions   \* bound: sessions created

Methods == {"create", "get", "close", "close_all", "handle_start", "handle_stop"}

ASSUME OpsAssumption         == Ops \in [Threads -> SUBSET Methods]
ASSUME MaxSessionsAssumption == MaxSessions \in Nat

Ids == 1..MaxSessions

VARIABLES
    sessions,   \* self._sessions: the registered ids
    made,       \* number of sessions created; ids are unique, as uuid4() makes them
    running,    \* the sessions with a process that runs
    known,      \* the sessions whose Transport has the handle of their process
    th,         \* the threads: what they do, the sessions still to do it with,
                \* the one at work, those they have a handle of, where todo came from
    aborted,    \* history: sessions an exception kept close_all() from stopping
    revived     \* history: sessions started through a handle when nobody
                \* was going to stop them, or in the middle of a stop()

session == <<running, known, revived>>
vars    == <<sessions, made, session, th, aborted>>

Init == /\ sessions = {} /\ made = 0 /\ running = {} /\ known = {}
        /\ th = [t \in Threads |-> [pc |-> "idle", todo |-> {}, now |-> 0, held |-> {},
                                    via |-> "none"]]
        /\ aborted = {} /\ revived = {}

Calls(t, op) == th[t].pc = "idle" /\ op \in Ops[t]
Stopping(t, s) == th[t].pc \in {"stopping", "killed"} /\ th[t].now = s
Tended(s) == s \in sessions \/ \E t \in Threads : s \in th[t].todo

(* Faulty variant: the id is taken from the size of the registry.          *)
CreateBySize(t, start) ==
    /\ Calls(t, "create") /\ Cardinality(sessions) < MaxSessions
    /\ made' = Cardinality(sessions) + 1
    /\ IF start THEN running' = running \cup {made'} /\ known' = known \cup {made'}
                ELSE UNCHANGED <<running, known>>
    /\ th' = [th EXCEPT ![t].pc = "register", ![t].todo = {made'}, ![t].via = "none"]
    /\ UNCHANGED <<sessions, aborted, revived>>

(* create_session(), lines 33-36: the session is started before anybody    *)
(* else can see it.                                                        *)
Create(t, start) ==
    /\ Calls(t, "create") /\ made < MaxSessions
    /\ made' = made + 1
    /\ IF start THEN running' = running \cup {made'} /\ known' = known \cup {made'}
                ELSE UNCHANGED <<running, known>>
    /\ th' = [th EXCEPT ![t].pc = "register", ![t].todo = {made'}, ![t].via = "none"]
    /\ UNCHANGED <<sessions, aborted, revived>>

(* start() raises in line 36, before it made a process: nothing is         *)
(* registered.                                                             *)
CreateFails(t) ==
    /\ Calls(t, "create") /\ made < MaxSessions
    /\ made' = made + 1
    /\ UNCHANGED <<sessions, session, th, aborted>>

Register(t) ==          \* 37-39
    /\ th[t].pc = "register"
    /\ sessions' = sessions \cup th[t].todo
    /\ th' = [th EXCEPT ![t].pc = "idle", ![t].todo = {},
                        ![t].held = @ \cup th[t].todo]
    /\ UNCHANGED <<made, session, aborted>>

Get(t, s) ==            \* 53-57; a KeyError changes nothing
    /\ Calls(t, "get") /\ s \in sessions
    /\ th' = [th EXCEPT ![t].held = @ \cup {s}]
    /\ UNCHANGED <<sessions, made, session, aborted>>

StopThese(t, S, via) ==
    th' = [th EXCEPT ![t].pc = IF S = {} THEN "idle" ELSE "stop",
                     ![t].todo = S, ![t].now = 0, ![t].via = via]

(* Faulty variant: get() for pop() in line 68.                             *)
CloseKeeps(t, s) ==
    /\ Calls(t, "close") /\ s \in sessions
    /\ StopThese(t, {s}, "registry")
    /\ UNCHANGED <<sessions, made, session, aborted>>

Close(t, s) ==          \* 67-69; no-op for an unknown id
    /\ Calls(t, "close") /\ s \in sessions
    /\ sessions' = sessions \ {s}
    /\ StopThese(t, {s}, "registry")
    /\ UNCHANGED <<made, session, aborted>>

(* Faulty variant: lines 75 and 76 swapped.                                *)
CloseAllForgets(t) ==
    /\ Calls(t, "close_all")
    /\ sessions' = {}
    /\ StopThese(t, {}, "registry")
    /\ UNCHANGED <<made, session, aborted>>

CloseAll(t) ==          \* 74-76
    /\ Calls(t, "close_all")
    /\ sessions' = {}
    /\ StopThese(t, sessions, "registry")
    /\ UNCHANGED <<made, session, aborted>>

HandleStop(t, s) ==     \* a caller stops a session through its handle
    /\ Calls(t, "handle_stop") /\ s \in th[t].held
    /\ StopThese(t, {s}, "handle")
    /\ UNCHANGED <<sessions, made, session, aborted>>

HandleStart(t, s) ==    \* a caller starts a session through its handle
    /\ Calls(t, "handle_start") /\ s \in th[t].held
    /\ th' = [th EXCEPT ![t].pc = "starting", ![t].now = s]
    /\ UNCHANGED <<sessions, made, session, aborted>>

(* Terminal.start(): a no-op while the process runs; it may also raise.  A *)
(* second process beside a lost one is left out.                           *)
LeaveStart(t, launches) ==
    LET s == th[t].now
    IN /\ th[t].pc = "starting"
       /\ launches => s \notin running
       /\ IF launches
          THEN /\ running' = running \cup {s} /\ known' = known \cup {s}
               /\ revived' = IF Tended(s) /\ \A u \in Threads : ~Stopping(u, s)
                             THEN revived ELSE revived \cup {s}
          ELSE UNCHANGED session
       /\ th' = [th EXCEPT ![t].pc = "idle", ![t].now = 0]
       /\ UNCHANGED <<sessions, made, aborted>>

(* session.stop() of lines 70 and 78: without a handle it returns at once. *)
EnterStop(t, s) ==
    /\ th[t].pc = "stop" /\ s \in th[t].todo
    /\ IF s \in known
       THEN th' = [th EXCEPT ![t].pc = "stopping", ![t].now = s]
       ELSE StopThese(t, th[t].todo \ {s}, th[t].via)
    /\ UNCHANGED <<sessions, made, session, aborted>>

EndProcess(t) ==
    /\ th[t].pc = "stopping"
    /\ running' = running \ {th[t].now}
    /\ th' = [th EXCEPT ![t].pc = "killed"]
    /\ UNCHANGED <<sessions, made, known, revived, aborted>>

(* Faulty variant: a return in the loop of lines 77-78.                    *)
LeaveAfterFirst(t) ==
    /\ th[t].pc = "killed"
    /\ known' = known \ {th[t].now}
    /\ StopThese(t, {}, th[t].via)
    /\ UNCHANGED <<sessions, made, running, revived, aborted>>

LeaveStop(t) ==
    /\ th[t].pc = "killed"
    /\ known' = known \ {th[t].now}
    /\ StopThese(t, th[t].todo \ {th[t].now}, th[t].via)
    /\ UNCHANGED <<sessions, made, running, revived, aborted>>

(* A stop() that overlaps another stop() or a start() of the same session  *)
(* may find the reader gone or not yet started (transport.py 138) and      *)
(* raise; the sessions after it in close_all() are then not stopped.       *)
StopRaises(t) ==
    /\ th[t].pc = "killed"
    /\ \E u \in Threads \ {t} : /\ th[u].now = th[t].now
                                /\ th[u].pc \in {"starting", "stopping", "killed"}
    /\ StopThese(t, {}, th[t].via)
    /\ aborted' = aborted \cup (th[t].todo \ {th[t].now})
    /\ UNCHANGED <<sessions, made, session>>

Working(t) == \/ Register(t) \/ EndProcess(t) \/ LeaveStop(t) \/ StopRaises(t)
              \/ \E s \in Ids : EnterStop(t, s)
              \/ \E launches \in BOOLEAN : LeaveStart(t, launches)

Next == \E t \in Threads :
            \/ \E start \in BOOLEAN : Create(t, start)
            \/ CreateFails(t) \/ CloseAll(t)
            \/ \E s \in Ids : Get(t, s) \/ Close(t, s) \/ HandleStop(t, s) \/ HandleStart(t, s)
            \/ Working(t)

(* A thread inside a method goes on; start() and stop() have time limits.  *)
Spec == Init /\ [][Next]_vars /\ \A t \in Threads : WF_vars(Working(t))
-----------------------------------------------------------------------------
(* Every variable has its type; all ids in use have been given out, and a  *)
(* thread inside start() or stop() has a session.                          *)
TypeOK ==
    /\ made \in 0..MaxSessions
    /\ sessions \subseteq 1..made /\ running \subseteq 1..made /\ known \subseteq 1..made
    /\ aborted \subseteq 1..made /\ revived \subseteq 1..made
    /\ th \in [Threads -> [pc : {"idle", "register", "starting", "stop", "stopping", "killed"},
                           todo : SUBSET (1..made), now : 0..made, held : SUBSET (1..made),
                           via : {"none", "registry", "handle"}]]
    /\ \A t \in Threads : th[t].pc \in {"starting", "stopping", "killed"} => th[t].now # 0

(* A process that runs can be stopped: its session has the handle, and is  *)
(* registered, or a thread is about to register or to stop it.  There are  *)
(* two ways to lose it: an exception ends close_all() before its turn, or  *)
(* it is started through a handle after its session left the registry or   *)
(* in the middle of a stop() (lines 35-38, 54, 67-70, 74-78).              *)
RunningIsReachable ==
    \A s \in running \ (aborted \cup revived) : s \in known /\ Tended(s)

(* Its inductive form: a thread outside of the loops has nothing to do, the*)
(* session at work is one of those to do, and what runs at the end of a    *)
(* stop() was started in the middle of it.                                 *)
AtWorkIsToDo ==
    \A t \in Threads :
        /\ th[t].pc \in {"idle", "starting"} => th[t].todo = {}
        /\ th[t].pc \in {"stopping", "killed"} => th[t].now \in th[t].todo

RestartsAreRevived ==
    \A t \in Threads : th[t].pc = "killed" /\ th[t].now \in running => th[t].now \in revived

ReachableInv == RunningIsReachable /\ AtWorkIsToDo /\ RestartsAreRevived

(* The manager never stops a session from two threads: each closer takes   *)
(* its own out of the registry under the lock (lines 67-68, 74-76).        *)
StoppedOnce ==
    \A t, u \in Threads :
        t # u /\ th[t].via = "registry" /\ th[u].via = "registry"
            => th[t].todo \cap th[u].todo = {}

(* Its inductive form: what a thread closes, or is about to register, is   *)
(* in the registry no more, or not yet, and nobody else has it.            *)
Owns(t) == th[t].pc = "register" \/ th[t].via = "registry"

OwnersInv ==
    /\ \A t \in Threads : Owns(t) => th[t].todo \cap sessions = {}
    /\ \A t, u \in Threads : t # u /\ Owns(t) /\ Owns(u) => th[t].todo \cap th[u].todo = {}

(* A session taken out of the registry is stopped in the end, unless an    *)
(* exception ends close_all() before its turn, or somebody starts it anew  *)
(* through a handle (lines 69-70, 77-78).                                  *)
ClosedIsStopped ==
    \A t \in Threads, s \in Ids :
        th[t].pc = "stop" /\ s \in th[t].todo
            ~> s \notin running \/ s \in aborted \cup revived
=============================================================================
