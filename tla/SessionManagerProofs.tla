------------------------ MODULE SessionManagerProofs ------------------------
(***************************************************************************)
(* Proofs about SessionManager, for every set of threads, every assignment *)
(* of operations and every number of sessions.                             *)
(***************************************************************************)
EXTENDS SessionManager, TLAPS

ThreadState(n) ==
    [pc : {"idle", "register", "starting", "stop", "stopping", "killed"},
     todo : SUBSET (1..n), now : 0..n, held : SUBSET (1..n),
     via : {"none", "registry", "handle"}]

(* A new session leaves what the threads have within bounds.               *)
LEMMA ThreadStateGrows ==
    ASSUME NEW n \in Nat, NEW f \in [Threads -> ThreadState(n)]
    PROVE  f \in [Threads -> ThreadState(n + 1)]
<1>1. ASSUME NEW t \in Threads PROVE f[t] \in ThreadState(n + 1)
  <2>1. f[t] \in ThreadState(n)
    OBVIOUS
  <2>2. 1..n \subseteq 1..(n + 1) /\ 0..n \subseteq 0..(n + 1)
    OBVIOUS
  <2> QED BY <2>1, <2>2 DEF ThreadState
<1> QED BY <1>1

(* What StopThese assigns to a thread, and that it leaves the others alone.*)
LEMMA StopTheseThis ==
    ASSUME NEW n \in Nat, th \in [Threads -> ThreadState(n)], NEW t \in Threads,
           NEW S \in SUBSET (1..n), NEW origin \in {"none", "registry", "handle"},
           StopThese(t, S, origin)
    PROVE  th'[t] = [pc |-> IF S = {} THEN "idle" ELSE "stop", todo |-> S, now |-> 0,
                     held |-> th[t].held, via |-> origin]
<1>1. PICK l \in {"idle", "stop"} : l = IF S = {} THEN "idle" ELSE "stop"
    OBVIOUS
<1>2. th'[t] = [th[t] EXCEPT !.pc = l, !.todo = S, !.now = 0, !.via = origin]
    BY <1>1 DEF StopThese
<1>3. th[t] \in ThreadState(n)
    OBVIOUS
<1> QED BY <1>1, <1>2, <1>3 DEF ThreadState

LEMMA StopTheseOthers ==
    ASSUME NEW n \in Nat, th \in [Threads -> ThreadState(n)], NEW t \in Threads,
           NEW S \in SUBSET (1..n), NEW origin \in {"none", "registry", "handle"},
           StopThese(t, S, origin)
    PROVE  \A u \in Threads \ {t} : th'[u] = th[u]
BY DEF StopThese

LEMMA StopTheseType ==
    ASSUME NEW n \in Nat, th \in [Threads -> ThreadState(n)], NEW t \in Threads,
           NEW S \in SUBSET (1..n), NEW origin \in {"none", "registry", "handle"},
           StopThese(t, S, origin)
    PROVE  th' \in [Threads -> ThreadState(n)]
<1>1. th'[t] = [pc |-> IF S = {} THEN "idle" ELSE "stop", todo |-> S, now |-> 0,
                held |-> th[t].held, via |-> origin]
    BY StopTheseThis
<1>2. th[t] \in ThreadState(n) /\ 0 \in 0..n
    OBVIOUS
<1>3. th'[t] \in ThreadState(n)
    BY <1>1, <1>2 DEF ThreadState
<1> QED BY <1>3 DEF StopThese

AtWork == \A t \in Threads :
    th[t].pc \in {"starting", "stopping", "killed"} => th[t].now # 0

SetsOK == /\ sessions \subseteq 1..made /\ running \subseteq 1..made
          /\ known \subseteq 1..made
          /\ aborted \subseteq 1..made /\ revived \subseteq 1..made

LEMMA TypeOKForm ==
    TypeOK <=> /\ made \in 0..MaxSessions /\ SetsOK
               /\ th \in [Threads -> ThreadState(made)] /\ AtWork
BY DEF TypeOK, ThreadState, AtWork, SetsOK

LEMMA TypeInit == Init => TypeOK
BY MaxSessionsAssumption DEF Init, TypeOK

LEMMA TypeStep == TypeOK /\ [Next]_vars => TypeOK'
<1> SUFFICES ASSUME TypeOK, [Next]_vars PROVE TypeOK'
    OBVIOUS
<1>t. /\ made \in Nat /\ made \in 0..MaxSessions /\ SetsOK
      /\ th \in [Threads -> ThreadState(made)] /\ AtWork
    BY TypeOKForm, MaxSessionsAssumption
<1>s. /\ sessions \subseteq 1..made /\ running \subseteq 1..made /\ known \subseteq 1..made
      /\ aborted \subseteq 1..made /\ revived \subseteq 1..made
    BY <1>t DEF SetsOK
<1>q. ASSUME made' \in 0..MaxSessions, SetsOK', AtWork', th' \in [Threads -> ThreadState(made')]
      PROVE  TypeOK'
    BY <1>q DEF TypeOK, SetsOK, AtWork, ThreadState
<1>w. ASSUME NEW t \in Threads, \A u \in Threads \ {t} : th'[u] = th[u],
             th'[t].pc \in {"starting", "stopping", "killed"} => th'[t].now # 0
      PROVE  AtWork'
    BY <1>t, <1>w DEF AtWork
<1>g. ASSUME made' = made + 1, made < MaxSessions
      PROVE  /\ made' \in 0..MaxSessions /\ 1..made \subseteq 1..made' /\ made' \in 1..made'
             /\ th \in [Threads -> ThreadState(made')]
  <2>1. th \in [Threads -> ThreadState(made')]
      BY <1>t, <1>g, ThreadStateGrows
  <2> QED BY <1>t, <1>g, <2>1, MaxSessionsAssumption
<1>1. CASE UNCHANGED vars
    BY <1>1 DEF TypeOK, vars, session
<1>2. ASSUME NEW t \in Threads, NEW start \in BOOLEAN, Create(t, start)
      PROVE  TypeOK'
  <2>1. made' = made + 1 /\ made < MaxSessions
      BY <1>2 DEF Create
  <2>2. th' = [th EXCEPT ![t].pc = "register", ![t].todo = {made'}, ![t].via = "none"]
      BY <1>2 DEF Create
  <2>3. th' \in [Threads -> ThreadState(made')]
    <3>1. th'[t] = [th[t] EXCEPT !.pc = "register", !.todo = {made'}, !.via = "none"]
        BY <1>t, <2>2
    <3>2. th[t] \in ThreadState(made') /\ {made'} \in SUBSET (1..made')
        BY <1>g, <2>1
    <3>3. th'[t] \in ThreadState(made')
        BY <3>1, <3>2 DEF ThreadState
    <3> QED BY <1>g, <2>1, <2>2, <3>3
  <2>4. SetsOK'
      BY <1>2, <1>s, <1>g, <2>1 DEF Create, SetsOK
  <2>5. AtWork'
      BY <1>t, <1>w, <2>2
  <2> QED BY <1>g, <1>q, <2>1, <2>3, <2>4, <2>5
<1>3. ASSUME NEW t \in Threads, CreateFails(t) PROVE TypeOK'
  <2>1. made' = made + 1 /\ made < MaxSessions /\ th' = th
      BY <1>3 DEF CreateFails
  <2>2. SetsOK'
      BY <1>3, <1>s, <1>g, <2>1 DEF CreateFails, session, SetsOK
  <2>3. AtWork'
      BY <1>t, <2>1 DEF AtWork
  <2> QED BY <1>g, <1>q, <2>1, <2>2, <2>3
<1>k. ASSUME made' = made, SetsOK', NEW t \in Threads, \A u \in Threads \ {t} : th'[u] = th[u],
             th' \in [Threads -> ThreadState(made)],
             th'[t].pc \in {"starting", "stopping", "killed"} => th'[t].now # 0
      PROVE  TypeOK'
    BY <1>t, <1>q, <1>w, <1>k
<1>m. ASSUME made' = made, SetsOK', NEW t \in Threads, NEW S \in SUBSET (1..made),
             NEW origin \in {"none", "registry", "handle"}, StopThese(t, S, origin)
      PROVE  TypeOK'
  <2>1. th' \in [Threads -> ThreadState(made)]
      BY <1>t, <1>m, StopTheseType
  <2>2. \A u \in Threads \ {t} : th'[u] = th[u]
      BY <1>t, <1>m, StopTheseOthers
  <2>3. th'[t] = [pc |-> IF S = {} THEN "idle" ELSE "stop", todo |-> S, now |-> 0,
                  held |-> th[t].held, via |-> origin]
      BY <1>t, <1>m, StopTheseThis
  <2>4. th'[t].pc \in {"idle", "stop"}
      BY <2>3
  <2> QED BY <1>k, <1>m, <2>1, <2>2, <2>4
<1>4. ASSUME NEW t \in Threads, Register(t) PROVE TypeOK'
  <2>1. /\ th' \in [Threads -> ThreadState(made)] /\ th[t].todo \subseteq 1..made
        /\ th'[t].pc = "idle" /\ \A u \in Threads \ {t} : th'[u] = th[u]
      BY <1>4, <1>t DEF Register, ThreadState
  <2>2. SetsOK' /\ made' = made
      BY <1>4, <1>s, <2>1 DEF Register, session, SetsOK
  <2> QED BY <1>k, <2>1, <2>2
<1>5. ASSUME NEW t \in Threads, NEW s \in Ids, Get(t, s) PROVE TypeOK'
  <2>1. /\ th' \in [Threads -> ThreadState(made)]
        /\ th'[t].pc = "idle" /\ \A u \in Threads \ {t} : th'[u] = th[u]
      BY <1>5, <1>s, <1>t DEF Get, Calls, ThreadState
  <2>2. SetsOK' /\ made' = made
      BY <1>5, <1>s DEF Get, session, SetsOK
  <2> QED BY <1>k, <2>1, <2>2
<1>6. ASSUME NEW t \in Threads, NEW s \in Ids, Close(t, s) PROVE TypeOK'
  <2>1. SetsOK' /\ made' = made /\ s \in 1..made
      BY <1>6, <1>s DEF Close, session, SetsOK
  <2>2. StopThese(t, {s}, "registry")
      BY <1>6 DEF Close
  <2> QED BY <1>m, <2>1, <2>2
<1>7. ASSUME NEW t \in Threads, CloseAll(t) PROVE TypeOK'
  <2>1. SetsOK' /\ made' = made /\ sessions \subseteq 1..made
      BY <1>7, <1>s DEF CloseAll, session, SetsOK
  <2>2. StopThese(t, sessions, "registry")
      BY <1>7 DEF CloseAll
  <2> QED BY <1>m, <2>1, <2>2
<1>8. ASSUME NEW t \in Threads, NEW s \in Ids, HandleStop(t, s) PROVE TypeOK'
  <2>1. SetsOK' /\ made' = made
      BY <1>8, <1>s DEF HandleStop, session, SetsOK
  <2>2. StopThese(t, {s}, "handle") /\ s \in 1..made
      BY <1>8, <1>t DEF HandleStop, ThreadState
  <2> QED BY <1>m, <2>1, <2>2
<1>9. ASSUME NEW t \in Threads, NEW s \in Ids, HandleStart(t, s) PROVE TypeOK'
  <2>1. s \in 1..made
      BY <1>9, <1>t DEF HandleStart, ThreadState
  <2>2. /\ th' \in [Threads -> ThreadState(made)] /\ th'[t].now = s
        /\ \A u \in Threads \ {t} : th'[u] = th[u]
    <3>1. th' = [th EXCEPT ![t].pc = "starting", ![t].now = s]
        BY <1>9 DEF HandleStart
    <3>2. th'[t] = [th[t] EXCEPT !.pc = "starting", !.now = s] /\ th[t] \in ThreadState(made)
        BY <1>t, <3>1
    <3>3. s \in 0..made
        BY <1>t, <2>1
    <3>4. th'[t] \in ThreadState(made) /\ th'[t].now = s
        BY <3>2, <3>3 DEF ThreadState
    <3> QED BY <1>t, <3>1, <3>4
  <2>3. SetsOK' /\ made' = made
      BY <1>9, <1>s DEF HandleStart, session, SetsOK
  <2> QED BY <1>k, <2>1, <2>2, <2>3
<1>10. ASSUME NEW t \in Threads, NEW launches \in BOOLEAN, LeaveStart(t, launches)
       PROVE  TypeOK'
  <2>1. /\ th' \in [Threads -> ThreadState(made)] /\ th'[t].pc = "idle"
        /\ \A u \in Threads \ {t} : th'[u] = th[u]
    <3>1. th' = [th EXCEPT ![t].pc = "idle", ![t].now = 0]
        BY <1>10 DEF LeaveStart
    <3>2. th'[t] = [th[t] EXCEPT !.pc = "idle", !.now = 0] /\ th[t] \in ThreadState(made)
        BY <1>t, <3>1
    <3>3. 0 \in 0..made
        BY <1>t
    <3>4. th'[t] \in ThreadState(made) /\ th'[t].pc = "idle"
        BY <3>2, <3>3 DEF ThreadState
    <3> QED BY <1>t, <3>1, <3>4
  <2>2. th[t].now \in 1..made
      BY <1>10, <1>t DEF LeaveStart, AtWork, ThreadState
  <2>3. SetsOK' /\ made' = made
      BY <1>10, <1>s, <2>2 DEF LeaveStart, session, SetsOK
  <2> QED BY <1>k, <2>1, <2>3
<1>11. ASSUME NEW t \in Threads, NEW s \in Ids, EnterStop(t, s) PROVE TypeOK'
  <2>1. SetsOK' /\ made' = made
      BY <1>11, <1>s DEF EnterStop, session, SetsOK
  <2>2. th[t] \in ThreadState(made)
      BY <1>t
  <2>3. CASE s \in known
    <3>1. /\ th' \in [Threads -> ThreadState(made)] /\ th'[t].now = s
          /\ \A u \in Threads \ {t} : th'[u] = th[u]
        BY <1>11, <1>t, <1>s, <2>3 DEF EnterStop, ThreadState
    <3> QED BY <1>k, <2>1, <3>1 DEF Ids
  <2>4. CASE s \notin known
    <3>1. StopThese(t, th[t].todo \ {s}, th[t].via)
        BY <1>11, <2>4 DEF EnterStop
    <3>2. /\ th[t].todo \ {s} \in SUBSET (1..made)
          /\ th[t].via \in {"none", "registry", "handle"}
        BY <2>2 DEF ThreadState
    <3> QED BY <1>m, <2>1, <3>1, <3>2
  <2> QED BY <2>3, <2>4
<1>12. ASSUME NEW t \in Threads, EndProcess(t) PROVE TypeOK'
  <2>1. /\ th' \in [Threads -> ThreadState(made)] /\ th'[t].now = th[t].now
        /\ \A u \in Threads \ {t} : th'[u] = th[u]
      BY <1>12, <1>t DEF EndProcess, ThreadState
  <2>2. SetsOK' /\ made' = made
      BY <1>12, <1>s DEF EndProcess, SetsOK
  <2> QED BY <1>12, <1>t, <1>k, <2>1, <2>2 DEF EndProcess, AtWork
<1>13. ASSUME NEW t \in Threads, LeaveStop(t) PROVE TypeOK'
  <2>1. SetsOK' /\ made' = made
      BY <1>13, <1>s DEF LeaveStop, SetsOK
  <2>2. StopThese(t, th[t].todo \ {th[t].now}, th[t].via)
      BY <1>13 DEF LeaveStop
  <2>3. /\ th[t].todo \ {th[t].now} \in SUBSET (1..made)
        /\ th[t].via \in {"none", "registry", "handle"}
      BY <1>t DEF ThreadState
  <2> QED BY <1>m, <2>1, <2>2, <2>3
<1>14. ASSUME NEW t \in Threads, StopRaises(t) PROVE TypeOK'
  <2>1. th[t].todo \subseteq 1..made /\ th[t].via \in {"none", "registry", "handle"}
      BY <1>t DEF ThreadState
  <2>2. SetsOK' /\ made' = made
      BY <1>14, <1>s, <2>1 DEF StopRaises, session, SetsOK
  <2>3. StopThese(t, {}, th[t].via)
      BY <1>14 DEF StopRaises
  <2> QED BY <1>m, <2>1, <2>2, <2>3
<1> QED BY <1>1, <1>2, <1>3, <1>4, <1>5, <1>6, <1>7, <1>8, <1>9, <1>10, <1>11, <1>12,
           <1>13, <1>14 DEF Next, Working

(* Every variable of the manager keeps its type.                           *)
THEOREM TypeCorrect == Spec => []TypeOK
<1> QED BY TypeInit, TypeStep, PTL DEF Spec
-----------------------------------------------------------------------------
LEMMA ReachableInit == Init => ReachableInv
BY DEF Init, ReachableInv, RunningIsReachable, AtWorkIsToDo, RestartsAreRevived

(* A step of one thread that ends no process and is in no stop() after it. *)
LEMMA ReachableFrame ==
    ASSUME ReachableInv, NEW t \in Threads, \A u \in Threads \ {t} : th'[u] = th[u],
           th'[t].pc \notin {"stopping", "killed"},
           th'[t].pc \in {"idle", "starting"} => th'[t].todo = {},
           running' = running, known' = known, revived' = revived, aborted \subseteq aborted',
           \A s \in running \ (aborted' \cup revived) : Tended(s) => Tended(s)'
    PROVE  ReachableInv'
BY DEF ReachableInv, RunningIsReachable, AtWorkIsToDo, RestartsAreRevived

LEMMA ReachableStep == TypeOK /\ ReachableInv /\ [Next]_vars => ReachableInv'
<1> SUFFICES ASSUME TypeOK, ReachableInv, [Next]_vars PROVE ReachableInv'
    OBVIOUS
<1>t. /\ made \in Nat /\ th \in [Threads -> ThreadState(made)] /\ AtWork
      /\ running \subseteq 1..made /\ known \subseteq 1..made
    BY TypeOKForm, MaxSessionsAssumption DEF SetsOK
<1>i. /\ RunningIsReachable /\ AtWorkIsToDo /\ RestartsAreRevived
    BY DEF ReachableInv
<1>1. CASE UNCHANGED vars
    BY <1>1, <1>i DEF vars, session, ReachableInv, RunningIsReachable, AtWorkIsToDo,
                      RestartsAreRevived, Tended
(* A step that makes S the sessions to do, and loses none that runs.       *)
<1>m. ASSUME NEW t \in Threads, NEW S \in SUBSET (1..made),
             NEW origin \in {"none", "registry", "handle"}, StopThese(t, S, origin),
             running' = running, known' = known, revived' = revived, aborted \subseteq aborted',
             \A s \in running \ (aborted' \cup revived) :
                s \in sessions \cup th[t].todo => s \in sessions' \cup S
      PROVE  ReachableInv'
  <2>1. \A u \in Threads \ {t} : th'[u] = th[u]
      BY <1>t, <1>m, StopTheseOthers
  <2>2. th'[t] = [pc |-> IF S = {} THEN "idle" ELSE "stop", todo |-> S, now |-> 0,
                  held |-> th[t].held, via |-> origin]
      BY <1>t, <1>m, StopTheseThis
  <2>3. \A s \in running \ (aborted' \cup revived) : Tended(s) => Tended(s)'
      BY <1>m, <2>1, <2>2 DEF Tended
  <2>4. /\ th'[t].pc \notin {"starting", "stopping", "killed"}
        /\ th'[t].pc = "idle" => th'[t].todo = {}
      BY <2>2
  <2> QED BY <1>m, <2>1, <2>3, <2>4, ReachableFrame
<1>2. ASSUME NEW t \in Threads, NEW start \in BOOLEAN, Create(t, start)
      PROVE  ReachableInv'
  <2>1. /\ th'[t].pc = "register" /\ th'[t].todo = {made'} /\ th[t].todo = {}
        /\ \A u \in Threads \ {t} : th'[u] = th[u]
      BY <1>2, <1>t, <1>i DEF Create, Calls, ThreadState, AtWorkIsToDo
  <2>2. /\ made' \notin 0..made /\ \A u \in Threads : th[u].now # made'
      BY <1>2, <1>t DEF Create, ThreadState
  <2>3. /\ sessions' = sessions /\ aborted' = aborted /\ revived' = revived
        /\ running \subseteq running' /\ running' \subseteq running \cup {made'}
        /\ known \subseteq known' /\ (made' \in running' => made' \in known')
      BY <1>2, <1>t, <2>2 DEF Create
  <2>4. \A s : Tended(s) => Tended(s)'
      BY <2>1, <2>3 DEF Tended
  <2>5. PICK n : n = made'
      OBVIOUS
  <2>6. RunningIsReachable'
    <3>1. Tended(n)'
        BY <2>1, <2>5 DEF Tended
    <3> QED BY <1>i, <2>3, <2>4, <2>5, <3>1 DEF RunningIsReachable
  <2>7. AtWorkIsToDo'
      BY <1>i, <2>1 DEF AtWorkIsToDo
  <2>8. RestartsAreRevived'
      BY <1>i, <2>1, <2>2, <2>3 DEF RestartsAreRevived
  <2> QED BY <2>6, <2>7, <2>8 DEF ReachableInv
<1>3. ASSUME NEW t \in Threads, CreateFails(t) PROVE ReachableInv'
    BY <1>3, <1>i DEF CreateFails, session, ReachableInv, RunningIsReachable, AtWorkIsToDo,
                      RestartsAreRevived, Tended
<1>4. ASSUME NEW t \in Threads, Register(t) PROVE ReachableInv'
  <2>1. /\ th'[t].pc = "idle" /\ th'[t].todo = {} /\ \A u \in Threads \ {t} : th'[u] = th[u]
      BY <1>4, <1>t DEF Register, ThreadState
  <2>2. \A s : Tended(s) => Tended(s)'
      BY <1>4, <2>1 DEF Register, Tended
  <2> QED BY <1>4, <2>1, <2>2, ReachableFrame DEF Register, session
<1>5. ASSUME NEW t \in Threads, NEW s \in Ids, Get(t, s) PROVE ReachableInv'
  <2>1. /\ th'[t].pc = "idle" /\ th'[t].todo = {} /\ th[t].todo = {}
        /\ \A u \in Threads \ {t} : th'[u] = th[u]
      BY <1>5, <1>t, <1>i DEF Get, Calls, ThreadState, AtWorkIsToDo
  <2>2. \A x : Tended(x) => Tended(x)'
      BY <1>5, <2>1 DEF Get, Tended
  <2> QED BY <1>5, <2>1, <2>2, ReachableFrame DEF Get, session
<1>6. ASSUME NEW t \in Threads, NEW s \in Ids, Close(t, s) PROVE ReachableInv'
  <2>1. s \in 1..made /\ th[t].todo = {}
      BY <1>6, <1>i, TypeOKForm DEF Close, Calls, AtWorkIsToDo, SetsOK
  <2> QED BY <1>6, <1>m, <2>1 DEF Close, session
<1>7. ASSUME NEW t \in Threads, CloseAll(t) PROVE ReachableInv'
  <2>1. sessions \subseteq 1..made /\ th[t].todo = {}
      BY <1>7, <1>i, TypeOKForm DEF CloseAll, Calls, AtWorkIsToDo, SetsOK
  <2> QED BY <1>7, <1>m, <2>1 DEF CloseAll, session
<1>8. ASSUME NEW t \in Threads, NEW s \in Ids, HandleStop(t, s) PROVE ReachableInv'
  <2>1. s \in 1..made /\ th[t].todo = {}
      BY <1>8, <1>t, <1>i DEF HandleStop, Calls, AtWorkIsToDo, ThreadState
  <2> QED BY <1>8, <1>m, <2>1 DEF HandleStop, session
<1>9. ASSUME NEW t \in Threads, NEW s \in Ids, HandleStart(t, s) PROVE ReachableInv'
  <2>1. /\ th'[t].pc = "starting" /\ th'[t].todo = {} /\ th[t].todo = {}
        /\ \A u \in Threads \ {t} : th'[u] = th[u]
      BY <1>9, <1>t, <1>i DEF HandleStart, Calls, ThreadState, AtWorkIsToDo
  <2>2. \A x : Tended(x) => Tended(x)'
      BY <1>9, <2>1 DEF HandleStart, Tended
  <2> QED BY <1>9, <2>1, <2>2, ReachableFrame DEF HandleStart, session
<1>10. ASSUME NEW t \in Threads, NEW launches \in BOOLEAN, LeaveStart(t, launches)
       PROVE  ReachableInv'
  <2>1. /\ th'[t].pc = "idle" /\ th'[t].todo = {} /\ th[t].todo = {}
        /\ \A u \in Threads \ {t} : th'[u] = th[u]
      BY <1>10, <1>t, <1>i DEF LeaveStart, ThreadState, AtWorkIsToDo
  <2>2. \A x : Tended(x) => Tended(x)'
      BY <1>10, <2>1 DEF LeaveStart, Tended
  <2>3. CASE ~launches
      BY <1>10, <2>1, <2>2, <2>3, ReachableFrame DEF LeaveStart, session
  <2>4. CASE launches
    <3> DEFINE s == th[t].now
    <3>1. /\ running' = running \cup {s} /\ known' = known \cup {s} /\ aborted' = aborted
          /\ revived \subseteq revived' /\ revived' \subseteq revived \cup {s}
        BY <1>10, <2>4 DEF LeaveStart
    <3>2. s \in revived' \/ (Tended(s) /\ \A u \in Threads : ~Stopping(u, s))
        BY <1>10, <2>4 DEF LeaveStart
    <3> HIDE DEF s
    <3>3. RunningIsReachable'
        BY <1>i, <2>2, <3>1, <3>2 DEF RunningIsReachable
    <3>4. AtWorkIsToDo'
        BY <1>i, <2>1 DEF AtWorkIsToDo
    <3>5. RestartsAreRevived'
        BY <1>i, <2>1, <3>1, <3>2 DEF RestartsAreRevived, Stopping
    <3> QED BY <3>3, <3>4, <3>5 DEF ReachableInv
  <2> QED BY <2>3, <2>4
<1>11. ASSUME NEW t \in Threads, NEW s \in Ids, EnterStop(t, s) PROVE ReachableInv'
  <2>1. CASE s \in known
    <3>1. /\ th'[t].pc = "stopping" /\ th'[t].now = s /\ th'[t].todo = th[t].todo
          /\ s \in th[t].todo /\ \A u \in Threads \ {t} : th'[u] = th[u]
        BY <1>11, <1>t, <2>1 DEF EnterStop, ThreadState
    <3>2. \A x : Tended(x) => Tended(x)'
        BY <1>11, <3>1 DEF EnterStop, Tended
    <3> QED BY <1>11, <1>i, <3>1, <3>2 DEF EnterStop, session, ReachableInv,
               RunningIsReachable, AtWorkIsToDo, RestartsAreRevived
  <2>2. CASE s \notin known
    <3>1. /\ th[t].todo \ {s} \in SUBSET (1..made)
          /\ th[t].via \in {"none", "registry", "handle"}
        BY <1>t DEF ThreadState
    <3>2. s \in running => s \in aborted \cup revived
        BY <1>i, <2>2 DEF RunningIsReachable
    <3>3. StopThese(t, th[t].todo \ {s}, th[t].via) /\ UNCHANGED <<sessions, session, aborted>>
        BY <1>11, <2>2 DEF EnterStop
    <3> QED BY <1>m, <3>1, <3>2, <3>3 DEF session
  <2> QED BY <2>1, <2>2
<1>12. ASSUME NEW t \in Threads, EndProcess(t) PROVE ReachableInv'
  <2>1. /\ th'[t].pc = "killed" /\ th'[t].now = th[t].now /\ th'[t].todo = th[t].todo
        /\ \A u \in Threads \ {t} : th'[u] = th[u]
      BY <1>12, <1>t DEF EndProcess, ThreadState
  <2>2. \A x : Tended(x) => Tended(x)'
      BY <1>12, <2>1 DEF EndProcess, Tended
  <2>3. RunningIsReachable'
      BY <1>12, <1>i, <2>2 DEF EndProcess, RunningIsReachable
  <2>4. AtWorkIsToDo'
      BY <1>12, <1>i, <2>1 DEF EndProcess, AtWorkIsToDo
  <2>5. RestartsAreRevived'
      BY <1>12, <1>i, <2>1 DEF EndProcess, RestartsAreRevived
  <2> QED BY <2>3, <2>4, <2>5 DEF ReachableInv
<1>13. ASSUME NEW t \in Threads, LeaveStop(t) PROVE ReachableInv'
  <2> DEFINE s == th[t].now
             S == th[t].todo \ {s}
  <2>1. /\ S \in SUBSET (1..made) /\ th[t].via \in {"none", "registry", "handle"}
      BY <1>t DEF ThreadState
  <2>2. /\ known' = known \ {s} /\ running' = running /\ revived' = revived
        /\ aborted' = aborted /\ sessions' = sessions /\ StopThese(t, S, th[t].via)
      BY <1>13 DEF LeaveStop
  <2>3. s \in running => s \in revived
      BY <1>13, <1>i DEF LeaveStop, RestartsAreRevived
  <2> HIDE DEF S
  <2>4. \A u \in Threads \ {t} : th'[u] = th[u]
      BY <1>t, <2>1, <2>2, StopTheseOthers
  <2>5. th'[t] = [pc |-> IF S = {} THEN "idle" ELSE "stop", todo |-> S, now |-> 0,
                  held |-> th[t].held, via |-> th[t].via]
      BY <1>t, <2>1, <2>2, StopTheseThis
  <2>6. \A x \in running \ revived : Tended(x) => Tended(x)'
      BY <2>2, <2>3, <2>4, <2>5 DEF Tended, S
  <2>7. RunningIsReachable'
      BY <1>i, <2>2, <2>3, <2>6 DEF RunningIsReachable
  <2>8. AtWorkIsToDo'
      BY <1>i, <2>4, <2>5 DEF AtWorkIsToDo
  <2>9. RestartsAreRevived'
      BY <1>i, <2>2, <2>4, <2>5 DEF RestartsAreRevived
  <2> QED BY <2>7, <2>8, <2>9 DEF ReachableInv
<1>14. ASSUME NEW t \in Threads, StopRaises(t) PROVE ReachableInv'
  <2>1. th[t].via \in {"none", "registry", "handle"} /\ {} \in SUBSET (1..made)
      BY <1>t DEF ThreadState
  <2>2. th[t].now \in running => th[t].now \in revived
      BY <1>14, <1>i DEF StopRaises, RestartsAreRevived
  <2>3. /\ StopThese(t, {}, th[t].via) /\ UNCHANGED <<sessions, session>>
        /\ aborted' = aborted \cup (th[t].todo \ {th[t].now})
      BY <1>14 DEF StopRaises
  <2> QED BY <1>m, <2>1, <2>2, <2>3 DEF session
<1> QED BY <1>1, <1>2, <1>3, <1>4, <1>5, <1>6, <1>7, <1>8, <1>9, <1>10, <1>11, <1>12,
           <1>13, <1>14 DEF Next, Working

(* A process that runs can be stopped, but for the two ways to lose it     *)
(* (session_manager.py 35-38, 54, 67-70, 74-78).                           *)
THEOREM Reachability == Spec => []RunningIsReachable
<1>1. TypeOK /\ ReachableInv /\ [Next]_vars => TypeOK' /\ ReachableInv'
    BY TypeStep, ReachableStep
<1>2. Init => TypeOK /\ ReachableInv
    BY TypeInit, ReachableInit
<1>3. ReachableInv => RunningIsReachable
    BY DEF ReachableInv
<1> QED BY <1>1, <1>2, <1>3, PTL DEF Spec
-----------------------------------------------------------------------------
LEMMA OwnersInit == Init => OwnersInv
BY DEF Init, OwnersInv, Owns

(* A step of one thread that registers no session of another.              *)
LEMMA OwnersFrame ==
    ASSUME OwnersInv, NEW t \in Threads, \A u \in Threads \ {t} : th'[u] = th[u],
           \A u \in Threads \ {t} : Owns(u) => th[u].todo \cap sessions' = {},
           Owns(t)' => /\ th'[t].todo \cap sessions' = {}
                       /\ \A u \in Threads \ {t} :
                            Owns(u) => th'[t].todo \cap th[u].todo = {}
    PROVE  OwnersInv'
BY DEF OwnersInv, Owns

LEMMA OwnersStep == TypeOK /\ AtWorkIsToDo /\ OwnersInv /\ [Next]_vars => OwnersInv'
<1> SUFFICES ASSUME TypeOK, AtWorkIsToDo, OwnersInv, [Next]_vars PROVE OwnersInv'
    OBVIOUS
<1>t. /\ made \in Nat /\ th \in [Threads -> ThreadState(made)] /\ sessions \subseteq 1..made
    BY TypeOKForm, MaxSessionsAssumption DEF SetsOK
<1>o. ASSUME NEW u \in Threads, Owns(u)
      PROVE  /\ th[u].todo \cap sessions = {}
             /\ \A x \in Threads \ {u} : Owns(x) => th[u].todo \cap th[x].todo = {}
    BY <1>o DEF OwnersInv
(* A step that leaves a thread no more to do than it had.                  *)
<1>f. ASSUME NEW t \in Threads, \A u \in Threads \ {t} : th'[u] = th[u], sessions' = sessions,
             th'[t].todo = {} \/ (th'[t].todo \subseteq th[t].todo /\ (Owns(t)' => Owns(t)))
      PROVE  OwnersInv'
    BY <1>f, <1>o, OwnersFrame
(* A step that makes S, a part of what it had or nobody's, the sessions to *)
(* do.                                                                     *)
<1>m. ASSUME NEW t \in Threads, NEW S \in SUBSET (1..made),
             NEW origin \in {"none", "registry", "handle"}, StopThese(t, S, origin),
             sessions' \subseteq sessions,
             origin = "registry" =>
                 \/ th[t].via = "registry" /\ S \subseteq th[t].todo
                 \/ S \subseteq sessions \ sessions'
      PROVE  OwnersInv'
  <2>1. \A u \in Threads \ {t} : th'[u] = th[u]
      BY <1>t, <1>m, StopTheseOthers
  <2>2. th'[t] = [pc |-> IF S = {} THEN "idle" ELSE "stop", todo |-> S, now |-> 0,
                  held |-> th[t].held, via |-> origin]
      BY <1>t, <1>m, StopTheseThis
  <2>3. th'[t].todo = S /\ th'[t].via = origin /\ th'[t].pc # "register"
      BY <2>2
  <2>4. \A u \in Threads \ {t} : Owns(u) => th[u].todo \cap sessions' = {}
      BY <1>m, <1>o
  <2>5. ASSUME Owns(t)'
        PROVE  /\ S \cap sessions' = {}
               /\ \A u \in Threads \ {t} : Owns(u) => S \cap th[u].todo = {}
    <3>1. origin = "registry"
        BY <2>3, <2>5 DEF Owns
    <3>2. CASE th[t].via = "registry" /\ S \subseteq th[t].todo
        BY <1>m, <1>o, <3>2 DEF Owns
    <3>3. CASE S \subseteq sessions \ sessions'
        BY <1>o, <3>3
    <3> QED BY <1>m, <3>1, <3>2, <3>3
  <2> QED BY <2>1, <2>3, <2>4, <2>5, OwnersFrame
<1>1. CASE UNCHANGED vars
    BY <1>1 DEF vars, OwnersInv, Owns
<1>2. ASSUME NEW t \in Threads, NEW start \in BOOLEAN, Create(t, start) PROVE OwnersInv'
  <2>1. PICK n : n = made'
      OBVIOUS
  <2>2. th'[t].todo = {n} /\ sessions' = sessions /\ \A u \in Threads \ {t} : th'[u] = th[u]
      BY <1>2, <1>t, <2>1 DEF Create, ThreadState
  <2>3. n \notin sessions /\ \A u \in Threads : n \notin th[u].todo
      BY <1>2, <1>t, <2>1 DEF Create, ThreadState
  <2> QED BY <1>o, <2>2, <2>3, OwnersFrame
<1>3. ASSUME NEW t \in Threads, CreateFails(t) PROVE OwnersInv'
    BY <1>3 DEF CreateFails, OwnersInv, Owns
<1>4. ASSUME NEW t \in Threads, Register(t) PROVE OwnersInv'
  <2>1. /\ th'[t].todo = {} /\ sessions' = sessions \cup th[t].todo /\ Owns(t)
        /\ \A u \in Threads \ {t} : th'[u] = th[u]
      BY <1>4, <1>t DEF Register, Owns, ThreadState
  <2>2. \A u \in Threads \ {t} : Owns(u) => th[u].todo \cap sessions' = {}
      BY <1>o, <2>1
  <2> QED BY <2>1, <2>2, OwnersFrame
<1>5. ASSUME NEW t \in Threads, NEW s \in Ids, Get(t, s) PROVE OwnersInv'
  <2>1. th'[t].todo = {} /\ sessions' = sessions /\ \A u \in Threads \ {t} : th'[u] = th[u]
      BY <1>5, <1>t DEF Get, Calls, ThreadState, AtWorkIsToDo
  <2> QED BY <1>f, <2>1
<1>6. ASSUME NEW t \in Threads, NEW s \in Ids, Close(t, s) PROVE OwnersInv'
    BY <1>6, <1>t, <1>m DEF Close
<1>7. ASSUME NEW t \in Threads, CloseAll(t) PROVE OwnersInv'
    BY <1>7, <1>t, <1>m DEF CloseAll
<1>8. ASSUME NEW t \in Threads, NEW s \in Ids, HandleStop(t, s) PROVE OwnersInv'
  <2>1. s \in 1..made
      BY <1>8, <1>t DEF HandleStop, ThreadState
  <2> QED BY <1>8, <1>m, <2>1 DEF HandleStop
<1>9. ASSUME NEW t \in Threads, NEW s \in Ids, HandleStart(t, s) PROVE OwnersInv'
  <2>1. th'[t].todo = {} /\ sessions' = sessions /\ \A u \in Threads \ {t} : th'[u] = th[u]
      BY <1>9, <1>t DEF HandleStart, Calls, ThreadState, AtWorkIsToDo
  <2> QED BY <1>f, <2>1
<1>10. ASSUME NEW t \in Threads, NEW launches \in BOOLEAN, LeaveStart(t, launches)
       PROVE  OwnersInv'
  <2>1. th'[t].todo = {} /\ sessions' = sessions /\ \A u \in Threads \ {t} : th'[u] = th[u]
      BY <1>10, <1>t DEF LeaveStart, ThreadState, AtWorkIsToDo
  <2> QED BY <1>f, <2>1
<1>11. ASSUME NEW t \in Threads, NEW s \in Ids, EnterStop(t, s) PROVE OwnersInv'
  <2>1. /\ th[t].todo \ {s} \in SUBSET (1..made)
        /\ th[t].via \in {"none", "registry", "handle"}
      BY <1>t DEF ThreadState
  <2>2. CASE s \in known
    <3>1. /\ th'[t].todo = th[t].todo /\ sessions' = sessions /\ th'[t].via = th[t].via
          /\ th'[t].pc = "stopping" /\ \A u \in Threads \ {t} : th'[u] = th[u]
        BY <1>11, <1>t, <2>2 DEF EnterStop, ThreadState
    <3> QED BY <1>f, <3>1 DEF Owns
  <2>3. CASE s \notin known
      BY <1>11, <1>m, <2>1, <2>3 DEF EnterStop
  <2> QED BY <2>2, <2>3
<1>12. ASSUME NEW t \in Threads, EndProcess(t) PROVE OwnersInv'
  <2>1. /\ th'[t].todo = th[t].todo /\ sessions' = sessions /\ th'[t].via = th[t].via
        /\ th'[t].pc = "killed" /\ \A u \in Threads \ {t} : th'[u] = th[u]
      BY <1>12, <1>t DEF EndProcess, ThreadState
  <2> QED BY <1>f, <2>1 DEF Owns
<1>13. ASSUME NEW t \in Threads, LeaveStop(t) PROVE OwnersInv'
  <2>1. /\ th[t].todo \ {th[t].now} \in SUBSET (1..made)
        /\ th[t].via \in {"none", "registry", "handle"}
      BY <1>t DEF ThreadState
  <2> QED BY <1>13, <1>m, <2>1 DEF LeaveStop
<1>14. ASSUME NEW t \in Threads, StopRaises(t) PROVE OwnersInv'
  <2>1. {} \in SUBSET (1..made) /\ th[t].via \in {"none", "registry", "handle"}
      BY <1>t DEF ThreadState
  <2> QED BY <1>14, <1>m, <2>1 DEF StopRaises
<1> QED BY <1>1, <1>2, <1>3, <1>4, <1>5, <1>6, <1>7, <1>8, <1>9, <1>10, <1>11, <1>12,
           <1>13, <1>14 DEF Next, Working

(* No session is stopped by two closers (session_manager.py 67-68, 74-76). *)
THEOREM ClosersAreDisjoint == Spec => []StoppedOnce
<1>1. /\ TypeOK /\ ReachableInv /\ OwnersInv /\ [Next]_vars
            => TypeOK' /\ ReachableInv' /\ OwnersInv'
    BY TypeStep, ReachableStep, OwnersStep DEF ReachableInv
<1>2. Init => TypeOK /\ ReachableInv /\ OwnersInv
    BY TypeInit, ReachableInit, OwnersInit
<1>3. OwnersInv => StoppedOnce
    BY DEF OwnersInv, Owns, StoppedOnce
<1> QED BY <1>1, <1>2, <1>3, PTL DEF Spec
=============================================================================
