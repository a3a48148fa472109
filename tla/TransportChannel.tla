-------------------------- MODULE TransportChannel --------------------------
(***************************************************************************)
(* The transport of one sequential caller implements CommandChannel: the   *)
(* answers owed are those still in the line queue execute() reads, in the  *)
(* stdout pipe behind it and in the head of the emulator.                  *)
(***************************************************************************)
EXTENDS Transport

(* The commands of the lines that end an answer, in order.                 *)
AnswersIn(s) ==
    LET upTo[n \in 0..Len(s)] ==
            IF n = 0 THEN <<>>
            ELSE IF s[n].kind \in EndKinds THEN Append(upTo[n - 1], s[n].cmd)
            ELSE upTo[n - 1]
    IN upTo[Len(s)]

Owed == IF lineQueue = 0 THEN <<>>
        ELSE AnswersIn(queue[lineQueue] \o emu[lineQueue].out) \o emu[lineQueue].inbox

Waiting(t) == th[t].pc \in {"fetch", "get"} \/ Responded(t)

CurrentCommand ==
    IF \E t \in Threads : Waiting(t) THEN th[CHOOSE t \in Threads : Waiting(t)].cmd ELSE 0

LastOf(s) == s[Len(s)]

Answering ==
    IF \E t \in Threads : Responded(t)
    THEN LastOf(th[CHOOSE t \in Threads : Responded(t)].got).cmd ELSE 0

Channel == INSTANCE CommandChannel WITH
    Commands <- Commands, MaxOwed <- MaxCalls, owed <- Owed, current <- CurrentCommand,
    answer <- Answering, behind <- lineQueue \in abandoned

(* Every step of a sequential caller, its reader threads and its emulators *)
(* is a step of the channel or leaves it unchanged: answers arrive in the  *)
(* order of the commands, none twice, none after a restart (lines 98-112   *)
(* and 163-204).                                                           *)
ImplementsChannel == Channel!Spec
=============================================================================
