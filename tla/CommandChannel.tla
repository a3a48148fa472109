--------------------------- MODULE CommandChannel ---------------------------
(***************************************************************************)
(* What ibm3270/transport.py promises the caller of execute(): commands go *)
(* into a channel, answers come out of it in the order of the commands,    *)
(* and a caller takes whatever answer comes next.  The protocol carries no *)
(* command numbers, so a caller that gives up leaves the channel behind by *)
(* one answer until the process is started anew.                           *)
(***************************************************************************)
EXTENDS Naturals, Sequences

CONSTANTS Commands,     \* the commands, as positive numbers
          MaxOwed       \* bound: answers owed at once

ASSUME CommandsAssumption == Commands \subseteq Nat \ {0}
ASSUME MaxOwedAssumption  == MaxOwed \in Nat

VARIABLES
    owed,       \* the commands whose answers are still to come, oldest first
    current,    \* the command in flight, or 0
    answer,     \* the command whose answer the caller has been handed, or 0
    behind      \* a command of this process was given up, or in flight at its start

vars == <<owed, current, answer, behind>>

Init == owed = <<>> /\ current = 0 /\ answer = 0 /\ behind = FALSE

(* Faulty variant: a command is written over the one in flight.            *)
WriteAnyway(c) == /\ Len(owed) < MaxOwed
                  /\ current' = c
                  /\ owed' = Append(owed, c)
                  /\ UNCHANGED <<answer, behind>>

(* _send_raw(): the line is written to the process.                        *)
Write(c) == /\ current = 0 /\ Len(owed) < MaxOwed
            /\ current' = c
            /\ owed' = Append(owed, c)
            /\ UNCHANGED <<answer, behind>>

(* _read_response() meets the line that ends the oldest answer.            *)
Respond == /\ current # 0 /\ answer = 0 /\ owed # <<>>
           /\ answer' = Head(owed)
           /\ owed' = Tail(owed)
           /\ UNCHANGED <<current, behind>>

(* execute() returns.                                                      *)
Return == /\ answer # 0
          /\ answer' = 0 /\ current' = 0
          /\ UNCHANGED <<owed, behind>>

(* SessionTimeoutError, or SessionProcessError after the write.            *)
GiveUp == /\ current # 0 /\ answer = 0
          /\ current' = 0 /\ behind' = TRUE
          /\ UNCHANGED <<owed, answer>>

(* The process dies: the answers it has not written never come.            *)
Lose == /\ \E n \in 0..Len(owed) : owed' = SubSeq(owed, 1, n)
        /\ UNCHANGED <<current, answer, behind>>

(* Faulty variant: start() keeps the line queue of the process before.     *)
RestartKeeps == /\ current = 0
                /\ behind' = FALSE
                /\ UNCHANGED <<owed, current, answer>>

(* start() launches a process with a line queue of its own.                *)
Restart == /\ current = 0
           /\ owed' = <<>> /\ behind' = FALSE
           /\ UNCHANGED <<current, answer>>

(* start() while another thread is inside execute(), before its line is    *)
(* written or after: the answers left by the process before are dropped,   *)
(* or that thread still reads them and every answer after it is out of     *)
(* step.                                                                   *)
RestartUnder == /\ owed' = <<>> \/ UNCHANGED owed
                /\ behind' = TRUE
                /\ UNCHANGED <<current, answer>>

Next == Respond \/ Return \/ GiveUp \/ Lose \/ Restart \/ RestartUnder
        \/ \E c \in Commands : Write(c)

Spec == Init /\ [][Next]_vars
-----------------------------------------------------------------------------
TypeOK == /\ owed \in Seq(Commands)
          /\ current \in Commands \cup {0}
          /\ answer \in Commands \cup {0}
          /\ behind \in BOOLEAN

(* Answers are in step: without a command given up nothing but the answer  *)
(* of the command in flight is owed, and an answer handed to the caller is *)
(* that of its own command (transport.py 193-204).                         *)
InStepInv ==
    /\ TypeOK
    /\ answer # 0 => current # 0
    /\ ~behind => /\ current = 0 \/ answer # 0 => owed = <<>>
                  /\ current # 0 /\ answer = 0 => owed = <<>> \/ owed = <<current>>
                  /\ answer # 0 => answer = current
=============================================================================
