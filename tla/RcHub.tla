------------------------------- MODULE RcHub -------------------------------
(***************************************************************************)
(* The remote-control (RC) window of the VMM53xx as vmmdump/rc.py uses it: *)
(* a mailbox in DPCD space that the host writes and the hub's firmware     *)
(* empties.  The firmware is not in the repository; this is the behaviour  *)
(* rc.py's header and its polling loop rely on.                            *)
(*                                                                         *)
(* The firmware picks a command up some time after bit 7 of RC_CMD is set, *)
(* works on the arguments it found then, and clears bit 7 when it has put  *)
(* the answer in place.  A command carries no tag, so an answer cannot be  *)
(* told from the answer to an earlier command.                             *)
(*                                                                         *)
(* The byte the chip holds at address a is modelled by the number a: a     *)
(* byte that was read says where it was read from.  A write that moved     *)
(* fewer bytes than it was given leaves the old value or a mix of the two  *)
(* behind: what is then not the value meant is Stray, whatever it is.      *)
(***************************************************************************)
EXTENDS Integers

CONSTANT Window     \* bytes of one RC data transaction (UNIT_SIZE)

ASSUME WindowAssumption == Window \in Nat \ {0}

VARIABLES
    rcMode,         \* is the chip in remote-control mode?
    rcCmd,          \* RC_CMD: the opcode, and bit 7 as the field active
    rcResult,       \* RC_RESULT
    rcOffset,       \* RC_OFFSET
    rcLen,          \* RC_LEN
    rcData,         \* RC_DATA, the data window
    task            \* the command the firmware is working on

hubVars == <<rcMode, rcCmd, rcResult, rcOffset, rcLen, rcData, task>>

Opcode  == {"enable", "disable", "read"}
Result  == {"success", "disabled", "failed"}
Slot    == 0 .. Window - 1
Prius   == -2       \* the window starts with the payload b"PRIUS"
Stray   == -1       \* an address nobody meant, the byte found there, and a
                    \* window byte that no command has put there
Address == Nat \cup {Stray}
Byte    == Address \cup {Prius}
NoTask  == [op |-> "none", offset |-> 0, len |-> 0]

HubTypeOK ==
    /\ rcMode \in {"on", "off"}
    /\ rcCmd \in [op : Opcode, active : BOOLEAN]
    /\ rcResult \in Result
    /\ rcOffset \in Address
    /\ rcLen \in 0 .. Window
    /\ rcData \in [Slot -> Byte]
    /\ task \in [op : Opcode \cup {"none"}, offset : Address, len : 0 .. Window]

\* A hub no tool has talked to since it was powered up.
HubInit ==
    /\ rcMode = "off"
    /\ rcCmd = [op |-> "disable", active |-> FALSE]
    /\ rcResult = "success"
    /\ rcOffset = 0
    /\ rcLen = 0
    /\ rcData = [s \in Slot |-> Stray]
    /\ task = NoTask

\* The firmware notices bit 7 and takes the command with its arguments.
HubLatch ==
    /\ task = NoTask
    /\ rcCmd.active
    /\ task' = [op |-> rcCmd.op, offset |-> rcOffset, len |-> rcLen]
    /\ UNCHANGED <<rcMode, rcCmd, rcResult, rcOffset, rcLen, rcData>>

\* What each opcode does when the firmware carries it out.
Disable ==
    /\ task.op = "disable"
    /\ rcMode' = "off"
    /\ rcResult' = IF rcMode = "on" THEN "success" ELSE "disabled"
    /\ UNCHANGED rcData

Enable ==
    /\ task.op = "enable"
    /\ rcData[0] = Prius
    /\ rcMode' = "on"
    /\ rcResult' = "success"
    /\ UNCHANGED rcData

\* The byte s places behind address a.
ByteAt(a, s) == IF a = Stray THEN Stray ELSE a + s

ReadFromMemory ==
    /\ task.op = "read"
    /\ rcMode = "on"
    /\ rcData' = [s \in Slot |-> IF s < task.len THEN ByteAt(task.offset, s) ELSE rcData[s]]
    /\ rcResult' = "success"
    /\ UNCHANGED rcMode

\* A read outside remote-control mode is refused, and any command may fail.
Refuse ==
    /\ rcResult' = IF task.op = "read" /\ rcMode = "off" THEN "disabled" ELSE "failed"
    /\ UNCHANGED <<rcMode, rcData>>

\* The firmware puts the answer in place and clears bit 7, whatever RC_CMD
\* holds by now.
HubAnswer ==
    /\ task # NoTask
    /\ Disable \/ Enable \/ ReadFromMemory \/ Refuse
    /\ task' = NoTask
    /\ rcCmd' = [rcCmd EXCEPT !.active = FALSE]
    /\ UNCHANGED <<rcOffset, rcLen>>

HubNext == HubLatch \/ HubAnswer
=============================================================================
