---------------------------- MODULE RcSessionInv ----------------------------
(***************************************************************************)
(* The inductive invariant of RcSession: what the tool may conclude, at    *)
(* each of its accesses, about the mailbox and about the command the hub   *)
(* is working on.                                                          *)
(***************************************************************************)
EXTENDS RcSession

\* Which accesses each call makes.
ProgramPoints ==
    /\ pc \in Access =>
         /\ ctx \in {"start", "enabled"} <=> pc = "ident"
         /\ ctx \in {"toggle", "cleanup"} => pc \in {"cmd", "poll"}
         /\ ctx = "enable" => pc \in {"data", "offset", "len", "cmd", "poll"}
         /\ ctx = "read" => pc \in {"offset", "len", "cmd", "poll", "fetch", "return"}
    /\ pc = "exit" => ctx = "cleanup"
    /\ failed => ctx = "cleanup"
    /\ ctx \in {"start", "toggle", "enable", "enabled"} => job = 1

\* The firmware works on a command only while bit 7 is set.
BusyIsVisible == task # NoTask => rcCmd.active

\* Only the guarded read abandons a command, and only a run's reads follow it.
AbandonedInReads == ctx \in {"start", "toggle", "enable", "enabled"} => ~abandoned

\* Between two commands of an open session the mailbox is at rest.
AtRest ==
    /\ ctx \in {"enable", "enabled", "read"}
    /\ pc \in Access \ {"poll"}
    /\ ~abandoned
    => ~rcCmd.active

\* From its trigger to its answer, ENABLE is what the hub works on.
EnableInFlight ==
    ctx = "enable" /\ pc = "poll" =>
        /\ rcCmd.active => rcCmd.op = "enable"
        /\ task # NoTask => task.op = "enable"
        /\ ~rcCmd.active /\ rcResult \in OkToEnable => (rcMode = "on" \/ unsent)

\* In an open session only reads are in flight: nothing turns the mode off.
OnlyReads ==
    ctx \in {"enabled", "read"} =>
        /\ rcMode = "on" \/ unsent
        /\ rcCmd.active => rcCmd.op = "read"
        /\ task # NoTask => task.op = "read"

\* The finally clause's DISABLE, unless it was written over a command or not sent.
DisableInFlight ==
    ctx = "cleanup" /\ pc = "poll" /\ ~dirty /\ ~unsent =>
        /\ rcCmd.active => rcCmd.op = "disable"
        /\ task # NoTask => task.op = "disable"
        /\ ~rcCmd.active /\ rcResult \in OkToDisable => rcMode = "off"

ClosedIsOff ==
    closed => /\ pc = "exit"
              /\ ~rcCmd.active
              /\ ~dirty /\ ~unsent => rcMode = "off"

\* _get_command's loop.
InJob == ctx = "read" /\ pc \in Access
Done  == pos - Jobs[job].addr

LoopCounters ==
    InJob => /\ job \in JobNum
             /\ pos + remaining = Jobs[job].addr + Jobs[job].len
             /\ pos >= Jobs[job].addr
             /\ (remaining = 0) <=> (pc = "return")

\* The hub has what this read was to write so far.
Arguments ==
    InJob /\ job \notin part =>
        /\ pc \in {"len", "cmd", "poll"} => rcOffset = pos
        /\ pc \in {"cmd", "poll"} => rcLen = Chunk

\* The window holds the chunk the tool is about to fetch.
WindowHoldsChunk == \A s \in Slot : s < Chunk => rcData[s] = pos + s

ReadInFlight ==
    InJob /\ pc = "poll" /\ ~abandoned /\ job \notin part =>
        /\ task # NoTask => task = [op |-> "read", offset |-> pos, len |-> Chunk]
        /\ ~rcCmd.active /\ rcResult \in OkToFetch => WindowHoldsChunk

FetchFinds == InJob /\ pc = "fetch" /\ ~abandoned /\ job \notin part => WindowHoldsChunk

\* What was collected is a prefix of the chip's bytes as long as no byte of
\* it is missing.
OutIsPrefix ==
    InJob /\ ~abandoned /\ job \notin part =>
        /\ Len(out) <= Done
        /\ job \notin cut => Len(out) = Done
        /\ Len(out) = Done => \A i \in 1 .. Len(out) : out[i] = Jobs[job].addr + i - 1

SessionInv ==
    /\ TypeOK
    /\ ProgramPoints
    /\ BusyIsVisible /\ AbandonedInReads /\ AtRest
    /\ EnableInFlight /\ OnlyReads /\ DisableInFlight /\ ClosedIsOff
    /\ LoopCounters /\ Arguments
    /\ ReadInFlight /\ FetchFinds /\ OutIsPrefix /\ ReadsFaithful
=============================================================================
