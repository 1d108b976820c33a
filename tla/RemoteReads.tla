---------------------------- MODULE RemoteReads ----------------------------
(***************************************************************************)
(* What a remote-control session promises its user, without the mailbox:   *)
(* while the session is open its reads are answered one by one, in order,  *)
(* each at most once and with exactly the bytes the chip holds.  Only a    *)
(* read the user can do without is passed over.  A session that ends well  *)
(* has come to its last read; one that fails stops where it is.            *)
(*                                                                         *)
(* A session is lost when a read was abandoned in flight, or a reply or a  *)
(* write of a read was short: from then on nothing is promised of it.  The *)
(* next one begins afresh all the same.                                    *)
(***************************************************************************)
EXTENDS Integers, Sequences

CONSTANTS
    Answers,    \* the exact answers of a session's reads, in order
    Optional    \* the reads the user can do without

VARIABLES phase, read, delivered

vars == <<phase, read, delivered>>

Init == phase = "idle" /\ read = 1 /\ delivered = <<>>

Open == phase = "idle" /\ phase' = "open" /\ UNCHANGED <<read, delivered>>

Advance ==
    /\ phase = "open"
    /\ read' = read + 1
    /\ phase' = IF read = Len(Answers) THEN "done" ELSE "open"

Deliver ==
    /\ Advance
    /\ delivered' = Append(delivered, [job |-> read, bytes |-> Answers[read]])

PassOver == Advance /\ read \in Optional /\ UNCHANGED delivered

Fail == phase \in {"idle", "open"} /\ phase' = "failed" /\ UNCHANGED <<read, delivered>>

Lose == phase = "open" /\ phase' = "lost" /\ read' = 1 /\ delivered' = <<>>

Again ==
    /\ phase \in {"done", "failed", "lost"}
    /\ phase' = "idle" /\ read' = 1 /\ delivered' = <<>>

Next == Open \/ Deliver \/ PassOver \/ Fail \/ Lose \/ Again

Spec == Init /\ [][Next]_vars
=============================================================================
