---------------------------- MODULE MCRcSession ----------------------------
(***************************************************************************)
(* Jobs of RcSession for TLC: the guarded board-id read, a register span   *)
(* of two windows, and a byte of SRAM.                                     *)
(***************************************************************************)
EXTENDS RcSessionInv

BoardJob == [kind |-> "board", addr |-> 10, len |-> 1]
RegsJob  == [kind |-> "regs",  addr |-> 20, len |-> 3]
SramJob  == [kind |-> "sram",  addr |-> 30, len |-> 1]

AllJobs  == <<BoardJob, RegsJob, SramJob>>
=============================================================================
