--------------------------- MODULE MCRegisterDump ---------------------------
(***************************************************************************)
(* Addresses of RegisterDump for TLC: twelve in a row, so that runs of up  *)
(* to three registers, gaps, and overlapping unaligned registers occur.    *)
(***************************************************************************)
EXTENDS RegisterDump

Bytes == 0 .. 11
=============================================================================
