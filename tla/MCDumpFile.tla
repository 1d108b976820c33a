----------------------------- MODULE MCDumpFile -----------------------------
(***************************************************************************)
(* Files of DumpFile for TLC: each kind of line, registers that two lines  *)
(* speak about, and rows with a gap, out of step and overlapping.          *)
(***************************************************************************)
EXTENDS DumpFile

VmmToolLines ==
    {Text, Opens("reg"), Closes("reg"), Opens("mem"), Closes("mem"),
     Single(4, 1), Multi(0, <<2, 3>>),
     Row(0, <<1, 2>>), Row(3, <<3, 4>>), Row(6, <<5, 6>>),
     Multi(4, <<7, 300>>)}

Addresses == {0, 4, 8}
Values    == 0 .. 5
=============================================================================
