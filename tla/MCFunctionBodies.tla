-------------------------- MODULE MCFunctionBodies --------------------------
(* Small images over opcodes of every class, whose bytes are operands too.  *)
EXTENDS FunctionBodies

CONSTANTS Bytes, Size

\* The reset vector is a short jump to the byte behind it.
MCImages == {<<128, 0>> \o body : body \in [1 .. Size -> Bytes]}
MCVectors == <<0, 3, 11, 19, 27, 35, 43, 51, 59, 67, 75, 83>>
=============================================================================
