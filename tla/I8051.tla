------------------------------- MODULE I8051 -------------------------------
(***************************************************************************)
(* The 8051 decoder of vlidump (i8051.py): the length of an instruction    *)
(* and where it branches to.  What the text of an instruction says of its  *)
(* registers is left out; of the mnemonic, what trace.py asks of it is     *)
(* kept as the class.                                                      *)
(*                                                                         *)
(* An image is a sequence of bytes; the byte of address a is image[a + 1]. *)
(***************************************************************************)
EXTENDS Integers, Sequences

Byte == 0 .. 255

\* The opcodes with a low nibble l of eight to fifteen: the eight registers Rn.
Rn(base) == {base + n : n \in 8 .. 15}

\* The opcode table, by the operands that follow the opcode.
Addr16  == {\h02, \h12}
Addr11  == {16 * h + 1 : h \in 0 .. 15}
Rel     == {\h40, \h50, \h60, \h70, \h80} \cup Rn(\hD0)
BitRel  == {\h10, \h20, \h30}
ImmRel  == {\hB4, \hB6, \hB7} \cup Rn(\hB0)
DirRel  == {\hB5, \hD5}
Imm     == {\h24, \h34, \h44, \h54, \h64, \h74, \h94, \h76, \h77} \cup Rn(\h70)
Direct  == {\h05, \h15, \h25, \h35, \h45, \h55, \h65, \h95, \h42, \h52, \h62,
            \h86, \h87, \hA6, \hA7, \hC0, \hD0, \hC5, \hE5, \hF5}
               \cup Rn(\h80) \cup Rn(\hA0)
Bit     == {\h72, \h82, \h92, \hA0, \hA2, \hB0, \hB2, \hC2, \hD2}
TwoOps  == {\h43, \h53, \h63, \h75, \h85, \h90}

Relative == Rel \cup BitRel \cup ImmRel \cup DirRel

Length == [op \in Byte |->
    IF op \in Addr16 \cup BitRel \cup ImmRel \cup DirRel \cup TwoOps THEN 3
    ELSE IF op \in Addr11 \cup Rel \cup Imm \cup Direct \cup Bit THEN 2
    ELSE 1]

\* The mnemonics trace.py tells apart: RET and RETI; LJMP, AJMP and SJMP; LCALL
\* and ACALL; JMP @A+DPTR; the other instructions with a target.
Class == [op \in Byte |->
    IF op \in {\h22, \h32} THEN "stop"
    ELSE IF op \in {\h02, \h80} \cup {32 * h + 1 : h \in 0 .. 7} THEN "jump"
    ELSE IF op \in {\h12} \cup {32 * h + 17 : h \in 0 .. 7} THEN "call"
    ELSE IF op = \h73 THEN "table"
    ELSE IF op \in Relative THEN "branch"
    ELSE "plain"]

\* An operand byte as a displacement: (b ^ 0x80) - 0x80.
Signed(b) == ((b + 128) % 256) - 128

\* Mutant: the last byte of the image is never an operand.
WholeButLast(image, a) == a + Length[image[a + 1]] < Len(image)

\* An instruction whose operands the image does not hold raises IndexError.
Whole(image, a) == a + Length[image[a + 1]] <= Len(image)

NextAddr(image, a) == a + Length[image[a + 1]]

\* The last byte of a relative branch is its displacement; the target of an
\* addr11 lies in the 2K page of the address two bytes on.
Target(image, a) ==
    LET op == image[a + 1] IN
    IF op \in Addr16 THEN 256 * image[a + 2] + image[a + 3]
    ELSE IF op \in Addr11
         THEN ((2048 * ((a + 2) \div 2048)) % 65536) + 256 * (op \div 32) + image[a + 2]
    ELSE (NextAddr(image, a) + Signed(image[NextAddr(image, a)])) % 65536
=============================================================================
