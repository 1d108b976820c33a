------------------------------ MODULE SramScan ------------------------------
(***************************************************************************)
(* How vmmdump recovers monitor EDIDs from the hub: dumper.dump_memory     *)
(* reads the low SRAM block by block, edid.scan_edids looks for EDID base  *)
(* blocks in what came.                                                    *)
(*                                                                         *)
(* An EDID begins with the 8 bytes 00 FF FF FF FF FF FF 00 and is 128      *)
(* bytes long; here it begins with 0 1 0 and is BlockLen long.  What       *)
(* matters to the scan is kept: the magic's last byte is its first, so two *)
(* magics can overlap in one byte, and a checksum decides about a block.   *)
(***************************************************************************)
EXTENDS Integers, Sequences, FiniteSetsExt

CONSTANTS
    Length,     \* bytes to read (SRAM_SCAN_LEN)
    Step,       \* bytes of one read_memory call (256)
    BlockLen,   \* bytes of an EDID base block (128)
    Modulus,    \* of the checksum (256)
    MaxShort    \* bound: how many read_memory calls return fewer bytes than asked

ASSUME SizesAssumption ==
    /\ Length \in Nat \ {0} /\ Step \in Nat \ {0} /\ MaxShort \in Nat
    /\ BlockLen \in Nat /\ BlockLen >= 3 /\ Modulus \in Nat \ {0}

VARIABLES
    sram,       \* the chip's memory from address 0
    phase,      \* "dump", "scan", "done" or "raised"
    pos,        \* dump_memory: the next address
    blob,       \* dump_memory: out;  scan_edids: blob
    i,          \* scan_edids: where the search goes on
    found,      \* scan_edids: the EDIDs reported, with their offsets
    shorts      \* the calls so far that returned fewer bytes

vars == <<sram, phase, pos, blob, i, found, shorts>>

Magic    == <<0, 1, 0>>
MagicLen == Len(Magic)

\* Memory past the scanned region holds zeros.
Cell(a) == IF a < Length THEN sram[a] ELSE 0
Chip(a, n) == [k \in 1 .. n |-> Cell(a + k - 1)]

TypeOK ==
    /\ sram \in [0 .. Length - 1 -> {0, 1}]
    /\ phase \in {"dump", "scan", "done", "raised"}
    /\ pos \in Nat
    /\ blob \in Seq({0, 1}) /\ Len(blob) <= Length
    /\ i \in 0 .. Length + BlockLen
    /\ found \in Seq([at : 0 .. Length - 1, block : Seq({0, 1})])
    /\ shorts \in 0 .. MaxShort

Init ==
    /\ sram \in [0 .. Length - 1 -> {0, 1}]
    /\ phase = "dump" /\ pos = 0 /\ blob = <<>> /\ i = 0 /\ found = <<>>
    /\ shorts = 0
----------------------------------------------------------------------------
(* dump_memory                                                             *)

\* n = min(step, length - len(out))
Asked == IF Length - Len(blob) < Step THEN Length - Len(blob) ELSE Step

\* A reply can be short, or empty.  If it always were the loop would never end.
Replies == IF shorts < MaxShort THEN 0 .. Asked ELSE {Asked}

\* Mutant: the address never moves on.
SameAddress == pos

NextAddress == pos + Asked

ReadBlock ==
    /\ phase = "dump"
    /\ \E k \in Replies : /\ blob' = blob \o Chip(pos, k)
                          /\ shorts' = shorts + IF k < Asked THEN 1 ELSE 0
    /\ pos' = NextAddress
    /\ phase' = IF Len(blob') < Length THEN "dump" ELSE "scan"
    /\ UNCHANGED <<sram, i, found>>

ReadFails ==
    /\ phase = "dump"
    /\ phase' = "raised"
    /\ UNCHANGED <<sram, pos, blob, i, found, shorts>>
----------------------------------------------------------------------------
(* scan_edids: offsets are those of Python, from 0                         *)

\* blob[j:j+n], which a blob that ends earlier cuts off
Slice(j, n) == SubSeq(blob, j + 1, IF j + n < Len(blob) THEN j + n ELSE Len(blob))

MagicAt(j) == Slice(j, MagicLen) = Magic

\* blob.find(EDID_MAGIC, i)
Hits == {j \in i .. Len(blob) - 1 : MagicAt(j)}

SumOf(b) == FoldSet(LAMBDA k, acc : b[k] + acc, 0, DOMAIN b)

\* Mutants: the scan steps over the whole of a block it rejected; it does not
\* step over the magic of one.
StepOverRejected(j, good) == j + BlockLen
StepOverNothing(j, good)  == j

ChecksumOk(b) == Len(b) = BlockLen /\ SumOf(b) % Modulus = 0

NewBlock(b) == \A k \in DOMAIN found : found[k].block # b

Onward(j, good) == IF good THEN j + BlockLen ELSE j + MagicLen

Examine ==
    /\ phase = "scan" /\ Hits # {}
    /\ LET j == CHOOSE h \in Hits : \A g \in Hits : h <= g
           b == Slice(j, BlockLen)
       IN /\ i' = Onward(j, ChecksumOk(b))
          /\ found' = IF ChecksumOk(b) /\ NewBlock(b)
                      THEN Append(found, [at |-> j, block |-> b]) ELSE found
    /\ UNCHANGED <<sram, phase, pos, blob, shorts>>

NoMore ==
    /\ phase = "scan" /\ Hits = {}
    /\ phase' = "done"
    /\ UNCHANGED <<sram, pos, blob, i, found, shorts>>

Next == ReadBlock \/ ReadFails \/ Examine \/ NoMore
Spec == Init /\ [][Next]_vars /\ WF_vars(ReadBlock \/ Examine \/ NoMore)
----------------------------------------------------------------------------
(* Properties.                                                             *)

Blocks == {j \in 0 .. Len(blob) - 1 : MagicAt(j) /\ ChecksumOk(Slice(j, BlockLen))}
Reported == {found[k].block : k \in DOMAIN found}

\* Without a short reply the blob is the chip's memory from 0 (dumper.py:37) and
\* an EDID is reported at an address where the chip holds that very block; a
\* short reply leaves a hole, behind which addresses are wrong.  No block is
\* reported twice in any case.
ReportsAreTrue ==
    /\ shorts = 0 => /\ blob = Chip(0, Len(blob))
                     /\ \A k \in DOMAIN found :
                           /\ found[k].at + BlockLen <= Length
                           /\ found[k].block = Chip(found[k].at, BlockLen)
    /\ \A k, m \in DOMAIN found : found[m].block = found[k].block => m = k

\* edid.py:77: what a finished scan leaves out of the blocks it should find: one
\* that begins inside an accepted one, or on the last byte of the magic of a
\* rejected one.
MissesOnly ==
    phase = "done" =>
        \A j \in Blocks :
            \/ Slice(j, BlockLen) \in Reported
            \/ \E g \in Blocks : g < j /\ j < g + BlockLen
            \/ j >= MagicLen - 1 /\ MagicAt(j - MagicLen + 1)
                                 /\ (j - MagicLen + 1) \notin Blocks

\* The whole call comes to an end unless replies stay empty.
Ends == <>(phase \in {"done", "raised"})
=============================================================================
