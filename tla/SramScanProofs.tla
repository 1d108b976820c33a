--------------------------- MODULE SramScanProofs ---------------------------
(***************************************************************************)
(* Proofs about the SRAM dump and the EDID scan, for memories, calls and   *)
(* blocks of any length, any checksum modulus and any number of short      *)
(* replies: what is reported is there, and what a scan misses.             *)
(***************************************************************************)
EXTENDS SramScan, TLAPS, WellFoundedInduction

\* What has come is the chip's memory as long as no reply was short.
Dumped ==
    /\ phase = "dump" => Len(blob) < Length /\ i = 0 /\ found = <<>>
    /\ shorts = 0 => /\ phase # "raised" => pos = Len(blob)
                     /\ blob = Chip(0, Len(blob))

\* Each report is a block of the blob, and no two are the same.
ReportsAreSlices ==
    /\ \A k \in DOMAIN found : /\ found[k].at + BlockLen <= Len(blob)
                               /\ found[k].block = Slice(found[k].at, BlockLen)
    /\ \A k, m \in DOMAIN found : found[m].block = found[k].block => m = k

\* What has been passed over without a report is excused.
Excused(j) ==
    \/ \E g \in Blocks : g < j /\ j < g + BlockLen
    \/ j >= MagicLen - 1 /\ MagicAt(j - MagicLen + 1) /\ (j - MagicLen + 1) \notin Blocks
PassedOver == \A j \in Blocks : j < i => Slice(j, BlockLen) \in Reported \/ Excused(j)

NoneLeft == phase = "done" => Hits = {}

ScanInv == TypeOK /\ Dumped /\ ReportsAreSlices /\ PassedOver /\ NoneLeft
-----------------------------------------------------------------------------
(* The blob and its slices.                                                *)

LEMMA Sizes ==
    /\ Length \in Nat /\ Length > 0 /\ Step \in Nat /\ Step > 0
    /\ BlockLen \in Nat /\ BlockLen >= 3 /\ MagicLen = 3 /\ MaxShort \in Nat
<1>1. MagicLen = 3
  BY DEF MagicLen, Magic
<1> QED
  BY <1>1, SizesAssumption

\* A slice that lies in the blob is the bytes from its start.
LEMMA SliceInside ==
    ASSUME blob \in Seq({0, 1}), NEW j \in Nat, NEW n \in Nat, j + n <= Len(blob)
    PROVE  /\ Slice(j, n) \in Seq({0, 1}) /\ Len(Slice(j, n)) = n
           /\ \A k \in 1 .. n : Slice(j, n)[k] = blob[j + k]
<1>1. (IF j + n < Len(blob) THEN j + n ELSE Len(blob)) = j + n
  BY Sizes
<1>2. Slice(j, n) = SubSeq(blob, j + 1, j + n)
  BY <1>1 DEF Slice
<1>3. \A k \in j + 1 .. j + n : blob[k] \in {0, 1}
  OBVIOUS
<1> QED
  BY <1>2, <1>3

\* A slice that is as long as asked lies in the blob.
LEMMA SliceFits ==
    ASSUME blob \in Seq({0, 1}), NEW j \in Nat, NEW n \in Nat, n > 0, Len(Slice(j, n)) = n
    PROVE  j + n <= Len(blob)
<1> SUFFICES ASSUME ~(j + n <= Len(blob)) PROVE FALSE
  OBVIOUS
<1>1. Slice(j, n) = SubSeq(blob, j + 1, Len(blob)) /\ Len(blob) \in Nat
  BY DEF Slice
<1>2. CASE j <= Len(blob)
  <2>1. Len(SubSeq(blob, j + 1, Len(blob))) = Len(blob) - j
    BY <1>1, <1>2
  <2> QED
    BY <1>1, <2>1
<1>3. CASE ~(j <= Len(blob))
  <2>1. SubSeq(blob, j + 1, Len(blob)) = <<>>
    BY <1>1, <1>3
  <2> QED
    BY <1>1, <2>1
<1> QED
  BY <1>2, <1>3

\* A magic that is found lies in the blob, and its cells are those of Magic.
LEMMA MagicCells ==
    ASSUME blob \in Seq({0, 1}), NEW j \in Nat, MagicAt(j)
    PROVE  j + 3 <= Len(blob) /\ blob[j + 1] = 0 /\ blob[j + 2] = 1 /\ blob[j + 3] = 0
<1>1. Slice(j, 3) = <<0, 1, 0>>
  BY Sizes DEF MagicAt, Magic
<1>2. Len(Slice(j, 3)) = 3
  BY <1>1
<1>3. j + 3 <= Len(blob)
  <2>1. \A n \in Nat : n > 0 /\ Len(Slice(j, n)) = n => j + n <= Len(blob)
    BY SliceFits
  <2>2. 3 \in Nat /\ 3 > 0
    OBVIOUS
  <2> QED
    BY <1>2, <2>1, <2>2
<1>4. \A k \in 1 .. 3 : Slice(j, 3)[k] = blob[j + k]
  BY <1>3, SliceInside
<1>5. blob[j + 1] = Slice(j, 3)[1] /\ blob[j + 2] = Slice(j, 3)[2] /\ blob[j + 3] = Slice(j, 3)[3]
  BY <1>4
<1> QED
  BY <1>1, <1>3, <1>5

\* Two magics are not one cell apart.
LEMMA MagicsApart ==
    ASSUME blob \in Seq({0, 1}), NEW j \in Nat, MagicAt(j) PROVE ~MagicAt(j + 1)
<1> SUFFICES ASSUME MagicAt(j + 1) PROVE FALSE
  OBVIOUS
<1>1. blob[j + 2] = 1
  BY MagicCells
<1>2. blob[(j + 1) + 1] = 0
  BY MagicCells
<1> QED
  BY <1>1, <1>2

\* What depends on the blob alone does not change with it.
LEMMA SameBlob ==
    ASSUME blob' = blob
    PROVE  /\ \A j, n : Slice(j, n)' = Slice(j, n)
           /\ \A j : MagicAt(j)' = MagicAt(j)
           /\ Blocks' = Blocks /\ \A j : Excused(j)' = Excused(j)
<1>1. /\ \A j, n : Slice(j, n)' = Slice(j, n)
      /\ \A j : MagicAt(j)' = MagicAt(j)
  BY DEF Slice, MagicAt
<1>2. Blocks' = Blocks
  BY <1>1 DEF Blocks
<1> QED
  BY <1>1, <1>2 DEF Excused
-----------------------------------------------------------------------------
(* The dump.                                                               *)

LEMMA InitIsRight == Init => ScanInv
<1> SUFFICES ASSUME Init PROVE ScanInv
  OBVIOUS
<1>1. blob = <<>> /\ Len(blob) = 0 /\ found = <<>> /\ phase = "dump" /\ i = 0 /\ pos = 0
  BY DEF Init
<1>2. TypeOK
  BY <1>1, Sizes DEF Init, TypeOK
<1>3. blob = Chip(0, Len(blob))
  BY <1>1 DEF Chip
<1>4. Dumped /\ ReportsAreSlices /\ PassedOver /\ NoneLeft
  BY <1>1, <1>3, Sizes DEF Dumped, ReportsAreSlices, PassedOver, NoneLeft, Blocks
<1> QED
  BY <1>2, <1>4 DEF ScanInv

\* The memory from an address on is a sequence of cells.
LEMMA ChipIsTyped ==
    ASSUME TypeOK, NEW a \in Nat, NEW n \in Nat
    PROVE  Chip(a, n) \in Seq({0, 1}) /\ Len(Chip(a, n)) = n
<1>1. \A k \in 1 .. n : Cell(a + k - 1) \in {0, 1}
  BY Sizes DEF TypeOK, Cell
<1> QED
  BY <1>1 DEF Chip

LEMMA SameChip == ASSUME sram' = sram PROVE \A a, n : Chip(a, n)' = Chip(a, n)
BY DEF Chip, Cell

LEMMA Joined ==
    ASSUME NEW S, NEW s \in Seq(S), NEW b \in Seq(S)
    PROVE  /\ s \o b \in Seq(S) /\ Len(s \o b) = Len(s) + Len(b)
           /\ \A k \in 1 .. Len(s) : (s \o b)[k] = s[k]
           /\ \A k \in Len(s) + 1 .. Len(s) + Len(b) : (s \o b)[k] = b[k - Len(s)]
OBVIOUS

LEMMA SameSeq ==
    ASSUME NEW S, NEW s \in Seq(S), NEW b \in Seq(S), Len(s) = Len(b),
           \A k \in 1 .. Len(s) : s[k] = b[k]
    PROVE  s = b
OBVIOUS

\* Two pieces of memory one behind the other are one piece.
LEMMA ChipJoins ==
    ASSUME TypeOK, NEW a \in Nat, NEW n \in Nat
    PROVE  Chip(0, a) \o Chip(a, n) = Chip(0, a + n)
<1>1. Chip(0, a) \in Seq({0, 1}) /\ Len(Chip(0, a)) = a
  BY ChipIsTyped
<1>2. Chip(a, n) \in Seq({0, 1}) /\ Len(Chip(a, n)) = n
  BY ChipIsTyped
<1>3. Chip(0, a + n) \in Seq({0, 1}) /\ Len(Chip(0, a + n)) = a + n
  BY ChipIsTyped
<1>4. \A k \in 1 .. a : Chip(0, a)[k] = Cell(k - 1)
  BY DEF Chip
<1>5. \A k \in 1 .. n : Chip(a, n)[k] = Cell(a + k - 1)
  BY DEF Chip
<1>6. \A k \in 1 .. a + n : Chip(0, a + n)[k] = Cell(k - 1)
  BY DEF Chip
<1> DEFINE s == Chip(0, a) \o Chip(a, n)
<1>7. s \in Seq({0, 1}) /\ Len(s) = a + n
  BY <1>1, <1>2, Joined
<1>8. ASSUME NEW k \in 1 .. a + n PROVE s[k] = Cell(k - 1)
  <2>1. CASE k \in 1 .. a
    <3>1. s[k] = Chip(0, a)[k]
      BY <1>1, <1>2, <2>1, Joined
    <3> QED
      BY <1>4, <2>1, <3>1
  <2>2. CASE k \in a + 1 .. a + n
    <3>1. s[k] = Chip(a, n)[k - a]
      BY <1>1, <1>2, <2>2, Joined
    <3>2. k - a \in 1 .. n /\ a + (k - a) - 1 = k - 1
      BY <2>2
    <3> QED
      BY <1>5, <3>1, <3>2
  <2>3. k \in 1 .. a \/ k \in a + 1 .. a + n
    OBVIOUS
  <2> QED
    BY <2>1, <2>2, <2>3
<1>9. \A k \in 1 .. Len(s) : s[k] = Chip(0, a + n)[k]
  BY <1>6, <1>7, <1>8
<1>10. s = Chip(0, a + n)
  BY <1>3, <1>7, <1>9, SameSeq
<1> QED
  BY <1>10

\* In a faithful blob a block is what the chip holds at its address.
LEMMA SliceIsChip ==
    ASSUME TypeOK, blob = Chip(0, Len(blob)), NEW a \in Nat, a + BlockLen <= Len(blob)
    PROVE  Slice(a, BlockLen) = Chip(a, BlockLen)
<1>1. blob \in Seq({0, 1}) /\ Len(blob) \in Nat /\ BlockLen \in Nat
  BY Sizes DEF TypeOK
<1>2. /\ Slice(a, BlockLen) \in Seq({0, 1}) /\ Len(Slice(a, BlockLen)) = BlockLen
      /\ \A n \in 1 .. BlockLen : Slice(a, BlockLen)[n] = blob[a + n]
  BY <1>1, SliceInside
<1>3. Chip(a, BlockLen) \in Seq({0, 1}) /\ Len(Chip(a, BlockLen)) = BlockLen
  BY <1>1, ChipIsTyped
<1>4. \A n \in 1 .. BlockLen : Chip(a, BlockLen)[n] = Cell(a + n - 1)
  BY DEF Chip
<1>5. \A m \in 1 .. Len(blob) : Chip(0, Len(blob))[m] = Cell(0 + m - 1)
  BY DEF Chip
<1>6. ASSUME NEW n \in 1 .. BlockLen PROVE blob[a + n] = Cell(a + n - 1)
  <2>1. a + n \in 1 .. Len(blob) /\ 0 + (a + n) - 1 = a + n - 1
    BY <1>1
  <2> QED
    BY <1>5, <2>1
<1> QED
  BY <1>2, <1>3, <1>4, <1>6, SameSeq

LEMMA AskedBounds ==
    ASSUME TypeOK, Len(blob) < Length
    PROVE  Asked \in Nat /\ Asked > 0 /\ Len(blob) + Asked <= Length
BY Sizes DEF TypeOK, Asked

\* Nothing has been searched while the dump goes on.
LEMMA DumpKeepsScan ==
    ASSUME i' = 0, found' = <<>>, phase' # "done"
    PROVE  ReportsAreSlices' /\ PassedOver' /\ NoneLeft'
BY DEF ReportsAreSlices, PassedOver, NoneLeft, Blocks

LEMMA ReadBlockKeeps == ASSUME ScanInv, ReadBlock PROVE ScanInv'
<1>1. PICK k \in Replies : /\ blob' = blob \o Chip(pos, k)
                           /\ shorts' = shorts + IF k < Asked THEN 1 ELSE 0
  BY DEF ReadBlock
<1>2. /\ phase = "dump" /\ pos' = pos + Asked /\ sram' = sram /\ i' = i /\ found' = found
      /\ phase' = IF Len(blob') < Length THEN "dump" ELSE "scan"
  BY DEF ReadBlock, NextAddress
<1>3. TypeOK /\ Len(blob) < Length /\ i = 0 /\ found = <<>> /\ pos \in Nat
      /\ blob \in Seq({0, 1}) /\ Len(blob) \in Nat /\ shorts \in 0 .. MaxShort
  BY <1>2 DEF ScanInv, Dumped, TypeOK
<1>4. Asked \in Nat /\ Asked > 0 /\ Len(blob) + Asked <= Length
  BY <1>3, AskedBounds
<1>5. k \in 0 .. Asked /\ k \in Nat /\ (k = Asked \/ shorts < MaxShort)
  BY <1>4 DEF Replies
<1>6. blob' \in Seq({0, 1}) /\ Len(blob') = Len(blob) + k /\ Len(blob') <= Length
  <2>1. Chip(pos, k) \in Seq({0, 1}) /\ Len(Chip(pos, k)) = k
    BY <1>3, <1>5, ChipIsTyped
  <2>2. blob' \in Seq({0, 1}) /\ Len(blob') = Len(blob) + k
    BY <2>1, <1>1, <1>3, Joined
  <2> QED
    BY <2>2, <1>3, <1>4, <1>5, Sizes
<1>7. TypeOK'
  <2>1. shorts' \in 0 .. MaxShort
    BY <1>1, <1>3, <1>4, <1>5, Sizes
  <2>2. pos' \in Nat
    BY <1>2, <1>3, <1>4
  <2> QED
    BY <1>2, <1>3, <1>6, <2>1, <2>2 DEF TypeOK
<1>8. ASSUME shorts' = 0 PROVE pos' = Len(blob') /\ blob' = Chip(0, Len(blob))'
  <2>1. shorts = 0 /\ k = Asked
    BY <1>8, <1>1, <1>3, <1>4, <1>5, Sizes
  <2>2. pos = Len(blob) /\ blob = Chip(0, pos)
    BY <1>2, <2>1 DEF ScanInv, Dumped
  <2>3. pos' = Len(blob')
    BY <1>2, <1>6, <2>1, <2>2
  <2>4. blob' = Chip(0, pos + k)
    BY <1>1, <1>3, <1>5, <2>2, ChipJoins
  <2>5. Len(blob') = pos + k
    BY <1>6, <2>2
  <2>6. Chip(0, Len(blob))' = Chip(0, Len(blob'))
    BY <1>2, SameChip DEF Chip, Cell
  <2> QED
    BY <2>3, <2>4, <2>5, <2>6
<1>9. Dumped'
  BY <1>2, <1>3, <1>8 DEF Dumped
<1> QED
  BY <1>2, <1>3, <1>7, <1>9, DumpKeepsScan DEF ScanInv

LEMMA ReadFailsKeeps == ASSUME ScanInv, ReadFails PROVE ScanInv'
<1>1. /\ phase = "dump" /\ phase' = "raised" /\ sram' = sram /\ pos' = pos /\ blob' = blob
      /\ i' = i /\ found' = found /\ shorts' = shorts
  BY DEF ReadFails
<1>2. TypeOK' /\ i = 0 /\ found = <<>>
  BY <1>1 DEF ScanInv, TypeOK, Dumped
<1>3. Dumped'
  BY <1>1 DEF ScanInv, Dumped, Chip, Cell
<1> QED
  BY <1>1, <1>2, <1>3, DumpKeepsScan DEF ScanInv
-----------------------------------------------------------------------------
(* The scan.                                                               *)

First == CHOOSE h \in Hits : \A g \in Hits : h <= g

\* The search finds the first magic from i on.
LEMMA FirstHit ==
    ASSUME ScanInv, Hits # {}
    PROVE  /\ First \in Nat /\ i \in Nat /\ i <= First /\ MagicAt(First)
           /\ First <= Len(blob) - 1 /\ Len(blob) \in Nat /\ Len(blob) <= Length
           /\ \A g \in Blocks : i <= g => First <= g
<1>1. TypeOK /\ i \in Nat /\ Len(blob) \in Nat /\ Len(blob) <= Length
  BY Sizes DEF ScanInv, TypeOK
<1>2. Hits \subseteq Nat
  BY <1>1 DEF Hits
<1>3. \E h \in Hits : \A g \in Hits : h <= g
  <2>1. PICK h \in Hits : \A g \in Hits : ~(<<g, h>> \in OpToRel(<, Nat))
    BY <1>2, WFMin, NatLessThanWellFounded
  <2>2. ASSUME NEW g \in Hits PROVE h <= g
    <3>1. g \in Nat /\ h \in Nat
      BY <1>2
    <3>2. ~(g < h)
      BY <2>1, <3>1 DEF OpToRel
    <3> QED
      BY <3>1, <3>2
  <2> QED
    BY <2>2
<1>4. First \in Hits /\ \A g \in Hits : First <= g
  BY <1>3 DEF First
<1>5. \A g \in Blocks : i <= g => g \in Hits
  BY <1>1 DEF Blocks, Hits
<1> QED
  BY <1>1, <1>2, <1>4, <1>5 DEF Hits

LEMMA ExamineKeeps == ASSUME ScanInv, Examine PROVE ScanInv'
<1> DEFINE j == First
           b == Slice(j, BlockLen)
           good == ChecksumOk(b)
           new == good /\ NewBlock(b)
           R == [at : 0 .. Length - 1, block : Seq({0, 1})]
           r == [at |-> j, block |-> b]
<1>1. /\ phase = "scan" /\ Hits # {} /\ sram' = sram /\ phase' = phase /\ pos' = pos
      /\ blob' = blob /\ shorts' = shorts
      /\ i' = Onward(j, good)
      /\ found' = IF new THEN Append(found, r) ELSE found
  BY DEF Examine, First
<1>2. /\ j \in Nat /\ i \in Nat /\ i <= j /\ MagicAt(j) /\ Len(blob) \in Nat
      /\ j <= Len(blob) - 1 /\ Len(blob) <= Length
      /\ \A g \in Blocks : i <= g => j <= g
  BY <1>1, FirstHit
<1>3. /\ TypeOK /\ blob \in Seq({0, 1}) /\ found \in Seq(R) /\ Len(found) \in Nat
      /\ ReportsAreSlices /\ PassedOver
  BY DEF ScanInv, TypeOK
<1>4. good => j + BlockLen <= Len(blob) /\ b \in Seq({0, 1}) /\ r \in R
  <2> SUFFICES ASSUME good PROVE j + BlockLen <= Len(blob) /\ b \in Seq({0, 1}) /\ r \in R
    OBVIOUS
  <2>1. Len(b) = BlockLen
    BY DEF ChecksumOk
  <2>2. j + BlockLen <= Len(blob)
    BY <1>2, <1>3, <2>1, Sizes, SliceFits
  <2>3. b \in Seq({0, 1})
    BY <1>2, <1>3, <2>2, Sizes, SliceInside
  <2>4. j \in 0 .. Length - 1
    BY <1>2, Sizes
  <2> QED
    BY <2>2, <2>3, <2>4
<1>5. good <=> j \in Blocks
  BY <1>2 DEF Blocks
<1>6. /\ good => i' = j + BlockLen
      /\ ~good => i' = j + 3
  BY <1>1, Sizes DEF Onward
<1>7. found' \in Seq(R) /\ Len(found') \in Nat
  <2>1. \A s \in Seq(R) : \A x \in R : Append(s, x) \in Seq(R)
    OBVIOUS
  <2>2. found' \in Seq(R)
    BY <1>1, <1>3, <1>4, <2>1
  <2> QED
    BY <2>2
<1>8. TypeOK'
  <2>1. i' \in 0 .. Length + BlockLen
    BY <1>2, <1>6, Sizes
  <2> QED
    BY <1>1, <1>3, <1>7, <2>1 DEF TypeOK
<1>9. ReportsAreSlices'
  <2>1. CASE ~new
    BY <2>1, <1>1, <1>3, SameBlob DEF ReportsAreSlices
  <2>2. CASE new
    <3>1. /\ Len(found') = Len(found) + 1 /\ found'[Len(found) + 1] = r
          /\ \A k \in 1 .. Len(found) : found'[k] = found[k]
          /\ DOMAIN found' = 1 .. Len(found) + 1 /\ DOMAIN found = 1 .. Len(found)
      BY <1>1, <1>3, <1>4, <2>2
    <3>2. ASSUME NEW k \in DOMAIN found'
          PROVE  found'[k].at + BlockLen <= Len(blob)
                 /\ found'[k].block = Slice(found'[k].at, BlockLen)
      <4>1. CASE k = Len(found) + 1
        BY <1>4, <2>2, <3>1, <4>1
      <4>2. CASE k \in DOMAIN found
        BY <1>3, <3>1, <4>2 DEF ReportsAreSlices
      <4> QED
        BY <1>3, <3>1, <4>1, <4>2
    <3>3. ASSUME NEW k \in DOMAIN found', NEW m \in DOMAIN found',
                 found'[m].block = found'[k].block
          PROVE  m = k
      <4>1. \A x \in DOMAIN found : found'[x].block # b
        BY <2>2, <3>1 DEF NewBlock
      <4>2. CASE k \in DOMAIN found /\ m \in DOMAIN found
        BY <1>3, <3>1, <3>3, <4>2 DEF ReportsAreSlices
      <4>3. CASE k = Len(found) + 1 \/ m = Len(found) + 1
        <5>1. k \in DOMAIN found \/ k = Len(found) + 1
          BY <1>3, <3>1
        <5>2. m \in DOMAIN found \/ m = Len(found) + 1
          BY <1>3, <3>1
        <5> QED
          BY <3>1, <3>3, <4>1, <4>3, <5>1, <5>2
      <4> QED
        BY <1>3, <3>1, <4>2, <4>3
    <3> QED
      BY <1>1, <3>2, <3>3, SameBlob DEF ReportsAreSlices
  <2> QED
    BY <2>1, <2>2
<1>10. Reported \subseteq Reported' /\ (good => b \in Reported')
  <2>1. CASE ~new
    BY <2>1, <1>1 DEF Reported, NewBlock
  <2>2. CASE new
    <3>1. /\ found'[Len(found) + 1] = r /\ Len(found) + 1 \in DOMAIN found'
          /\ \A k \in DOMAIN found : k \in DOMAIN found' /\ found'[k] = found[k]
      BY <1>1, <1>3, <1>4, <2>2
    <3> QED
      BY <3>1 DEF Reported
  <2> QED
    BY <2>1, <2>2
<1>11. ASSUME NEW g \in Blocks, g < i'
       PROVE  Slice(g, BlockLen) \in Reported' \/ Excused(g)
  <2>1. g \in Nat
    BY <1>2 DEF Blocks
  <2>2. CASE g < i
    BY <2>2, <1>3, <1>10 DEF PassedOver
  <2>3. CASE g = j
    BY <2>3, <1>5, <1>10
  <2>4. CASE g > j
    <3>1. CASE good
      BY <1>5, <1>6, <1>11, <2>4, <3>1 DEF Excused
    <3>2. CASE ~good
      <4>1. g = j + 1 \/ g = j + 2
        BY <1>2, <1>6, <1>11, <2>1, <2>4, <3>2
      <4>2. g # j + 1
        BY <1>2, <1>3, MagicsApart DEF Blocks
      <4>3. g = j + 2 /\ g - MagicLen + 1 = j /\ g >= MagicLen - 1
        BY <1>2, <4>1, <4>2, Sizes
      <4> QED
        BY <1>2, <1>5, <3>2, <4>3 DEF Excused
    <3> QED
      BY <3>1, <3>2
  <2> QED
    BY <1>2, <2>1, <2>2, <2>3, <2>4
<1>12. PassedOver'
  BY <1>1, <1>11, SameBlob DEF PassedOver
<1>13. Dumped'
  BY <1>1, SameChip DEF ScanInv, Dumped, Chip, Cell
<1>14. NoneLeft'
  BY <1>1 DEF NoneLeft
<1> QED
  BY <1>8, <1>9, <1>12, <1>13, <1>14 DEF ScanInv

\* A step that leaves the blob, the place of the search and the reports alone.
LEMMA NoMoreKeeps == ASSUME ScanInv, NoMore \/ UNCHANGED vars PROVE ScanInv'
<1>1. /\ sram' = sram /\ pos' = pos /\ blob' = blob /\ i' = i /\ found' = found
      /\ shorts' = shorts
      /\ phase' = phase \/ (phase = "scan" /\ phase' = "done" /\ Hits = {})
  BY DEF NoMore, vars
<1>2. TypeOK'
  BY <1>1 DEF ScanInv, TypeOK
<1>3. Dumped'
  BY <1>1 DEF ScanInv, Dumped, Chip, Cell
<1>4. ReportsAreSlices' /\ PassedOver'
  <2>1. Reported' = Reported
    BY <1>1 DEF Reported
  <2> QED
    BY <1>1, <2>1, SameBlob DEF ScanInv, ReportsAreSlices, PassedOver
<1>5. NoneLeft'
  <2>1. Hits' = Hits
    BY <1>1, SameBlob DEF Hits
  <2> QED
    BY <1>1, <2>1 DEF ScanInv, NoneLeft
<1> QED
  BY <1>2, <1>3, <1>4, <1>5 DEF ScanInv
-----------------------------------------------------------------------------
(* Theorems.                                                               *)

\* For memories, calls and blocks of any length and any number of short replies: the
\* blob is the memory unless a reply was short, reports are slices of it, and what
\* was passed over is reported or excused.
THEOREM ScanInvariant == Spec => []ScanInv
<1>1. Init => ScanInv
  BY InitIsRight
<1>2. ScanInv /\ [Next]_vars => ScanInv'
  BY ReadBlockKeeps, ReadFailsKeeps, ExamineKeeps, NoMoreKeeps DEF Next
<1> QED
  BY <1>1, <1>2, PTL DEF Spec

\* Types of the dump and the scan.
THEOREM ScanTypes == Spec => []TypeOK
<1>1. ScanInv => TypeOK
  BY DEF ScanInv
<1> QED
  BY <1>1, ScanInvariant, PTL

\* An EDID is reported where the chip holds it, unless a reply was short, and no
\* block twice.
THEOREM ReportsTrue == Spec => []ReportsAreTrue
<1>1. ScanInv => ReportsAreTrue
  <2> SUFFICES ASSUME ScanInv PROVE ReportsAreTrue
    OBVIOUS
  <2>1. /\ blob \in Seq({0, 1}) /\ Len(blob) \in Nat /\ Len(blob) <= Length /\ ReportsAreSlices
        /\ found \in Seq([at : 0 .. Length - 1, block : Seq({0, 1})]) /\ TypeOK
    BY DEF ScanInv, TypeOK
  <2>2. ASSUME shorts = 0 PROVE blob = Chip(0, Len(blob))
    BY <2>2 DEF ScanInv, Dumped
  <2>3. ASSUME shorts = 0, NEW k \in DOMAIN found
        PROVE  found[k].at + BlockLen <= Length /\ found[k].block = Chip(found[k].at, BlockLen)
    <3>1. found[k] \in [at : 0 .. Length - 1, block : Seq({0, 1})]
      <4>1. \A S : \A s \in Seq(S) : \A x \in DOMAIN s : s[x] \in S
        OBVIOUS
      <4> QED
        BY <2>1, <4>1
    <3>2. /\ found[k].at \in Nat /\ found[k].at + BlockLen <= Len(blob)
          /\ found[k].block = Slice(found[k].at, BlockLen)
      BY <2>1, <3>1 DEF ReportsAreSlices
    <3>3. Slice(found[k].at, BlockLen) = Chip(found[k].at, BlockLen)
      BY <2>1, <2>2, <2>3, <3>2, SliceIsChip
    <3> QED
      BY <2>1, <3>2, <3>3, Sizes
  <2> QED
    BY <2>1, <2>2, <2>3 DEF ReportsAreTrue, ReportsAreSlices
<1> QED
  BY <1>1, ScanInvariant, PTL

\* A finished scan misses only blocks that begin inside an accepted one, or on the
\* last byte of the magic of a rejected one.
THEOREM ScanMissesOnly == Spec => []MissesOnly
<1>1. ScanInv => MissesOnly
  <2> SUFFICES ASSUME ScanInv, phase = "done", NEW j \in Blocks
               PROVE  Slice(j, BlockLen) \in Reported \/ Excused(j)
    BY DEF MissesOnly, Excused
  <2>1. j \in Nat /\ i \in Nat /\ Len(blob) \in Nat
    BY Sizes DEF ScanInv, TypeOK, Blocks
  <2>2. j \notin Hits
    BY DEF ScanInv, NoneLeft
  <2>3. j < i
    BY <2>1, <2>2 DEF Blocks, Hits
  <2> QED
    BY <2>3 DEF ScanInv, PassedOver
<1> QED
  BY <1>1, ScanInvariant, PTL
=============================================================================
