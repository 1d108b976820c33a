--------------------------- MODULE FirmwareImage ---------------------------
(***************************************************************************)
(* What fw.render finds in a flash image: the section map, the first       *)
(* instructions at the reset vector and at its target, the USB device      *)
(* descriptors and the strings.  One turn of each loop per step; an error  *)
(* anywhere loses the whole report.                                        *)
(***************************************************************************)
EXTENDS I8051

CONSTANTS
    Blobs,      \* the images
    Block,      \* bytes of a block of the section map (256)
    Page        \* bytes of a page of the container (256)

ASSUME FirmwareImageAssumption ==
    /\ Blobs \subseteq Seq(Byte) /\ Block \in Nat \ {0} /\ Page \in Nat \ {0}

VARIABLES
    blob,
    phase,      \* what is looked for next, "done" or "raised"
    off, start, kind,   \* decode_container: the section in the making
    sections,
    pos, left,  \* disasm: the instruction, and how many are still wanted
    i, strings  \* find_strings

imageVars == <<blob, phase, off, start, kind, sections, pos, left, i, strings>>
secs == <<off, start, kind, sections>>
walk == <<pos, left>>
scan == <<i, strings>>

Size == Len(blob)
At(a) == blob[a + 1]
Bytes(a, b) == {At(x) : x \in a .. b - 1}

ImageInit ==
    /\ blob \in Blobs
    /\ phase = "header"
    /\ off = 0 /\ start = 0 /\ kind = "none" /\ sections = <<>>
    /\ pos = 0 /\ left = 10 /\ i = 0 /\ strings = {}

\* blob[4] to blob[7] are there, or IndexError.
ReadHeader ==
    /\ phase = "header"
    /\ phase' = IF Size < 8 THEN "raised" ELSE "sections"
    /\ UNCHANGED <<blob, secs, walk, scan>>

CodeStart == (At(4) + 256 * At(5)) * Page
Code == SubSeq(blob, CodeStart + 1, Size)
----------------------------------------------------------------------------
(* The section map                                                         *)

Least(a, b) == IF a < b THEN a ELSE b
KindOf(a) ==
    LET bytes == Bytes(a, Least(a + Block, Size)) IN
    IF bytes = {255} THEN "erased" ELSE IF bytes = {0} THEN "zero" ELSE "data"
Section(from, to, k) == [start |-> from, end |-> to, kind |-> k]

\* Mutant: a section ends a block late.
SectionIsLate ==
    /\ off' = off + Block
    /\ IF KindOf(off) = kind THEN UNCHANGED <<start, kind, sections>>
       ELSE /\ start' = off /\ kind' = KindOf(off)
            /\ sections' = IF kind = "none" THEN sections
                           ELSE Append(sections, Section(start, off', kind))

\* A block of another kind ends the section before it.
TakeBlock ==
    /\ off' = off + Block
    /\ IF KindOf(off) = kind THEN UNCHANGED <<start, kind, sections>>
       ELSE /\ start' = off /\ kind' = KindOf(off)
            /\ sections' = IF kind = "none" THEN sections
                           ELSE Append(sections, Section(start, off, kind))

MapSections ==
    /\ phase = "sections"
    /\ IF off < Size THEN TakeBlock /\ UNCHANGED phase
       ELSE /\ phase' = "vectors" /\ sections' = Append(sections, Section(start, Size, kind))
            /\ UNCHANGED <<off, start, kind>>
    /\ UNCHANGED <<blob, walk, scan>>
----------------------------------------------------------------------------
(* disasm, from the reset vector and then from its target                  *)

Target0 == Target(Code, 0)

\* The code at 0 is decoded once more for its target; nothing there raises.
VectorsDone ==
    IF Code = <<>> THEN phase' = "raised" /\ UNCHANGED walk
    ELSE IF Class[Code[1]] \in {"jump", "call", "branch"} /\ Target0 < Len(Code)
         THEN phase' = "entry" /\ pos' = Target0 /\ left' = 14
         ELSE phase' = "strings" /\ UNCHANGED walk

Disassemble ==
    /\ phase \in {"vectors", "entry"}
    /\ IF pos < Len(Code) /\ left > 0
       THEN IF Whole(Code, pos)
            THEN pos' = NextAddr(Code, pos) /\ left' = left - 1 /\ UNCHANGED phase
            ELSE phase' = "raised" /\ UNCHANGED walk
       ELSE IF phase = "vectors" THEN VectorsDone
            ELSE phase' = "strings" /\ UNCHANGED walk
    /\ UNCHANGED <<blob, secs, scan>>
----------------------------------------------------------------------------
(* find_descriptors and find_strings                                       *)

IsDevice(o) ==
    /\ At(o) = 18 /\ At(o + 1) = 1 /\ At(o + 7) \in {8, 9, 16, 32, 64}
    /\ At(o + 8) = 9 /\ At(o + 9) = 33

\* The offsets of range(n - 18).
Descriptors == {o \in 0 .. Size - 19 : IsDevice(o)}

IsString(a) ==
    /\ At(a + 1) = 3 /\ At(a) \in {2 * k : k \in 2 .. 32} /\ a + At(a) <= Size
    /\ \A k \in 1 .. At(a) \div 2 - 1 : At(a + 2 * k) \in 32 .. 126 /\ At(a + 2 * k + 1) = 0

\* Mutant: the scan goes on word by word.
StepByWord(a) == IF IsString(a) THEN a + At(a) ELSE a + 2

\* The scan goes on behind a string, or with the next byte.
StepFrom(a) == IF IsString(a) THEN a + At(a) ELSE a + 1

FindString ==
    /\ phase = "strings"
    /\ IF i < Size - 2
       THEN /\ strings' = IF IsString(i) THEN strings \cup {i} ELSE strings
            /\ i' = StepFrom(i) /\ UNCHANGED phase
       ELSE phase' = "done" /\ UNCHANGED scan
    /\ UNCHANGED <<blob, secs, walk>>

ImageNext == ReadHeader \/ MapSections \/ Disassemble \/ FindString
ImageSpec == ImageInit /\ [][ImageNext]_imageVars
----------------------------------------------------------------------------
(* Properties.                                                             *)

\* fw.py:47: the section map is a partition of the image into stretches, each of
\* which holds what its kind says, and neighbours differ in kind.
Holds == [erased |-> {255}, zero |-> {0}]
SectionsPartition ==
    phase = "done" =>
        /\ sections[1].start = 0 /\ sections[Len(sections)].end = Size
        /\ \A k \in DOMAIN sections :
              LET s == sections[k] IN
              /\ s.start < s.end
              /\ s.kind \in DOMAIN Holds => Bytes(s.start, s.end) = Holds[s.kind]
              /\ k > 1 => sections[k - 1].end = s.start /\ sections[k - 1].kind # s.kind

\* fw.py:94, fw.py:106: every string descriptor is found, though the scan steps over
\* the whole of each: none begins inside another.  Every device descriptor is
\* found but one that ends with the image.
ScansFindAll ==
    phase = "done" =>
        /\ strings = {a \in 0 .. Size - 4 : IsString(a)}
        /\ \A a, b \in strings : a < b => a + At(a) <= b
        /\ {o \in 0 .. Size - 18 : IsDevice(o)} \ Descriptors \subseteq {Size - 18}

\* The report is lost only for an image without a header, one whose code would
\* begin behind its end (an erased one), or one that ends in the middle of an
\* instruction within the few that are shown.
LostOnlyByCode ==
    phase = "raised" =>
        \/ Size < 8
        \/ CodeStart >= Size
        \/ pos < Len(Code) /\ NextAddr(Code, pos) > Len(Code)
=============================================================================
