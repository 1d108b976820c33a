------------------------------ MODULE DumpFile ------------------------------
(***************************************************************************)
(* The text dumps vmmdump reads and writes: report.write_raw writes the    *)
(* registers one to a line between two markers; addresses.parse_registers  *)
(* and parse_memory read such a file, or one of VMMTool's, line by line;   *)
(* cli.cmd_offline joins the memory rows to one block for the EDID scan.   *)
(*                                                                         *)
(* A line is what the parsers' regular expressions make of it.  A row of   *)
(* memory holds RowLen bytes (16).                                         *)
(***************************************************************************)
EXTENDS Integers, SequencesExt, FiniteSetsExt

CONSTANTS
    Lines,      \* the lines a file of VMMTool is made of
    MaxLines,   \* bound: the length of such a file
    Addr, Value,    \* the registers of a dump and their values
    RowLen

ASSUME DumpFileAssumption ==
    /\ MaxLines \in Nat /\ RowLen \in Nat \ {0}
    /\ Addr \subseteq Nat /\ Value \subseteq Nat
    /\ \A l \in Lines : l.kind \in {"row", "multi"} => l.at \in Nat /\ l.words \in Seq(Nat)

VARIABLES
    what,       \* which section is parsed: "reg" or "mem"
    origin,     \* who made the file: "vmmtool", "vmmdump", or vmmdump cut short
    regs,       \* what vmmdump wrote into it
    file,       \* its lines
    at,         \* lines read
    inSec,      \* in_sec
    stage,      \* "parse", "parsed", "joined" or "raised"
    parsed,     \* registers by address, or rows by address
    blob        \* cmd_offline: the memory block, from the first row on

fileVars == <<what, origin, regs, file, at, inSec, stage, parsed, blob>>
input == <<what, origin, regs, file>>

\* The kinds of a line.  Markers and text carry no data.  The numbers of a multi
\* line have eight digits, those of a row an even number of them.
Text == [kind |-> "text"]
Opens(w)  == [kind |-> "opens", what |-> w]
Closes(w) == [kind |-> "closes", what |-> w]
Single(a, v) == [kind |-> "single", at |-> a, words |-> <<v>>]
Multi(a, ws) == [kind |-> "multi", at |-> a, words |-> ws]
Row(a, ws)   == [kind |-> "row", at |-> a, words |-> ws]
----------------------------------------------------------------------------
(* write_raw                                                               *)

\* sorted(): the members of a set of numbers from the least on.
Ascending(S) ==
    CHOOSE s \in [1 .. Cardinality(S) -> S] : \A i, j \in DOMAIN s : i < j => s[i] < s[j]

\* Mutants: the loop over the registers is off by one; they are not sorted.
WriteAllButLast(r) ==
    LET as == Ascending({a \in DOMAIN r : \E b \in DOMAIN r : a < b})
    IN  <<Text, Opens("reg")>> \o [i \in DOMAIN as |-> Single(as[i], r[as[i]])]
            \o <<Closes("reg"), Text>>

WriteDescending(r) ==
    LET as == Reverse(Ascending(DOMAIN r))
    IN  <<Text, Opens("reg")>> \o [i \in DOMAIN as |-> Single(as[i], r[as[i]])]
            \o <<Closes("reg"), Text>>

\* Identity lines, then the registers in the order of their addresses, then
\* what follows the dump: the rows of an EDID.
WriteRaw(r) ==
    LET as == Ascending(DOMAIN r)
    IN  <<Text, Opens("reg")>> \o [i \in DOMAIN as |-> Single(as[i], r[as[i]])]
            \o <<Closes("reg"), Text>>

\* The line at which writing stopped, the process killed or the disk full: of a
\* register a number of its leading digits (here binary ones) can be left.
BrokenOff(l) ==
    {Text} \cup IF l.kind = "single"
                THEN {Single(l.at, l.words[1] \div d) : d \in {1, 2, 4}} ELSE {}

Dumps == UNION {[A -> Value] : A \in {B \in SUBSET Addr : IsFiniteSet(B)}}

FileInit ==
    /\ what \in {"reg", "mem"}
    /\ \/ origin = "vmmtool" /\ regs = <<>> /\ file \in BoundedSeq(Lines, MaxLines)
       \/ origin = "vmmdump" /\ regs \in Dumps /\ file = WriteRaw(regs)
       \/ /\ origin = "cut" /\ regs \in Dumps
          /\ \E n \in DOMAIN WriteRaw(regs) : \E l \in BrokenOff(WriteRaw(regs)[n]) :
                file = Append(SubSeq(WriteRaw(regs), 1, n - 1), l)
    /\ at = 0 /\ inSec = FALSE /\ stage = "parse"
    /\ parsed = <<>> /\ blob = <<>>
----------------------------------------------------------------------------
(* parse_registers, parse_memory                                           *)

Line == file[at + 1]

\* What a line of the section adds; a later line overrides an earlier one.
Entries(l) ==
    IF what = "reg" /\ l.kind \in {"single", "multi"}
    THEN [a \in {l.at + 4 * (i - 1) : i \in DOMAIN l.words} |->
            l.words[(a - l.at) \div 4 + 1]]
    ELSE IF what = "mem" /\ l.kind \in {"row", "multi"} THEN [a \in {l.at} |-> l.words]
    ELSE <<>>

\* _RE_MEMROW takes numbers of any even length, those of a multi line too; bytes()
\* takes none above 255.
Unreadable(l) ==
    /\ what = "mem" /\ l.kind \in {"row", "multi"}
    /\ \E i \in DOMAIN l.words : l.words[i] > 255

\* Mutant: an earlier line is kept.
KeepFirst(f, new) ==
    [a \in DOMAIN f \cup DOMAIN new |-> IF a \in DOMAIN f THEN f[a] ELSE new[a]]

Override(f, new) ==
    [a \in DOMAIN f \cup DOMAIN new |-> IF a \in DOMAIN new THEN new[a] ELSE f[a]]

Open ==
    /\ Line = Opens(what)
    /\ inSec' = TRUE
    /\ UNCHANGED <<stage, parsed>>

\* The end marker ends the reading, in the section or not.
Close ==
    /\ Line = Closes(what)
    /\ stage' = "parsed"
    /\ UNCHANGED <<inSec, parsed>>

Data ==
    /\ Line \notin {Opens(what), Closes(what)}
    /\ IF inSec /\ Unreadable(Line)
       THEN stage' = "raised" /\ UNCHANGED parsed
       ELSE /\ parsed' = IF inSec THEN Override(parsed, Entries(Line)) ELSE parsed
            /\ UNCHANGED stage
    /\ UNCHANGED inSec

ReadLine ==
    /\ stage = "parse" /\ at < Len(file)
    /\ Open \/ Close \/ Data
    /\ at' = at + 1
    /\ UNCHANGED <<input, blob>>

EndOfFile ==
    /\ stage = "parse" /\ at = Len(file)
    /\ stage' = "parsed"
    /\ UNCHANGED <<input, at, inSec, parsed, blob>>
----------------------------------------------------------------------------
(* cmd_offline                                                             *)

RowAt(a) == IF a \in DOMAIN parsed THEN parsed[a] ELSE [k \in 1 .. RowLen |-> 0]
Base == Min(DOMAIN parsed)

\* Mutant: range(base, max(rows), 16), which leaves the last row out.
RowsBeforeLast == (Max(DOMAIN parsed) - Base + RowLen - 1) \div RowLen

\* The length of range(base, max(rows) + 16, 16)
Rows == (Max(DOMAIN parsed) - Base + RowLen - 1) \div RowLen + 1

\* Rows that do not lie a number of rows behind the first are passed over.
Join ==
    /\ stage = "parsed" /\ what = "mem"
    /\ stage' = "joined"
    /\ blob' = IF parsed = <<>> THEN <<>>
               ELSE FlattenSeq([i \in 1 .. Rows |->
                                   RowAt(Base + (i - 1) * RowLen)])
    /\ UNCHANGED <<input, at, inSec, parsed>>

FileNext == ReadLine \/ EndOfFile \/ Join
FileSpec == FileInit /\ [][FileNext]_fileVars
----------------------------------------------------------------------------
(* Properties.                                                             *)

Parsed == stage \in {"parsed", "joined"}

\* What a section is: the lines between the first opening and the first end
\* marker, and to the end of a file without one.
Marks(m) == {i \in DOMAIN file : file[i] = m}
Section ==
    {i \in DOMAIN file : /\ \E o \in Marks(Opens(what)) : o < i
                         /\ \A c \in Marks(Closes(what)) : i < c}
Speaks(i, a) == a \in DOMAIN Entries(file[i])

\* The parser returns what the last line of the section about each address
\* says, for every file, whatever lines stand where; it raises at the first line
\* of the memory section, of words or of bytes, with a number above 255.
SectionIsParsed ==
    /\ stage = "raised" =>
        /\ at \in Section /\ Unreadable(file[at])
        /\ \A i \in Section : i < at => ~Unreadable(file[i])
    /\ Parsed =>
        /\ \A i \in Section : ~Unreadable(file[i])
        /\ DOMAIN parsed = UNION {DOMAIN Entries(file[i]) : i \in Section}
        /\ \A i \in Section : \A a \in DOMAIN Entries(file[i]) :
              \/ parsed[a] = Entries(file[i])[a]
              \/ \E k \in Section : k > i /\ Speaks(k, a)

\* A dump vmmdump wrote is read back as it was: report.py:14.
RoundTrip == Parsed /\ origin = "vmmdump" /\ what = "reg" => parsed = regs

\* A dump that was cut short is read back without an error, as fewer registers;
\* only the last of them can be wrong.
CutHarmsLastOnly ==
    Parsed /\ origin = "cut" /\ what = "reg" =>
        /\ DOMAIN parsed \subseteq DOMAIN regs
        /\ \A a \in DOMAIN parsed : parsed[a] = regs[a] \/ a = Max(DOMAIN parsed)

\* With rows of full length the block holds, at every place, the byte of that
\* address, or zero where the file has none.
Full == \A a \in DOMAIN parsed : Len(parsed[a]) = RowLen
Aligned(a) == (a - Base) % RowLen = 0
BlobIsPlaced ==
    stage = "joined" /\ Full =>
        /\ \A a \in {b \in DOMAIN parsed : Aligned(b)} :
              \A k \in 1 .. RowLen : /\ a - Base + k \in DOMAIN blob
                                     /\ blob[a - Base + k] = parsed[a][k]
        /\ \A p \in DOMAIN blob :
              blob[p] # 0 => \E a \in DOMAIN parsed : \E k \in 1 .. RowLen :
                                p = a - Base + k /\ blob[p] = parsed[a][k]
=============================================================================
