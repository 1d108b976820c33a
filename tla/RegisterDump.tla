---------------------------- MODULE RegisterDump ----------------------------
(***************************************************************************)
(* The register dump of vmmdump: addresses.coalesce groups the sorted      *)
(* addresses into runs, one at a time, and dumper.dump_registers reads     *)
(* each run with one read_memory call and cuts the answer into registers.  *)
(*                                                                         *)
(* The byte at address a of the chip is a itself; so a register that was   *)
(* read holds the addresses its four bytes came from.                      *)
(***************************************************************************)
EXTENDS Integers, Sequences

CONSTANTS
    Space       \* the addresses a list can name

ASSUME SpaceAssumption == Space \subseteq Nat

VARIABLES
    addrs,      \* the addresses asked for
    it,         \* those coalesce() has not come to
    phase,      \* "group", "read", "done" or "raised"
    start, prev, count,     \* the run in the making; none while count = 0
    runs,       \* the runs made
    next,       \* dump_registers: the run that is read next
    out         \* dump_registers: the registers read

vars == <<addrs, it, phase, start, prev, count, runs, next, out>>
grouping == <<addrs, it, start, prev, count, runs>>

Stride == 4

\* The addresses of a run, and the bytes of a register.
Members(s, n) == {s + Stride * k : k \in 0 .. n - 1}
Word(a) == [k \in 0 .. 3 |-> a + k]

Init ==
    /\ addrs \in SUBSET Space
    /\ it = addrs /\ phase = "group"
    /\ start = 0 /\ prev = 0 /\ count = 0
    /\ runs = <<>> /\ next = 1 /\ out = <<>>
----------------------------------------------------------------------------
(* coalesce: the sorted iterator gives the least address that is left.     *)

Least(a) == a \in it /\ \A b \in it : a <= b

Begin(a) ==
    /\ count = 0
    /\ start' = a /\ count' = 1
    /\ UNCHANGED runs

Extend(a) ==
    /\ count > 0 /\ a = prev + Stride
    /\ count' = count + 1
    /\ UNCHANGED <<start, runs>>

\* Mutant: the count of the run before is kept.
BreakKeepsCount(a) ==
    /\ count > 0 /\ a # prev + Stride
    /\ runs' = Append(runs, <<start, count>>)
    /\ start' = a
    /\ UNCHANGED count

Break(a) ==
    /\ count > 0 /\ a # prev + Stride
    /\ runs' = Append(runs, <<start, count>>)
    /\ start' = a /\ count' = 1

Take ==
    /\ phase = "group"
    /\ \E a \in it :
          /\ Least(a)
          /\ Begin(a) \/ Extend(a) \/ Break(a)
          /\ prev' = a
          /\ it' = it \ {a}
    /\ UNCHANGED <<addrs, phase, next, out>>

\* The iterator is exhausted; an empty one makes no run.
Finish ==
    /\ phase = "group" /\ it = {}
    /\ runs' = IF count > 0 THEN Append(runs, <<start, count>>) ELSE runs
    /\ phase' = "read"
    /\ UNCHANGED <<addrs, it, start, prev, count, next, out>>
----------------------------------------------------------------------------
(* dump_registers                                                          *)

Raw(s, n) == [k \in 0 .. Stride * n - 1 |-> s + k]

\* Mutant: the offset of a register counts registers, not bytes.
UnpackByIndex(raw, at) == [k \in 0 .. 3 |-> raw[at \div Stride + k]]

\* struct.unpack_from("<I", raw, at)
Unpack(raw, at) == [k \in 0 .. 3 |-> raw[at + k]]

ReadRun ==
    /\ phase = "read" /\ next <= Len(runs)
    /\ LET s == runs[next][1]
           n == runs[next][2]
       IN  out' = [a \in DOMAIN out \cup Members(s, n) |->
                      IF a \in Members(s, n) THEN Unpack(Raw(s, n), a - s) ELSE out[a]]
    /\ next' = next + 1
    /\ UNCHANGED <<grouping, phase>>

\* read_memory raised, or its answer was too short for the last register:
\* struct.error.  Nothing of the dump is left.
ReadFails ==
    /\ phase = "read" /\ next <= Len(runs)
    /\ phase' = "raised"
    /\ UNCHANGED <<grouping, next, out>>

Return ==
    /\ phase = "read" /\ next > Len(runs)
    /\ phase' = "done"
    /\ UNCHANGED <<grouping, next, out>>

Next == Take \/ Finish \/ ReadRun \/ ReadFails \/ Return
Spec == Init /\ [][Next]_vars
----------------------------------------------------------------------------
(* Properties.                                                             *)

LastOf(i) == runs[i][1] + Stride * (runs[i][2] - 1)
CoveredBy(n) == UNION {Members(runs[i][1], runs[i][2]) : i \in 1 .. n}
Covered == CoveredBy(Len(runs))
InProgress == phase = "group" /\ count > 0
Current == IF InProgress THEN Members(start, count) ELSE {}

TypeOK ==
    /\ addrs \in SUBSET Space /\ it \in SUBSET addrs
    /\ phase \in {"group", "read", "done", "raised"}
    /\ start \in Nat /\ prev \in Nat /\ count \in Nat
    /\ runs \in Seq(Nat \X (Nat \ {0}))
    /\ next \in 1 .. Len(runs) + 1
    /\ DOMAIN out \subseteq Space

\* Grouping loses no address and invents none, at every moment.
NothingLost == addrs = it \cup Current \cup Covered

\* Runs come in order, so no register is read twice, and two neighbours leave
\* a gap: as few commands are sent as there can be.
RunsApart ==
    \A i, j \in DOMAIN runs : i < j =>
        /\ LastOf(i) < runs[j][1]
        /\ j = i + 1 => runs[j][1] # LastOf(i) + Stride

\* The dump holds every register asked for, no other, and each with its own
\* four bytes.
DumpExact ==
    phase = "done" => /\ DOMAIN out = addrs
                      /\ \A a \in addrs : out[a] = Word(a)

----------------------------------------------------------------------------
(* The inductive invariant behind them.                                    *)

\* The run in the making ends at prev, and the iterator is past it.
AtPrev ==
    InProgress => /\ prev = start + Stride * (count - 1)
                  /\ \A b \in it : prev < b
                  /\ \A i \in DOMAIN runs : /\ LastOf(i) < start
                                            /\ i = Len(runs) => start # LastOf(i) + Stride

\* Before the first address there is no run; after the last no iterator.
Stages ==
    /\ phase = "group" => next = 1 /\ out = <<>>
    /\ phase = "group" /\ count = 0 => runs = <<>> /\ it = addrs
    /\ phase # "group" => it = {}

\* The registers are those of the runs read so far.
OutOfRuns ==
    /\ DOMAIN out = CoveredBy(next - 1)
    /\ \A a \in DOMAIN out : out[a] = Word(a)

AllRead == phase = "done" => next = Len(runs) + 1

DumpInv ==
    /\ TypeOK /\ NothingLost /\ RunsApart /\ AtPrev /\ Stages /\ OutOfRuns /\ AllRead
=============================================================================
