----------------------------- MODULE DumpProofs -----------------------------
(***************************************************************************)
(* The register dump, the file it is kept in and the report on a live hub. *)
(*                                                                         *)
(* For every list of addresses, the dump that dump_registers returns holds *)
(* exactly those registers, each cut from the right place of the right     *)
(* answer, and no register is read twice.  The invariant is DumpInv.       *)
(*                                                                         *)
(* For every set of registers, what write_raw made of it is read back as   *)
(* it was, and of a file cut short all but the last register; for every    *)
(* file, the parsers return what the last line of the section about each   *)
(* address says, and the block joined of memory rows holds each byte in    *)
(* its place.  The invariant is FileInv: what was parsed so far is what    *)
(* the lines read so far say.                                              *)
(*                                                                         *)
(* However often the chip changes while a live hub is read, the report     *)
(* shows what kept its mode as it is, and with the chip's data window no   *)
(* timing of two moments.  The invariant is LiveInv: what was read is what *)
(* the chunks read hold, each word as its unit was at some moment since,   *)
(* and the words of a timing were read at one moment or not at all.        *)
(***************************************************************************)
EXTENDS RegisterDump, DumpFile, LiveDecode, SequenceTheorems, FiniteSetTheorems, TLAPS

\* A register belongs to a run when it lies a number of strides after its
\* start, the number being less than the count.
LEMMA MemberOf ==
    ASSUME NEW s \in Nat, NEW n \in Nat, NEW a
    PROVE  a \in Members(s, n) <=>
               \E k \in Nat : k < n /\ a = s + 4 * k
  BY DEF Members, Stride

\* Making a run longer by one adds the register one stride after its last.
LEMMA MembersGrow ==
    ASSUME NEW s \in Nat, NEW n \in Nat
    PROVE  Members(s, n + 1) = Members(s, n) \cup {s + 4 * n}
<1>1. ASSUME NEW a \in Members(s, n + 1)
      PROVE  a \in Members(s, n) \cup {s + 4 * n}
  <2>1. PICK k \in Nat : k < n + 1 /\ a = s + 4 * k
    <3>1. n + 1 \in Nat
      OBVIOUS
    <3> QED
      BY <1>1, <3>1, MemberOf
  <2>2. CASE k < n
    BY <2>1, <2>2, MemberOf
  <2>3. CASE k = n
    BY <2>1, <2>3
  <2> QED
    BY <2>1, <2>2, <2>3
<1>2. Members(s, n) \subseteq Members(s, n + 1)
  <2>1. ASSUME NEW a \in Members(s, n)
        PROVE  a \in Members(s, n + 1)
    <3>1. PICK k \in Nat : k < n /\ a = s + 4 * k
      BY <2>1, MemberOf
    <3>2. k < n + 1 /\ n + 1 \in Nat
      BY <3>1
    <3> QED
      BY <3>1, <3>2, MemberOf
  <2> QED
    BY <2>1
<1>3. s + 4 * n \in Members(s, n + 1)
  <2>1. n + 1 \in Nat /\ n < n + 1 /\ n \in Nat
    OBVIOUS
  <2> QED
    BY <2>1, MemberOf
<1> QED
  BY <1>1, <1>2, <1>3

\* A run of one register.
LEMMA MembersOne ==
    ASSUME NEW s \in Nat
    PROVE  Members(s, 1) = {s}
<1>1. Members(s, 0) = {}
  BY DEF Members
<1> QED
  BY <1>1, MembersGrow
----------------------------------------------------------------------------

\* A run appended to the others adds its registers to theirs.
LEMMA CoveredGrows ==
    ASSUME runs \in Seq(Nat \X (Nat \ {0})), NEW s \in Nat, NEW n \in Nat \ {0},
           runs' = Append(runs, <<s, n>>)
    PROVE  /\ Len(runs') = Len(runs) + 1
           /\ Covered' = Covered \cup Members(s, n)
           /\ \A i \in 1 .. Len(runs) : runs'[i] = runs[i]
           /\ runs'[Len(runs) + 1] = <<s, n>>
           /\ runs' \in Seq(Nat \X (Nat \ {0}))
<1>1. <<s, n>> \in Nat \X (Nat \ {0})
  OBVIOUS
<1>2. /\ Len(runs') = Len(runs) + 1
      /\ \A i \in 1 .. Len(runs) : runs'[i] = runs[i]
      /\ runs'[Len(runs) + 1] = <<s, n>>
      /\ runs' \in Seq(Nat \X (Nat \ {0}))
  BY <1>1, AppendProperties
<1>3. Covered' \subseteq Covered \cup Members(s, n)
  <2>1. ASSUME NEW i \in 1 .. Len(runs) + 1
        PROVE  Members(runs'[i][1], runs'[i][2]) \subseteq Covered \cup Members(s, n)
    <3>1. CASE i = Len(runs) + 1
      BY <1>2, <3>1
    <3>2. CASE i \in 1 .. Len(runs)
      BY <1>2, <3>2 DEF Covered, CoveredBy
    <3> QED
      BY <3>1, <3>2
  <2> QED
    BY <1>2, <2>1 DEF Covered, CoveredBy
<1>4. Covered \cup Members(s, n) \subseteq Covered'
  <2>1. Members(s, n) \subseteq Covered'
    BY <1>2 DEF Covered, CoveredBy
  <2>2. ASSUME NEW i \in 1 .. Len(runs)
        PROVE  Members(runs[i][1], runs[i][2]) \subseteq Covered'
    BY <1>2 DEF Covered, CoveredBy
  <2> QED
    BY <2>1, <2>2 DEF Covered, CoveredBy
<1> QED
  BY <1>2, <1>3, <1>4

\* The first steps of every dump.
LEMMA InitKeeps == Init => DumpInv
<1> SUFFICES ASSUME Init PROVE DumpInv
  OBVIOUS
<1>1. Len(runs) = 0 /\ DOMAIN runs = {} /\ DOMAIN out = {}
  BY DEF Init
<1>2. Covered = {} /\ CoveredBy(next - 1) = {}
  BY <1>1 DEF Init, Covered, CoveredBy
<1>3. TypeOK
  BY <1>1 DEF Init, TypeOK
<1> QED
  BY <1>1, <1>2, <1>3
  DEF Init, DumpInv, NothingLost, RunsApart, AtPrev, Stages, OutOfRuns, AllRead,
      Current, InProgress

\* What the three ways of taking an address have in common.
LEMMA TakeKeeps == DumpInv /\ Take => DumpInv'
<1> SUFFICES ASSUME DumpInv, Take PROVE DumpInv'
  OBVIOUS
<1>1. PICK a \in it : /\ Least(a)
                      /\ Begin(a) \/ Extend(a) \/ Break(a)
                      /\ prev' = a
                      /\ it' = it \ {a}
  BY DEF Take
<1>2. /\ TypeOK /\ NothingLost /\ RunsApart /\ AtPrev /\ Stages /\ OutOfRuns /\ AllRead
      /\ phase = "group" /\ UNCHANGED <<addrs, phase, next, out>>
  BY DEF DumpInv, Take
<1>3. /\ a \in Nat /\ a \in addrs /\ it \subseteq Nat
      /\ \A b \in it' : a < b
      /\ start \in Nat /\ count \in Nat /\ prev \in Nat
      /\ runs \in Seq(Nat \X (Nat \ {0})) /\ Len(runs) \in Nat
      /\ it' \in SUBSET addrs' /\ addrs' \in SUBSET Space /\ prev' \in Nat
  BY <1>1, <1>2, SpaceAssumption, LenProperties DEF TypeOK, Least
<1>4. next = 1 /\ out = <<>> /\ next' = 1 /\ out' = <<>> /\ DOMAIN out' = {}
  BY <1>2 DEF Stages
<1>5. count' \in Nat \ {0} /\ start' \in Nat /\ start' <= a
      /\ a = start' + 4 * (count' - 1)
  <2>1. CASE Begin(a) \/ Break(a)
    BY <1>3, <2>1 DEF Begin, Break
  <2>2. CASE Extend(a)
    BY <1>2, <1>3, <2>2 DEF Extend, AtPrev, InProgress, Stride
  <2> QED
    BY <1>1, <2>1, <2>2
<1>6. InProgress' /\ Current' = Members(start', count')
  BY <1>2, <1>5 DEF InProgress, Current
<1>7. /\ runs' \in Seq(Nat \X (Nat \ {0}))
      /\ Len(runs') \in Nat
      /\ addrs = it' \cup Members(start', count') \cup Covered'
  <2>1. CASE Begin(a)
    <3>1. Members(start', count') = {a} /\ Current = {} /\ Covered' = Covered
      BY <1>3, <2>1, MembersOne DEF Begin, Current, InProgress, Covered, CoveredBy
    <3> QED
      BY <1>1, <1>2, <1>3, <2>1, <3>1 DEF NothingLost, Begin
  <2>2. CASE Extend(a)
    <3>1. a = start + 4 * count
      BY <1>2, <1>3, <2>2 DEF Extend, AtPrev, InProgress, Stride
    <3>2. start' = start /\ count' = count + 1 /\ count > 0 /\ runs' = runs
      BY <2>2 DEF Extend
    <3>3. Members(start, count + 1) = Members(start, count) \cup {a}
      BY <1>3, <3>1, MembersGrow
    <3>4. Current = Members(start, count)
      BY <1>2, <3>2 DEF Current, InProgress
    <3>5. Covered' = Covered
      BY <3>2 DEF Covered, CoveredBy
    <3> QED
      BY <1>1, <1>2, <1>3, <3>2, <3>3, <3>4, <3>5 DEF NothingLost
  <2>3. CASE Break(a)
    <3>1. count \in Nat \ {0} /\ runs' = Append(runs, <<start, count>>)
      BY <1>3, <2>3 DEF Break
    <3>2. /\ Covered' = Covered \cup Members(start, count)
          /\ runs' \in Seq(Nat \X (Nat \ {0})) /\ Len(runs') = Len(runs) + 1
      BY <1>3, <3>1, CoveredGrows
    <3>3. Members(start', count') = {a} /\ Current = Members(start, count)
      BY <1>2, <1>3, <2>3, MembersOne DEF Break, Current, InProgress
    <3> QED
      BY <1>1, <1>2, <1>3, <3>2, <3>3 DEF NothingLost
  <2> QED
    BY <1>1, <2>1, <2>2, <2>3
<1>8. \A i \in 1 .. Len(runs') : LastOf(i)' < start'
         /\ (i = Len(runs') => start' # LastOf(i)' + 4)
  <2>1. CASE Begin(a)
    <3>1. Len(runs') = 0
      BY <1>2, <2>1 DEF Begin, Stages
    <3> QED
      BY <3>1
  <2>2. CASE Extend(a)
    BY <1>2, <1>3, <2>2 DEF Extend, AtPrev, InProgress, LastOf, Stride
  <2>3. CASE Break(a)
    <3>1. /\ Len(runs') = Len(runs) + 1
          /\ \A i \in 1 .. Len(runs) : runs'[i] = runs[i]
          /\ runs'[Len(runs) + 1] = <<start, count>>
      BY <1>3, <2>3, CoveredGrows DEF Break
    <3>2. prev = start + 4 * (count - 1) /\ prev < a /\ a # prev + 4 /\ start' = a
      BY <1>2, <1>3, <2>3 DEF Break, AtPrev, InProgress, Stride
    <3>3. ASSUME NEW i \in 1 .. Len(runs)
          PROVE  LastOf(i)' < start' /\ i # Len(runs')
      <4>1. LastOf(i)' = LastOf(i) /\ LastOf(i) < start
        BY <1>2, <1>3, <2>3, <3>1 DEF LastOf, AtPrev, InProgress, Break
      <4>2. runs[i][1] \in Nat /\ runs[i][2] \in Nat
        BY <1>3, ElementOfSeq
      <4>3. LastOf(i) \in Int
        BY <4>2 DEF LastOf, Stride
      <4>4. start <= prev /\ count \in Nat \ {0}
        BY <1>3, <2>3, <3>2 DEF Break
      <4> QED
        BY <1>3, <3>1, <3>2, <4>1, <4>3, <4>4
    <3>4. ASSUME NEW i \in 1 .. Len(runs'), i = Len(runs) + 1
          PROVE  LastOf(i)' = prev
      BY <3>1, <3>2, <3>4 DEF LastOf, Stride
    <3>5. prev < start' /\ start' # prev + 4
      BY <3>2
    <3>6. ASSUME NEW i \in 1 .. Len(runs')
          PROVE  i \in 1 .. Len(runs) \/ i = Len(runs) + 1
      <4>1. Len(runs') = Len(runs) + 1 /\ Len(runs) \in Nat
        BY <1>3, <3>1
      <4> QED
        BY <4>1
    <3>7. ASSUME NEW i \in 1 .. Len(runs')
          PROVE  LastOf(i)' < start' /\ (i = Len(runs') => start' # LastOf(i)' + 4)
      BY <3>3, <3>4, <3>5, <3>6
    <3> QED
      BY <3>7
  <2> QED
    BY <1>1, <2>1, <2>2, <2>3
<1>9. RunsApart'
  <2>1. CASE Begin(a) \/ Extend(a)
    BY <1>2, <2>1 DEF Begin, Extend, RunsApart, LastOf
  <2>2. CASE Break(a)
    <3>1. /\ Len(runs') = Len(runs) + 1
          /\ \A i \in 1 .. Len(runs) : runs'[i] = runs[i]
          /\ runs'[Len(runs) + 1] = <<start, count>>
      BY <1>3, <2>2, CoveredGrows DEF Break
    <3>2. ASSUME NEW i \in 1 .. Len(runs')
          PROVE  i \in 1 .. Len(runs) \/ i = Len(runs) + 1
      <4>1. Len(runs') = Len(runs) + 1 /\ Len(runs) \in Nat
        BY <1>3, <3>1
      <4> QED
        BY <4>1
    <3>3. \A i \in 1 .. Len(runs) : LastOf(i)' = LastOf(i)
      BY <3>1 DEF LastOf
    <3>4. ASSUME NEW i \in 1 .. Len(runs'), NEW j \in 1 .. Len(runs'), i < j
          PROVE  /\ LastOf(i)' < runs'[j][1]
                 /\ j = i + 1 => runs'[j][1] # LastOf(i)' + Stride
      <4>1. i \in 1 .. Len(runs)
        BY <1>3, <3>1, <3>4
      <4>2. CASE j \in 1 .. Len(runs)
        <5>1. DOMAIN runs = 1 .. Len(runs)
          BY <1>3, LenProperties
        <5>2. /\ LastOf(i) < runs[j][1]
              /\ j = i + 1 => runs[j][1] # LastOf(i) + Stride
          BY <1>2, <3>4, <4>1, <4>2, <5>1 DEF RunsApart
        <5> QED
          BY <3>1, <3>3, <4>1, <4>2, <5>2
      <4>3. CASE j = Len(runs) + 1
        <5>1. runs'[j][1] = start
          BY <3>1, <4>3
        <5>2. InProgress
          BY <1>2, <1>3, <2>2 DEF Break, InProgress
        <5>3. LastOf(i) < start /\ (i = Len(runs) => start # LastOf(i) + Stride)
          BY <1>2, <1>3, <4>1, <5>2 DEF AtPrev
        <5> QED
          BY <1>3, <3>3, <4>1, <4>3, <5>1, <5>3
      <4> QED
        BY <3>2, <4>2, <4>3
    <3> QED
      BY <1>7, <3>4 DEF RunsApart
  <2> QED
    BY <1>1, <2>1, <2>2
<1>10. TypeOK'
  <2>1. next' \in 1 .. Len(runs') + 1
    BY <1>4, <1>7
  <2> QED
    BY <1>2, <1>3, <1>4, <1>5, <1>7, <2>1 DEF TypeOK
<1>11. NothingLost'
  BY <1>2, <1>6, <1>7 DEF NothingLost
<1>12. AtPrev'
  <2>1. prev' = start' + Stride * (count' - 1)
    BY <1>1, <1>5 DEF Stride
  <2>2. \A b \in it' : prev' < b
    BY <1>1, <1>3
  <2>3. DOMAIN runs' = 1 .. Len(runs')
    BY <1>7, LenProperties
  <2>4. \A i \in DOMAIN runs' : /\ LastOf(i)' < start'
                                /\ i = Len(runs') => start' # LastOf(i)' + Stride
    BY <1>8, <2>3 DEF Stride
  <2> QED
    BY <2>1, <2>2, <2>4 DEF AtPrev
<1>13. Stages'
  BY <1>2, <1>4, <1>5 DEF Stages
<1>14. OutOfRuns' /\ AllRead'
  <2>1. CoveredBy(next - 1)' = {}
    BY <1>4 DEF CoveredBy
  <2> QED
    BY <1>2, <1>4, <2>1 DEF OutOfRuns, AllRead
<1> QED
  BY <1>9, <1>10, <1>11, <1>12, <1>13, <1>14 DEF DumpInv

\* The run in the making becomes the last of the runs.
LEMMA FinishKeeps == DumpInv /\ Finish => DumpInv'
<1> SUFFICES ASSUME DumpInv, Finish PROVE DumpInv'
  OBVIOUS
<1>1. /\ TypeOK /\ NothingLost /\ RunsApart /\ AtPrev /\ Stages /\ OutOfRuns
      /\ phase = "group" /\ it = {} /\ phase' = "read"
      /\ UNCHANGED <<addrs, it, start, prev, count, next, out>>
  BY DEF DumpInv, Finish
<1>2. /\ start \in Nat /\ count \in Nat
      /\ runs \in Seq(Nat \X (Nat \ {0})) /\ Len(runs) \in Nat
      /\ DOMAIN runs = 1 .. Len(runs)
  BY <1>1, LenProperties DEF TypeOK
<1>3. next = 1 /\ out = <<>> /\ DOMAIN out = {}
  BY <1>1 DEF Stages
<1>4. Current' = {} /\ ~InProgress'
  BY <1>1 DEF Current, InProgress
<1>5. CASE count > 0
  <2>1. runs' = Append(runs, <<start, count>>) /\ count \in Nat \ {0} /\ InProgress
    BY <1>1, <1>2, <1>5 DEF Finish, InProgress
  <2>2. /\ Len(runs') = Len(runs) + 1
        /\ Covered' = Covered \cup Members(start, count)
        /\ \A i \in 1 .. Len(runs) : runs'[i] = runs[i]
        /\ runs'[Len(runs) + 1] = <<start, count>>
        /\ runs' \in Seq(Nat \X (Nat \ {0}))
    BY <1>2, <2>1, CoveredGrows
  <2>3. Current = Members(start, count)
    BY <2>1 DEF Current
  <2>4. \A i \in 1 .. Len(runs) : LastOf(i)' = LastOf(i)
    BY <2>2 DEF LastOf
  <2>5. ASSUME NEW i \in 1 .. Len(runs'), NEW j \in 1 .. Len(runs'), i < j
        PROVE  /\ LastOf(i)' < runs'[j][1]
               /\ j = i + 1 => runs'[j][1] # LastOf(i)' + Stride
    <3>1. Len(runs') = Len(runs) + 1 /\ Len(runs) \in Nat
      BY <1>2, <2>2
    <3>2. i \in 1 .. Len(runs) /\ (j \in 1 .. Len(runs) \/ j = Len(runs) + 1)
      BY <2>5, <3>1
    <3>3. CASE j \in 1 .. Len(runs)
      <4>1. /\ LastOf(i) < runs[j][1]
            /\ j = i + 1 => runs[j][1] # LastOf(i) + Stride
        BY <1>1, <1>2, <2>5, <3>2, <3>3 DEF RunsApart
      <4> QED
        BY <2>2, <2>4, <3>2, <3>3, <4>1
    <3>4. CASE j = Len(runs) + 1
      <4>1. LastOf(i) < start /\ (i = Len(runs) => start # LastOf(i) + Stride)
        BY <1>1, <1>2, <2>1, <3>2 DEF AtPrev
      <4>2. runs'[j][1] = start
        BY <2>2, <3>4
      <4>3. j = i + 1 => i = Len(runs)
        BY <3>1, <3>2, <3>4
      <4> QED
        BY <2>4, <3>2, <4>1, <4>2, <4>3
    <3> QED
      BY <3>2, <3>3, <3>4
  <2>6. RunsApart'
    <3>1. DOMAIN runs' = 1 .. Len(runs')
      BY <2>2, LenProperties
    <3> QED
      BY <2>5, <3>1 DEF RunsApart
  <2>7. NothingLost'
    BY <1>1, <1>4, <2>2, <2>3 DEF NothingLost
  <2>8. TypeOK'
    <3>1. next' \in 1 .. Len(runs') + 1
      BY <1>1, <1>2, <1>3, <2>2
    <3> QED
      BY <1>1, <2>2, <3>1 DEF TypeOK
  <2> QED
    BY <1>1, <1>3, <1>4, <2>6, <2>7, <2>8
    DEF DumpInv, AtPrev, Stages, OutOfRuns, AllRead, CoveredBy
<1>6. CASE ~(count > 0)
  <2>1. UNCHANGED runs
    BY <1>1, <1>6 DEF Finish
  <2>2. RunsApart'
    BY <1>1, <2>1 DEF RunsApart, LastOf
  <2>3. Covered' = Covered /\ Current = {}
    BY <1>1, <1>6, <2>1 DEF Covered, CoveredBy, Current, InProgress
  <2>4. NothingLost'
    BY <1>1, <1>4, <2>3 DEF NothingLost
  <2>5. TypeOK'
    BY <1>1, <2>1 DEF TypeOK
  <2> QED
    BY <1>1, <1>3, <1>4, <2>1, <2>2, <2>4, <2>5
    DEF DumpInv, AtPrev, Stages, OutOfRuns, AllRead, CoveredBy
<1> QED
  BY <1>5, <1>6

\* Nothing but the registers changes once the runs are made.
LEMMA RunsStay ==
    ASSUME UNCHANGED grouping, phase # "group", phase' # "group"
    PROVE  /\ NothingLost => NothingLost'
           /\ RunsApart => RunsApart'
           /\ AtPrev'
<1>1. ~InProgress /\ ~InProgress' /\ Current = {} /\ Current' = {}
  BY DEF InProgress, Current
<1>2. Covered' = Covered
  BY DEF grouping, Covered, CoveredBy
<1> QED
  BY <1>1, <1>2 DEF grouping, NothingLost, RunsApart, LastOf, AtPrev

\* A register of a run is cut from the place where it lies.
LEMMA CutRight ==
    ASSUME NEW s \in Nat, NEW n \in Nat, NEW a \in Members(s, n)
    PROVE  Unpack(Raw(s, n), a - s) = Word(a)
<1>1. PICK k \in Nat : k < n /\ a = s + 4 * k
  BY MemberOf
<1>2. a - s = 4 * k /\ a \in Nat
  BY <1>1
<1>3. ASSUME NEW m \in 0 .. 3
      PROVE  Raw(s, n)[(a - s) + m] = a + m
  <2>1. (a - s) + m \in 0 .. Stride * n - 1
    BY <1>1, <1>2 DEF Stride
  <2>2. s + ((a - s) + m) = a + m
    BY <1>2
  <2> QED
    BY <2>1, <2>2 DEF Raw
<1> QED
  BY <1>3 DEF Unpack, Word

\* A run adds its registers, each with its own bytes.
LEMMA ReadKeeps == DumpInv /\ ReadRun => DumpInv'
<1> SUFFICES ASSUME DumpInv, ReadRun PROVE DumpInv'
  OBVIOUS
<1> DEFINE s == runs[next][1]
           n == runs[next][2]
<1>1. /\ TypeOK /\ NothingLost /\ RunsApart /\ Stages /\ OutOfRuns /\ AllRead
      /\ phase = "read" /\ next <= Len(runs) /\ next' = next + 1
      /\ UNCHANGED <<grouping, phase>>
      /\ out' = [a \in DOMAIN out \cup Members(s, n) |->
                     IF a \in Members(s, n) THEN Unpack(Raw(s, n), a - s) ELSE out[a]]
  BY DEF DumpInv, ReadRun
<1>2. /\ UNCHANGED <<addrs, it, start, prev, count, runs>>
      /\ runs \in Seq(Nat \X (Nat \ {0})) /\ Len(runs) \in Nat
      /\ next \in 1 .. Len(runs)
  BY <1>1, LenProperties DEF grouping, TypeOK
<1>3. s \in Nat /\ n \in Nat
  <2>1. runs[next] \in Nat \X (Nat \ {0})
    BY <1>2, ElementOfSeq
  <2> QED
    BY <2>1
<1> HIDE DEF s, n
<1>4. NothingLost' /\ RunsApart' /\ AtPrev'
  BY <1>1, RunsStay
<1>5. DOMAIN out' = DOMAIN out \cup Members(s, n)
  BY <1>1
<1>6. CoveredBy(next - 1)' = CoveredBy(next - 1) \cup Members(s, n)
  <2>1. next' - 1 = next
    BY <1>1, <1>2
  <2>2. 1 .. next = (1 .. next - 1) \cup {next}
    BY <1>2
  <2>3. CoveredBy(next) = CoveredBy(next - 1) \cup Members(runs[next][1], runs[next][2])
    BY <2>2 DEF CoveredBy
  <2>4. CoveredBy(next - 1)' = CoveredBy(next)
    BY <1>2, <2>1 DEF CoveredBy
  <2> QED
    BY <2>3, <2>4 DEF s, n
<1>7. ASSUME NEW a \in DOMAIN out'
      PROVE  out'[a] = Word(a)
  <2>1. CASE a \in Members(s, n)
    BY <1>1, <1>3, <1>5, <2>1, CutRight
  <2>2. CASE a \notin Members(s, n)
    BY <1>1, <1>5, <2>2 DEF OutOfRuns
  <2> QED
    BY <2>1, <2>2
<1>8. OutOfRuns'
  BY <1>1, <1>5, <1>6, <1>7 DEF OutOfRuns
<1>9. TypeOK'
  <2>1. Members(s, n) \subseteq Covered
    BY <1>2 DEF Covered, CoveredBy, s, n
  <2>2. Covered \subseteq Space
    BY <1>1 DEF NothingLost, TypeOK
  <2>3. DOMAIN out' \subseteq Space
    BY <1>1, <1>5, <2>1, <2>2 DEF TypeOK
  <2>4. next' \in 1 .. Len(runs') + 1
    BY <1>1, <1>2
  <2> QED
    BY <1>1, <1>2, <2>3, <2>4 DEF TypeOK
<1>10. Stages' /\ AllRead'
  BY <1>1, <1>2 DEF Stages, AllRead
<1> QED
  BY <1>4, <1>8, <1>9, <1>10 DEF DumpInv

\* The steps that only end the loop.
LEMMA EndKeeps == DumpInv /\ (ReadFails \/ Return) => DumpInv'
<1> SUFFICES ASSUME DumpInv, ReadFails \/ Return PROVE DumpInv'
  OBVIOUS
<1>1. /\ TypeOK /\ NothingLost /\ RunsApart /\ Stages /\ OutOfRuns
      /\ phase = "read" /\ phase' \in {"raised", "done"}
      /\ phase' = "done" => next > Len(runs)
      /\ UNCHANGED <<grouping, next, out>>
  BY DEF DumpInv, ReadFails, Return
<1>2. UNCHANGED <<addrs, it, start, prev, count, runs>>
  BY <1>1 DEF grouping
<1>3. NothingLost' /\ RunsApart' /\ AtPrev'
  BY <1>1, RunsStay
<1>4. AllRead'
  <2>1. Len(runs) \in Nat /\ next \in 1 .. Len(runs) + 1
    BY <1>1, LenProperties DEF TypeOK
  <2> QED
    BY <1>1, <1>2, <2>1 DEF AllRead
<1>5. TypeOK' /\ Stages' /\ OutOfRuns'
  BY <1>1, <1>2 DEF TypeOK, Stages, OutOfRuns, CoveredBy
<1> QED
  BY <1>3, <1>4, <1>5 DEF DumpInv

\* DumpInv holds throughout every dump, whatever addresses are asked for.
THEOREM DumpInvariant == Spec => []DumpInv
<1>1. DumpInv /\ [Next]_vars => DumpInv'
  <2> SUFFICES ASSUME DumpInv, [Next]_vars PROVE DumpInv'
    OBVIOUS
  <2>1. CASE UNCHANGED vars
    <3>1. /\ TypeOK /\ NothingLost /\ RunsApart /\ AtPrev /\ Stages /\ OutOfRuns /\ AllRead
          /\ UNCHANGED <<addrs, it, phase, start, prev, count, runs, next, out>>
      BY <2>1 DEF vars, DumpInv
    <3>2. InProgress' = InProgress /\ Current' = Current /\ Covered' = Covered
      BY <3>1 DEF InProgress, Current, Covered, CoveredBy
    <3>3. TypeOK' /\ NothingLost' /\ Stages' /\ AllRead'
      BY <3>1, <3>2 DEF TypeOK, NothingLost, Stages, AllRead
    <3>4. RunsApart' /\ AtPrev'
      BY <3>1, <3>2 DEF RunsApart, AtPrev, LastOf
    <3>5. OutOfRuns'
      BY <3>1 DEF OutOfRuns, CoveredBy
    <3> QED
      BY <3>3, <3>4, <3>5 DEF DumpInv
  <2> QED
    BY <2>1, TakeKeeps, FinishKeeps, ReadKeeps, EndKeeps DEF Next
<1> QED
  BY <1>1, InitKeeps, PTL DEF Spec

\* A finished dump holds exactly the registers asked for, each with its own
\* four bytes: what dump_registers returns, for every list of addresses.
THEOREM DumpIsExact == Spec => []DumpExact
<1>1. DumpInv => DumpExact
  <2> SUFFICES ASSUME DumpInv, phase = "done" PROVE DumpExact
    BY DEF DumpExact
  <2>1. /\ TypeOK /\ NothingLost /\ Stages /\ OutOfRuns /\ AllRead
    BY DEF DumpInv
  <2>2. Current = {} /\ it = {}
    BY <2>1 DEF Current, InProgress, Stages
  <2>3. next - 1 = Len(runs)
    BY <2>1, LenProperties DEF TypeOK, AllRead
  <2> QED
    BY <2>1, <2>2, <2>3 DEF NothingLost, OutOfRuns, Covered, DumpExact
<1> QED
  BY <1>1, DumpInvariant, PTL

\* coalesce loses no address, invents none, and makes no two runs that overlap
\* or that could have been one.
THEOREM RunsAreRight == Spec => [](NothingLost /\ RunsApart)
<1>1. DumpInv => NothingLost /\ RunsApart
  BY DEF DumpInv
<1> QED
  BY <1>1, DumpInvariant, PTL
-----------------------------------------------------------------------------
(* The order of the registers in a file.                                   *)

\* The least member of a set of numbers.
LEMMA LeastOf ==
    ASSUME NEW S, S \subseteq Nat, S # {}
    PROVE  \E x \in S : \A y \in S : x <= y
<1>1. PICK x \in S : \A y \in S : ~(<<y, x>> \in OpToRel(<, Nat))
  BY WFMin, NatLessThanWellFounded
<1>2. ASSUME NEW y \in S PROVE x <= y
  <2>1. x \in Nat /\ y \in Nat
    OBVIOUS
  <2>2. ~(y < x)
    BY <1>1, <2>1 DEF OpToRel
  <2> QED
    BY <2>1, <2>2
<1> QED
  BY <1>2

\* An ascending enumeration of a set.
IsAscending(S, s) ==
    s \in [1 .. Cardinality(S) -> S] /\ \A x, y \in 1 .. Cardinality(S) : x < y => s[x] < s[y]

\* The least member goes in front of the others.
LEMMA InFront ==
    ASSUME NEW S, S \subseteq Nat, NEW n \in Nat, Cardinality(S) = n + 1,
           NEW m \in S, \A y \in S : m <= y,
           Cardinality(S \ {m}) = n, NEW s, IsAscending(S \ {m}, s)
    PROVE  \E t : IsAscending(S, t)
<1> DEFINE t == [x \in 1 .. n + 1 |-> IF x = 1 THEN m ELSE s[x - 1]]
<1>1. s \in [1 .. n -> S \ {m}] /\ \A x, y \in 1 .. n : x < y => s[x] < s[y]
  BY DEF IsAscending
<1>2. ASSUME NEW x \in 1 .. n + 1, x # 1 PROVE x - 1 \in 1 .. n /\ s[x - 1] \in S \ {m}
  <2>1. x - 1 \in 1 .. n
    BY <1>2
  <2> QED
    BY <1>1, <2>1
<1>3. t \in [1 .. n + 1 -> S]
  BY <1>2
<1>4. ASSUME NEW x \in 1 .. n + 1, NEW y \in 1 .. n + 1, x < y PROVE t[x] < t[y]
  <2>1. y # 1 /\ y - 1 \in 1 .. n /\ s[y - 1] \in S \ {m} /\ t[y] = s[y - 1]
    BY <1>2, <1>4
  <2>2. CASE x = 1
    <3>1. t[x] = m /\ m <= s[y - 1] /\ m # s[y - 1] /\ m \in Nat /\ s[y - 1] \in Nat
      BY <2>1, <2>2
    <3> QED
      BY <2>1, <3>1
  <2>3. CASE x # 1
    <3>1. x - 1 \in 1 .. n /\ x - 1 < y - 1 /\ t[x] = s[x - 1]
      BY <1>2, <1>4, <2>3
    <3> QED
      BY <1>1, <2>1, <3>1
  <2> QED
    BY <2>2, <2>3
<1> HIDE DEF t
<1>5. IsAscending(S, t)
  BY <1>3, <1>4 DEF IsAscending
<1> QED
  BY <1>5

\* Every finite set of numbers has an ascending enumeration: otherwise there were a
\* smallest one without, and its least member in front of the others gives one.
LEMMA AscendingExists ==
    ASSUME NEW S, S \subseteq Nat, IsFiniteSet(S)
    PROVE  \E s : IsAscending(S, s)
<1> DEFINE Without(T) == IsFiniteSet(T) /\ ~ \E s : IsAscending(T, s)
           Bad == {n \in Nat : \E T \in SUBSET Nat : Without(T) /\ Cardinality(T) = n}
<1> SUFFICES ASSUME ~ \E s : IsAscending(S, s) PROVE FALSE
  OBVIOUS
<1>1. Cardinality(S) \in Bad
  <2>1. Cardinality(S) \in Nat
    BY FS_CardinalityType
  <2> QED
    BY <2>1
<1>2. PICK n \in Bad : \A k \in Bad : n <= k
  <2>1. Bad \subseteq Nat /\ Bad # {}
    BY <1>1
  <2> HIDE DEF Bad
  <2> QED
    BY <2>1, LeastOf
<1>3. PICK T \in SUBSET Nat : Without(T) /\ Cardinality(T) = n
  BY <1>2
<1>4. CASE n = 0
  <2>1. T = {}
    BY <1>3, <1>4, FS_EmptySet
  <2>2. Cardinality(T) = 0
    BY <1>3, <1>4
  <2>3. <<>> \in [1 .. 0 -> T]
    OBVIOUS
  <2>4. IsAscending(T, <<>>)
    BY <2>2, <2>3 DEF IsAscending
  <2> QED
    BY <1>3, <2>4
<1>5. CASE n # 0
  <2>1. T # {} /\ T \subseteq Nat /\ n \in Nat
    BY <1>2, <1>3, <1>5, FS_EmptySet
  <2>2. PICK m \in T : \A y \in T : m <= y
    BY <2>1, LeastOf
  <2> DEFINE R == T \ {m}
  <2>3. IsFiniteSet(R) /\ Cardinality(R) = n - 1 /\ R \in SUBSET Nat
    BY <1>3, <2>1, <2>2, FS_RemoveElement
  <2>4. n - 1 \in Nat /\ n - 1 \notin Bad
    BY <1>2, <1>5, <2>1
  <2> HIDE DEF R
  <2>5. PICK s : IsAscending(R, s)
    BY <2>3, <2>4
  <2>6. \E t : IsAscending(T, t)
    <3>1. Cardinality(T) = (n - 1) + 1
      BY <1>3, <2>1
    <3> QED
      BY <2>1, <2>2, <2>3, <2>4, <2>5, <3>1, InFront DEF R
  <2> QED
    BY <1>3, <2>6
<1> QED
  BY <1>4, <1>5

\* What sorted() returns is ascending and holds every member.
LEMMA AscendingIs ==
    ASSUME NEW S, S \subseteq Nat, IsFiniteSet(S)
    PROVE  /\ IsAscending(S, Ascending(S)) /\ Cardinality(S) \in Nat
           /\ \A x \in S : \E k \in 1 .. Cardinality(S) : Ascending(S)[k] = x
<1> DEFINE n == Cardinality(S)
           t == Ascending(S)
<1>1. n \in Nat
  BY FS_CardinalityType
<1>2. IsAscending(S, t)
  <2>1. PICK s : IsAscending(S, s)
    BY AscendingExists
  <2>2. \E f \in [1 .. n -> S] : \A i, j \in DOMAIN f : i < j => f[i] < f[j]
    <3>1. s \in [1 .. n -> S] /\ DOMAIN s = 1 .. n
      BY <2>1 DEF IsAscending
    <3> QED
      BY <2>1, <3>1 DEF IsAscending
  <2>3. t \in [1 .. n -> S] /\ \A i, j \in DOMAIN t : i < j => t[i] < t[j]
    BY <2>2 DEF Ascending
  <2> QED
    BY <2>3 DEF IsAscending
<1>3. t \in Injection(1 .. n, S)
  <2>1. ASSUME NEW x \in 1 .. n, NEW y \in 1 .. n, t[x] = t[y] PROVE x = y
    <3>1. t[x] \in Nat /\ t[y] \in Nat
      BY <1>2 DEF IsAscending
    <3>2. ~(x < y) /\ ~(y < x)
      BY <1>2, <2>1, <3>1 DEF IsAscending
    <3> QED
      BY <3>2
  <2>2. t \in [1 .. n -> S]
    BY <1>2 DEF IsAscending
  <2> HIDE DEF t
  <2> QED
    BY <2>1, <2>2 DEF Injection, IsInjective
<1>4. t \in Surjection(1 .. n, S)
  <2>1. IsFiniteSet(1 .. n) /\ Cardinality(1 .. n) = n
    BY <1>1, FS_Interval
  <2> HIDE DEF t
  <2> QED
    BY <1>3, <2>1, FS_Injection DEF n
<1>5. \A x \in S : \E k \in 1 .. n : t[k] = x
  BY <1>4 DEF Surjection
<1> QED
  BY <1>1, <1>2, <1>5
-----------------------------------------------------------------------------
(* What is in a file.                                                      *)

\* The lines of a file, whoever made it.
LineSet ==
    Lines \cup {Text, Opens("reg"), Closes("reg")} \cup {Single(x, v) : x \in Addr, v \in Nat}

Count(r) == Cardinality(DOMAIN r)
Order(r) == Ascending(DOMAIN r)

\* The lines of a dump vmmdump wrote.
IsWritten(r, w) ==
    /\ w \in Seq(LineSet) /\ Len(w) = Count(r) + 4 /\ Count(r) \in Nat
    /\ w[1] = Text /\ w[2] = Opens("reg")
    /\ \A x \in 1 .. Count(r) : w[x + 2] = Single(Order(r)[x], r[Order(r)[x]])
    /\ w[Count(r) + 3] = Closes("reg") /\ w[Count(r) + 4] = Text

\* The registers of a dump in their order.
LEMMA OrderIs ==
    ASSUME NEW r \in Dumps
    PROVE  /\ DOMAIN r \subseteq Addr /\ DOMAIN r \subseteq Nat /\ IsFiniteSet(DOMAIN r)
           /\ \A x \in DOMAIN r : r[x] \in Value /\ r[x] \in Nat
           /\ Count(r) \in Nat /\ Order(r) \in [1 .. Count(r) -> DOMAIN r]
           /\ \A x, y \in 1 .. Count(r) : x < y => Order(r)[x] < Order(r)[y]
           /\ \A x \in DOMAIN r : \E k \in 1 .. Count(r) : Order(r)[k] = x
<1>1. PICK A \in SUBSET Addr : IsFiniteSet(A) /\ r \in [A -> Value]
  BY DEF Dumps
<1>2. DOMAIN r = A /\ A \subseteq Nat /\ \A x \in A : r[x] \in Value /\ r[x] \in Nat
  BY <1>1, DumpFileAssumption
<1>3. /\ IsAscending(DOMAIN r, Order(r)) /\ Count(r) \in Nat
      /\ \A x \in DOMAIN r : \E k \in 1 .. Count(r) : Order(r)[k] = x
  BY <1>1, <1>2, AscendingIs DEF Order, Count
<1> QED
  BY <1>1, <1>2, <1>3 DEF IsAscending, Count

\* Two sequences behind one another.
LEMMA Joined ==
    ASSUME NEW X, NEW s, NEW t, NEW g, s \in Seq(X), t \in Seq(X), g = s \o t
    PROVE  /\ g \in Seq(X) /\ Len(g) = Len(s) + Len(t)
           /\ \A x \in 1 .. Len(s) : g[x] = s[x]
           /\ \A x \in 1 .. Len(t) : g[Len(s) + x] = t[x]
<1>1. g \in Seq(X) /\ Len(g) = Len(s) + Len(t)
  OBVIOUS
<1>2. \A x \in 1 .. Len(s) : g[x] = s[x]
  OBVIOUS
<1>3. \A x \in 1 .. Len(t) : g[Len(s) + x] = t[x]
  OBVIOUS
<1> QED
  BY <1>1, <1>2, <1>3

\* A dump written has these lines.
LEMMA WrittenIs ==
    ASSUME NEW r \in Dumps
    PROVE  IsWritten(r, WriteRaw(r))
<1> DEFINE n == Count(r)
           o == Order(r)
           m == [i \in DOMAIN o |-> Single(o[i], r[o[i]])]
           w == WriteRaw(r)
<1>1. /\ n \in Nat /\ DOMAIN o = 1 .. n
      /\ \A x \in 1 .. n : o[x] \in Addr /\ r[o[x]] \in Nat
  BY OrderIs
<1>2. w = <<Text, Opens("reg")>> \o m \o <<Closes("reg"), Text>>
  BY DEF WriteRaw, Order
<1> HIDE DEF n, o, w
<1>3. /\ m \in Seq(LineSet) /\ Len(m) = n
      /\ \A x \in 1 .. n : m[x] = Single(o[x], r[o[x]])
  <2>1. \A x \in 1 .. n : Single(o[x], r[o[x]]) \in LineSet
    BY <1>1 DEF LineSet
  <2> QED
    BY <1>1, <2>1
<1> HIDE DEF m
<1> DEFINE h == <<Text, Opens("reg")>>
           f == <<Closes("reg"), Text>>
<1>4. h \in Seq(LineSet) /\ f \in Seq(LineSet) /\ Len(h) = 2 /\ Len(f) = 2
      /\ h[1] = Text /\ h[2] = Opens("reg") /\ f[1] = Closes("reg") /\ f[2] = Text
  BY DEF LineSet
<1> HIDE DEF h, f
<1> DEFINE g == h \o m
           e == g \o f
<1>5. w = e
  BY <1>2 DEF h, f
<1>6. h \in Seq(LineSet) /\ m \in Seq(LineSet) /\ g = h \o m /\ e = g \o f
  BY <1>3, <1>4
<1> HIDE DEF e, g
<1>7. /\ g \in Seq(LineSet) /\ Len(g) = Len(h) + Len(m)
      /\ \A x \in 1 .. Len(h) : g[x] = h[x]
      /\ \A x \in 1 .. Len(m) : g[Len(h) + x] = m[x]
  BY <1>6, Joined
<1>8. /\ e \in Seq(LineSet) /\ Len(e) = Len(g) + Len(f)
      /\ \A x \in 1 .. Len(g) : e[x] = g[x]
      /\ \A x \in 1 .. Len(f) : e[Len(g) + x] = f[x]
  BY <1>4, <1>6, <1>7, Joined
<1>9. /\ Len(h) = 2 /\ Len(f) = 2 /\ Len(g) = n + 2 /\ Len(e) = n + 4
      /\ 1 \in 1 .. Len(h) /\ 2 \in 1 .. Len(h) /\ 1 \in 1 .. Len(g) /\ 2 \in 1 .. Len(g)
      /\ 1 \in 1 .. Len(f) /\ 2 \in 1 .. Len(f) /\ Len(g) + 1 = n + 3 /\ Len(g) + 2 = n + 4
  BY <1>1, <1>3, <1>4, <1>7, <1>8
<1>10. e[1] = Text /\ e[2] = Opens("reg") /\ e[n + 3] = Closes("reg") /\ e[n + 4] = Text
  BY <1>4, <1>7, <1>8, <1>9
<1>11. ASSUME NEW x \in 1 .. n PROVE e[x + 2] = Single(o[x], r[o[x]])
  <2>1. x + 2 = Len(h) + x /\ x + 2 \in 1 .. Len(g) /\ x \in 1 .. Len(m)
    BY <1>1, <1>3, <1>9
  <2> QED
    BY <1>3, <1>7, <1>8, <2>1
<1> QED
  BY <1>1, <1>5, <1>8, <1>9, <1>10, <1>11 DEF IsWritten, n, o, w
-----------------------------------------------------------------------------
(* The invariant.                                                          *)

\* The lines of the section among the first n lines.
Opened(n) == \E o \in 1 .. n : file[o] = Opens(what)
Ended(n) == \E c \in 1 .. n : file[c] = Closes(what)
SectionTo(n) == {x \in 1 .. n : Opened(x - 1) /\ ~Ended(x)}

\* The file is one of those that can be read.
FileIs ==
    /\ what \in {"reg", "mem"} /\ file \in Seq(LineSet)
    /\ origin = "vmmdump" => regs \in Dumps /\ file = WriteRaw(regs)
    /\ origin = "cut" =>
          /\ regs \in Dumps
          /\ \E n \in DOMAIN WriteRaw(regs) : \E l \in BrokenOff(WriteRaw(regs)[n]) :
                file = Append(SubSeq(WriteRaw(regs), 1, n - 1), l)

\* What was parsed is what the last line read of the section says of each address.
Latest(n) ==
    /\ parsed = [b \in DOMAIN parsed |-> parsed[b]]
    /\ DOMAIN parsed = UNION {DOMAIN Entries(file[x]) : x \in SectionTo(n)}
    /\ \A x \in SectionTo(n) : \A b \in DOMAIN Entries(file[x]) :
          \/ parsed[b] = Entries(file[x])[b]
          \/ \E k \in SectionTo(n) : k > x /\ Speaks(k, b)

\* The parser stands behind line number at, and stops at the end marker or of the file,
\* if it does not raise before.
Reading ==
    /\ at \in 0 .. Len(file) /\ stage \in {"parse", "parsed", "joined", "raised"} /\ inSec \in BOOLEAN
    /\ inSec <=> Opened(at)
    /\ stage = "parse" => ~Ended(at)
    /\ stage \in {"parsed", "joined"} => at = Len(file) \/ Ended(at)
    /\ stage # "raised" => Latest(at)

\* It raises at the first line of the section that bytes() does not take.
Raising ==
    /\ stage = "raised" => at \in SectionTo(at) /\ Unreadable(file[at])
    /\ \A x \in SectionTo(at) : Unreadable(file[x]) => stage = "raised" /\ x = at

\* Rows lie at numbers and hold bytes.
RowsTyped ==
    what = "mem" => /\ DOMAIN parsed \subseteq Nat /\ IsFiniteSet(DOMAIN parsed)
                    /\ \A b \in DOMAIN parsed : parsed[b] \in Seq(0 .. 255)

\* The block is made of the rows.
BlobIs ==
    stage = "joined" =>
        /\ what = "mem"
        /\ blob = IF parsed = <<>> THEN <<>>
                  ELSE FlattenSeq([i \in 1 .. Rows |-> RowAt(Base + (i - 1) * RowLen)])

FileInv == FileIs /\ Reading /\ Raising /\ RowsTyped /\ BlobIs
-----------------------------------------------------------------------------
\* The markers add nothing.
LEMMA MarkersAreMute ==
    DOMAIN Entries(Opens(what)) = {} /\ Entries(Text) = <<>> /\ DOMAIN <<>> = {}
BY DEF Entries, Opens, Text

\* The section among the first n + 1 lines.
LEMMA SectionGrows ==
    ASSUME NEW n \in Nat, ~Ended(n)
    PROVE  SectionTo(n + 1) =
               IF Opened(n) /\ file[n + 1] # Closes(what) THEN SectionTo(n) \cup {n + 1} ELSE SectionTo(n)
<1>1. Ended(n + 1) <=> file[n + 1] = Closes(what)
  <2>1. 1 .. n + 1 = 1 .. n \cup {n + 1}
    OBVIOUS
  <2> QED
    BY <2>1 DEF Ended
<1>2. (n + 1) - 1 = n /\ n + 1 \notin 1 .. n /\ 1 .. n + 1 = 1 .. n \cup {n + 1}
  OBVIOUS
<1>3. \A x \in 1 .. n + 1 : x \in SectionTo(n + 1) <=> Opened(x - 1) /\ ~Ended(x)
  BY DEF SectionTo
<1>4. n + 1 \in SectionTo(n + 1) <=> Opened(n) /\ file[n + 1] # Closes(what)
  BY <1>1, <1>2, <1>3
<1>5. \A x \in 1 .. n : x \in SectionTo(n + 1) <=> x \in SectionTo(n)
  BY <1>2, <1>3 DEF SectionTo
<1>6. SectionTo(n) \subseteq 1 .. n /\ SectionTo(n + 1) \subseteq 1 .. n + 1
  BY DEF SectionTo
<1>7. \A x : x \in SectionTo(n + 1) <=> x \in SectionTo(n) \/ (x = n + 1 /\ n + 1 \in SectionTo(n + 1))
  BY <1>2, <1>5, <1>6
<1> HIDE DEF SectionTo
<1> QED
  BY <1>4, <1>7

\* Among the first n + 1 lines a section is opened.
LEMMA OpenedGrows ==
    ASSUME NEW n \in Nat
    PROVE  Opened(n + 1) <=> Opened(n) \/ file[n + 1] = Opens(what)
<1>1. 1 .. n + 1 = 1 .. n \cup {n + 1}
  OBVIOUS
<1> QED
  BY <1>1 DEF Opened

\* A line that the section does not hold, or that says nothing, changes nothing.
LEMMA LatestStays ==
    ASSUME NEW n \in Nat, ~Ended(n), Latest(n),
           Opened(n) /\ file[n + 1] # Closes(what) => DOMAIN Entries(file[n + 1]) = {}
    PROVE  Latest(n + 1)
<1>1. CASE ~(Opened(n) /\ file[n + 1] # Closes(what))
  <2>1. SectionTo(n + 1) = SectionTo(n)
    BY <1>1, SectionGrows
  <2> QED
    BY <2>1 DEF Latest
<1>2. CASE Opened(n) /\ file[n + 1] # Closes(what)
  <2>1. SectionTo(n + 1) = SectionTo(n) \cup {n + 1} /\ DOMAIN Entries(file[n + 1]) = {}
    BY <1>2, SectionGrows
  <2> QED
    BY <2>1 DEF Latest
<1> QED
  BY <1>1, <1>2

\* A line of the section overrides what the lines before it said.
LEMMA LatestGrows ==
    ASSUME NEW n \in Nat, ~Ended(n), Latest(n), Opened(n), file[n + 1] # Closes(what),
           NEW p, p = Override(parsed, Entries(file[n + 1]))
    PROVE  /\ p = [b \in DOMAIN p |-> p[b]]
           /\ DOMAIN p = UNION {DOMAIN Entries(file[x]) : x \in SectionTo(n + 1)}
           /\ \A x \in SectionTo(n + 1) : \A b \in DOMAIN Entries(file[x]) :
                 \/ p[b] = Entries(file[x])[b]
                 \/ \E k \in SectionTo(n + 1) : k > x /\ Speaks(k, b)
<1> DEFINE new == Entries(file[n + 1])
<1>1. SectionTo(n + 1) = SectionTo(n) \cup {n + 1} /\ SectionTo(n) \subseteq 1 .. n
  BY SectionGrows DEF SectionTo
<1>2. DOMAIN p = DOMAIN parsed \cup DOMAIN new
      /\ \A b \in DOMAIN p : p[b] = IF b \in DOMAIN new THEN new[b] ELSE parsed[b]
  BY DEF Override
<1>3. DOMAIN p = UNION {DOMAIN Entries(file[x]) : x \in SectionTo(n + 1)}
  BY <1>1, <1>2 DEF Latest
<1>4. ASSUME NEW x \in SectionTo(n + 1), NEW b \in DOMAIN Entries(file[x])
      PROVE  p[b] = Entries(file[x])[b] \/ \E k \in SectionTo(n + 1) : k > x /\ Speaks(k, b)
  <2>1. b \in DOMAIN p
    BY <1>3, <1>4
  <2>2. CASE x = n + 1
    BY <1>2, <2>1, <2>2
  <2>3. CASE x \in SectionTo(n) /\ b \in DOMAIN new
    <3>1. n + 1 > x /\ n + 1 \in SectionTo(n + 1) /\ Speaks(n + 1, b)
      BY <1>1, <2>3 DEF Speaks
    <3> QED
      BY <3>1
  <2>4. CASE x \in SectionTo(n) /\ b \notin DOMAIN new
    <3>1. p[b] = parsed[b]
      BY <1>2, <2>1, <2>4
    <3>2. parsed[b] = Entries(file[x])[b] \/ \E k \in SectionTo(n) : k > x /\ Speaks(k, b)
      BY <1>4, <2>4 DEF Latest
    <3> QED
      BY <1>1, <3>1, <3>2
  <2> QED
    BY <1>1, <2>2, <2>3, <2>4
<1>5. p = [b \in DOMAIN p |-> p[b]]
  BY DEF Override
<1> QED
  BY <1>3, <1>4, <1>5
-----------------------------------------------------------------------------
\* What is left of a line is no line of a dump, or the line of a register with another value.
LEMMA BrokenIs ==
    ASSUME NEW r \in Dumps, NEW n \in DOMAIN WriteRaw(r), NEW l \in BrokenOff(WriteRaw(r)[n])
    PROVE  \/ l = Text
           \/ \E x \in 1 .. Count(r) : n = x + 2 /\ \E v \in Nat : l = Single(Order(r)[x], v)
<1> DEFINE w == WriteRaw(r)
<1>1. IsWritten(r, w)
  BY WrittenIs
<1>2. n \in 1 .. Count(r) + 4 /\ Count(r) \in Nat
  BY <1>1 DEF IsWritten
<1> HIDE DEF w
<1>3. CASE \E x \in 1 .. Count(r) : n = x + 2
  <2>1. PICK x \in 1 .. Count(r) : n = x + 2
    BY <1>3
  <2>2. w[n] = Single(Order(r)[x], r[Order(r)[x]])
    BY <1>1, <2>1 DEF IsWritten
  <2>3. Order(r)[x] \in DOMAIN r /\ r[Order(r)[x]] \in Nat
    BY <2>1, OrderIs
  <2> DEFINE v == r[Order(r)[x]]
  <2>4. w[n].kind = "single" /\ w[n].at = Order(r)[x] /\ w[n].words[1] = v /\ v \in Nat
    BY <2>2, <2>3 DEF Single
  <2> HIDE DEF v
  <2>5. l = Text \/ \E d \in {1, 2, 4} : l = Single(Order(r)[x], v \div d)
    BY <2>4 DEF BrokenOff, w
  <2>6. \A d \in {1, 2, 4} : v \div d \in Nat
    BY <2>4
  <2> QED
    BY <2>1, <2>5, <2>6
<1>4. CASE ~ \E x \in 1 .. Count(r) : n = x + 2
  <2>1. n \in {1, 2, Count(r) + 3, Count(r) + 4}
    <3>1. n - 2 \notin 1 .. Count(r)
      BY <1>2, <1>4
    <3> QED
      BY <1>2, <3>1
  <2>2. w[n] \in {Text, Opens("reg"), Closes("reg")}
    BY <1>1, <2>1 DEF IsWritten
  <2>3. w[n].kind # "single"
    BY <2>2 DEF Text, Opens, Closes
  <2> QED
    BY <2>3 DEF BrokenOff, w
<1> QED
  BY <1>3, <1>4

\* A dump vmmdump wrote and one that was cut short are files.
LEMMA FilesAreLines == FileInit => FileIs
<1> SUFFICES ASSUME FileInit PROVE FileIs
  OBVIOUS
<1>1. CASE origin = "vmmtool" /\ file \in BoundedSeq(Lines, MaxLines)
  <2>1. PICK n \in 0 .. MaxLines : file \in [1 .. n -> Lines]
    BY <1>1 DEF BoundedSeq, SeqOf
  <2>2. file \in [1 .. n -> LineSet] /\ n \in Nat
    BY <2>1, DumpFileAssumption DEF LineSet
  <2>3. file \in Seq(LineSet)
    BY <2>2
  <2> QED
    BY <1>1, <2>3 DEF FileIs, FileInit
<1>2. CASE origin = "vmmdump" /\ regs \in Dumps /\ file = WriteRaw(regs)
  <2>1. file \in Seq(LineSet)
    BY <1>2, WrittenIs DEF IsWritten
  <2> QED
    BY <1>2, <2>1 DEF FileIs, FileInit
<1>3. CASE /\ origin = "cut" /\ regs \in Dumps
           /\ \E n \in DOMAIN WriteRaw(regs) : \E l \in BrokenOff(WriteRaw(regs)[n]) :
                 file = Append(SubSeq(WriteRaw(regs), 1, n - 1), l)
  <2>1. PICK n \in DOMAIN WriteRaw(regs) : \E l \in BrokenOff(WriteRaw(regs)[n]) :
           file = Append(SubSeq(WriteRaw(regs), 1, n - 1), l)
    BY <1>3
  <2>2. PICK l \in BrokenOff(WriteRaw(regs)[n]) : file = Append(SubSeq(WriteRaw(regs), 1, n - 1), l)
    BY <2>1
  <2>3. l \in LineSet
    <3>1. l = Text \/ \E x \in 1 .. Count(regs) : \E v \in Nat : l = Single(Order(regs)[x], v)
      BY <1>3, <2>2, BrokenIs
    <3>2. \A x \in 1 .. Count(regs) : Order(regs)[x] \in Addr
      BY <1>3, OrderIs
    <3> QED
      BY <3>1, <3>2 DEF LineSet
  <2>4. WriteRaw(regs) \in Seq(LineSet)
    BY <1>3, WrittenIs DEF IsWritten
  <2>5. SubSeq(WriteRaw(regs), 1, n - 1) \in Seq(LineSet)
    BY <2>1, <2>4
  <2>6. file \in Seq(LineSet)
    BY <2>2, <2>3, <2>5
  <2> QED
    BY <1>3, <2>6 DEF FileIs, FileInit
<1> QED
  BY <1>1, <1>2, <1>3 DEF FileInit

\* The first state.
LEMMA InitFile == FileInit => FileInv
<1> SUFFICES ASSUME FileInit PROVE FileInv
  OBVIOUS
<1>1. FileIs
  BY FilesAreLines
<1>2. at = 0 /\ inSec = FALSE /\ stage = "parse" /\ parsed = <<>> /\ blob = <<>>
  BY DEF FileInit
<1>3. 1 .. 0 = {} /\ Len(file) \in Nat
  BY <1>1 DEF FileIs
<1>4. ~Opened(0) /\ ~Ended(0) /\ SectionTo(0) = {}
  BY <1>3 DEF Opened, Ended, SectionTo
<1>5. Latest(0)
  <2>1. parsed = [b \in DOMAIN parsed |-> parsed[b]]
    BY <1>2
  <2> QED
    BY <1>2, <1>4, <2>1 DEF Latest
<1>6. Reading
  <2>1. at \in 0 .. Len(file)
    BY <1>2, <1>3
  <2>2. stage \in {"parse", "parsed", "joined", "raised"} /\ inSec \in BOOLEAN
    BY <1>2
  <2>3. (inSec <=> Opened(at)) /\ ~Ended(at) /\ Latest(at) /\ stage = "parse"
    BY <1>2, <1>4, <1>5
  <2> QED
    BY <2>1, <2>2, <2>3 DEF Reading
<1>7. RowsTyped
  BY <1>2, FS_EmptySet DEF RowsTyped
<1>8. Raising
  BY <1>2, <1>4 DEF Raising
<1> QED
  BY <1>1, <1>2, <1>6, <1>7, <1>8 DEF FileInv, BlobIs

\* The file and what is asked of it stay as they are.
LEMMA SameFile ==
    ASSUME what' = what, file' = file
    PROVE  /\ \A n : Opened(n)' = Opened(n) /\ Ended(n)' = Ended(n) /\ SectionTo(n)' = SectionTo(n)
           /\ \A l : Entries(l)' = Entries(l) /\ Unreadable(l)' = Unreadable(l)
           /\ \A k, b : Speaks(k, b)' = Speaks(k, b)
<1>1. \A n : Opened(n)' = Opened(n) /\ Ended(n)' = Ended(n)
  BY DEF Opened, Ended
<1>2. \A n : SectionTo(n)' = SectionTo(n)
  BY <1>1 DEF SectionTo
<1>3. \A l : Entries(l)' = Entries(l) /\ Unreadable(l)' = Unreadable(l)
  BY DEF Entries, Unreadable
<1>4. \A k, b : Speaks(k, b)' = Speaks(k, b)
  BY <1>3 DEF Speaks
<1> QED
  BY <1>1, <1>2, <1>3, <1>4

\* A word that is not above a byte is one, and a list of such things is a sequence.
LEMMA SmallIsByte ==
    ASSUME NEW v \in Nat, ~(v > 255)
    PROVE  v \in 0 .. 255
  OBVIOUS

LEMMA ListOf ==
    ASSUME NEW S, NEW n \in Nat, NEW ws \in [1 .. n -> S]
    PROVE  ws \in Seq(S)
  OBVIOUS

\* Words of one byte each are bytes.
LEMMA BytesIfSmall ==
    ASSUME NEW ws \in Seq(Nat), \A x \in DOMAIN ws : ~(ws[x] > 255)
    PROVE  ws \in Seq(0 .. 255)
<1>1. DOMAIN ws = 1 .. Len(ws) /\ Len(ws) \in Nat /\ ws = [x \in 1 .. Len(ws) |-> ws[x]]
  OBVIOUS
<1>2. \A x \in 1 .. Len(ws) : ws[x] \in Nat
  OBVIOUS
<1>3. ASSUME NEW x \in 1 .. Len(ws) PROVE ws[x] \in 0 .. 255
  <2>1. ws[x] \in Nat /\ ~(ws[x] > 255)
    BY <1>1, <1>2
  <2> QED
    BY <2>1, SmallIsByte, Zenon
<1>4. ws \in [1 .. Len(ws) -> 0 .. 255]
  BY <1>1, <1>3
<1> QED
  BY <1>1, <1>4, ListOf, Zenon

\* What a row of memory says.
LEMMA RowEntries ==
    ASSUME NEW l \in LineSet, what = "mem", ~Unreadable(l)
    PROVE  \/ Entries(l) = <<>>
           \/ /\ DOMAIN Entries(l) = {l.at} /\ Entries(l)[l.at] = l.words
              /\ l.at \in Nat /\ l.words \in Seq(0 .. 255)
<1>1. CASE l.kind \notin {"row", "multi"}
  BY <1>1 DEF Entries
<1>2. CASE l.kind \in {"row", "multi"}
  <2>1. l \in Lines
    BY <1>2 DEF LineSet, Text, Opens, Closes, Single
  <2>2. l.at \in Nat /\ l.words \in Seq(Nat)
    BY <1>2, <2>1, DumpFileAssumption
  <2>3. l.words \in Seq(0 .. 255)
    <3>1. \A x \in DOMAIN l.words : ~(l.words[x] > 255)
      BY <1>2 DEF Unreadable
    <3> QED
      BY <2>2, <3>1, BytesIfSmall, Zenon
  <2>4. Entries(l) = [b \in {l.at} |-> l.words]
    BY <1>2 DEF Entries
  <2> QED
    BY <2>2, <2>3, <2>4
<1> QED
  BY <1>1, <1>2

\* Rows stay typed when a line is added.
LEMMA RowsStayTyped ==
    ASSUME RowsTyped, what = "mem", NEW l \in LineSet, ~Unreadable(l), NEW p, p = Override(parsed, Entries(l))
    PROVE  /\ DOMAIN p \subseteq Nat /\ IsFiniteSet(DOMAIN p)
           /\ \A b \in DOMAIN p : p[b] \in Seq(0 .. 255)
<1>1. /\ DOMAIN p = DOMAIN parsed \cup DOMAIN Entries(l)
      /\ \A b \in DOMAIN p : p[b] = IF b \in DOMAIN Entries(l) THEN Entries(l)[b] ELSE parsed[b]
  BY DEF Override
<1>2. /\ DOMAIN parsed \subseteq Nat /\ IsFiniteSet(DOMAIN parsed)
      /\ \A b \in DOMAIN parsed : parsed[b] \in Seq(0 .. 255)
  BY DEF RowsTyped
<1>3. CASE Entries(l) = <<>>
  <2>1. DOMAIN Entries(l) = {}
    BY <1>3, MarkersAreMute
  <2> QED
    BY <1>1, <1>2, <2>1
<1>4. CASE /\ DOMAIN Entries(l) = {l.at} /\ Entries(l)[l.at] = l.words
           /\ l.at \in Nat /\ l.words \in Seq(0 .. 255)
  <2>1. IsFiniteSet(DOMAIN parsed \cup {l.at})
    BY <1>2, FS_AddElement
  <2> QED
    BY <1>1, <1>2, <1>4, <2>1
<1> QED
  BY <1>3, <1>4, RowEntries

\* The section among the lines read grows by the line read, when it raises.
LEMMA RaiseKeeps ==
    ASSUME FileInv, ReadLine, Data, inSec, Unreadable(Line)
    PROVE  FileInv'
<1> USE DEF FileInv
<1>1. /\ stage = "parse" /\ at < Len(file) /\ at' = at + 1 /\ blob' = blob
      /\ what' = what /\ origin' = origin /\ regs' = regs /\ file' = file
      /\ Line # Opens(what) /\ Line # Closes(what) /\ inSec' = inSec
      /\ stage' = "raised" /\ parsed' = parsed
  BY DEF ReadLine, Data, input
<1>2. /\ at \in Nat /\ at + 1 \in 0 .. Len(file) /\ Line = file[at + 1]
      /\ inSec = TRUE /\ Opened(at) /\ ~Ended(at)
  BY <1>1 DEF FileIs, Reading, Line
<1>3. FileIs' /\ RowsTyped' /\ BlobIs'
  BY <1>1 DEF FileIs, RowsTyped, BlobIs
<1>4. Opened(at + 1) /\ SectionTo(at + 1) = SectionTo(at) \cup {at + 1}
  BY <1>1, <1>2, OpenedGrows, SectionGrows
<1>5. /\ Opened(at)' = Opened(at + 1) /\ SectionTo(at)' = SectionTo(at + 1)
      /\ \A l : Unreadable(l)' = Unreadable(l)
  BY <1>1, SameFile DEF Opened, Ended, SectionTo
<1>6. Reading'
  BY <1>1, <1>2, <1>4, <1>5 DEF Reading
<1>7. Raising'
  BY <1>1, <1>2, <1>4, <1>5 DEF Raising
<1> QED
  BY <1>3, <1>6, <1>7

\* A line is read.
LEMMA ReadLineKeeps == FileInv /\ ReadLine => FileInv'
<1> SUFFICES ASSUME FileInv, ReadLine, ~(Data /\ inSec /\ Unreadable(Line)) PROVE FileInv'
  BY RaiseKeeps
<1> USE DEF FileInv
<1>1. /\ stage = "parse" /\ at < Len(file) /\ at' = at + 1 /\ blob' = blob
      /\ what' = what /\ origin' = origin /\ regs' = regs /\ file' = file
      /\ Open \/ Close \/ Data
  BY DEF ReadLine, input
<1>2. /\ at \in Nat /\ at + 1 \in 0 .. Len(file) /\ Line \in LineSet /\ Line = file[at + 1]
      /\ inSec \in BOOLEAN /\ (inSec <=> Opened(at)) /\ ~Ended(at) /\ Latest(at)
  <2>1. file \in Seq(LineSet) /\ at \in 0 .. Len(file)
    BY DEF FileIs, Reading
  <2>2. at + 1 \in 1 .. Len(file)
    BY <1>1, <2>1
  <2> QED
    BY <1>1, <2>1, <2>2 DEF Reading, Line
<1>3. FileIs'
  BY <1>1 DEF FileIs
<1>4. /\ stage' \in {"parse", "parsed"} /\ inSec' \in BOOLEAN
      /\ inSec' <=> Opened(at + 1)
      /\ stage' = "parse" => ~Ended(at + 1)
      /\ stage' = "parsed" => Ended(at + 1)
      /\ parsed' = [b \in DOMAIN parsed' |-> parsed'[b]]
      /\ DOMAIN parsed' = UNION {DOMAIN Entries(file[x]) : x \in SectionTo(at + 1)}
      /\ \A x \in SectionTo(at + 1) : \A b \in DOMAIN Entries(file[x]) :
            \/ parsed'[b] = Entries(file[x])[b]
            \/ \E k \in SectionTo(at + 1) : k > x /\ Speaks(k, b)
      /\ RowsTyped'
  <2>1. Ended(at + 1) <=> Line = Closes(what)
    <3>1. 1 .. at + 1 = 1 .. at \cup {at + 1}
      BY <1>2
    <3> QED
      BY <1>2, <3>1 DEF Ended
  <2>2. Opened(at + 1) <=> Opened(at) \/ Line = Opens(what)
    BY <1>2, OpenedGrows
  <2>3. Opens(what) # Closes(what)
    BY DEF Opens, Closes
  <2>4. CASE Open
    <3>1. Line = Opens(what) /\ inSec' = TRUE /\ stage' = stage /\ parsed' = parsed
      BY <2>4 DEF Open
    <3>2. Latest(at + 1)
      BY <1>2, <3>1, LatestStays, MarkersAreMute
    <3>3. RowsTyped'
      BY <1>1, <3>1 DEF RowsTyped
    <3> QED
      BY <1>1, <2>1, <2>2, <2>3, <3>1, <3>2, <3>3 DEF Latest
  <2>5. CASE Close
    <3>1. Line = Closes(what) /\ stage' = "parsed" /\ inSec' = inSec /\ parsed' = parsed
      BY <2>5 DEF Close
    <3>2. Latest(at + 1)
      BY <1>2, <3>1, LatestStays
    <3>3. RowsTyped'
      BY <1>1, <3>1 DEF RowsTyped
    <3> QED
      BY <1>2, <2>1, <2>2, <2>3, <3>1, <3>2, <3>3 DEF Latest
  <2>6. CASE Data
    <3>1. /\ Line # Opens(what) /\ Line # Closes(what) /\ inSec' = inSec /\ stage' = stage
          /\ parsed' = IF inSec THEN Override(parsed, Entries(Line)) ELSE parsed
          /\ inSec => ~Unreadable(Line)
      BY <2>6 DEF Data
    <3>2. CASE inSec
      <4>1. parsed' = Override(parsed, Entries(file[at + 1]))
        BY <1>2, <3>1, <3>2
      <4>2. /\ parsed' = [b \in DOMAIN parsed' |-> parsed'[b]]
            /\ DOMAIN parsed' = UNION {DOMAIN Entries(file[x]) : x \in SectionTo(at + 1)}
            /\ \A x \in SectionTo(at + 1) : \A b \in DOMAIN Entries(file[x]) :
                  \/ parsed'[b] = Entries(file[x])[b]
                  \/ \E k \in SectionTo(at + 1) : k > x /\ Speaks(k, b)
        BY <1>2, <3>1, <3>2, <4>1, LatestGrows
      <4>3. what = "mem" => /\ DOMAIN parsed' \subseteq Nat /\ IsFiniteSet(DOMAIN parsed')
                            /\ \A b \in DOMAIN parsed' : parsed'[b] \in Seq(0 .. 255)
        BY <1>2, <3>1, <3>2, <4>1, RowsStayTyped
      <4>4. RowsTyped'
        BY <1>1, <4>3 DEF RowsTyped
      <4> QED
        BY <1>1, <1>2, <2>1, <2>2, <3>1, <4>2, <4>4
    <3>3. CASE ~inSec
      <4>1. parsed' = parsed /\ ~Opened(at)
        BY <1>2, <3>1, <3>3
      <4>2. Latest(at + 1)
        BY <1>2, <4>1, LatestStays
      <4>3. RowsTyped'
        BY <1>1, <4>1 DEF RowsTyped
      <4> QED
        BY <1>1, <1>2, <2>1, <2>2, <3>1, <4>1, <4>2, <4>3 DEF Latest
    <3> QED
      BY <3>2, <3>3
  <2> QED
    BY <1>1, <2>4, <2>5, <2>6
<1>5. Reading'
  <2>1. /\ Len(file)' = Len(file) /\ Opened(at)' = Opened(at + 1) /\ Ended(at)' = Ended(at + 1)
        /\ SectionTo(at)' = SectionTo(at + 1)
    BY <1>1 DEF Opened, Ended, SectionTo
  <2>2. Latest(at)'
    BY <1>1, <1>4, <2>1, SameFile DEF Latest
  <2> QED
    BY <1>1, <1>2, <1>4, <2>1, <2>2 DEF Reading
<1>6. BlobIs'
  BY <1>4 DEF BlobIs
<1>7. Raising'
  <2>1. /\ SectionTo(at)' = SectionTo(at + 1) /\ \A l : Unreadable(l)' = Unreadable(l)
    BY <1>1, SameFile DEF Opened, Ended, SectionTo
  <2>2. \A x \in SectionTo(at) : ~Unreadable(file[x])
    BY <1>1 DEF Raising
  <2>3. at + 1 \in SectionTo(at + 1) => ~Unreadable(file[at + 1])
    <3> SUFFICES ASSUME at + 1 \in SectionTo(at + 1) PROVE ~Unreadable(file[at + 1])
      OBVIOUS
    <3>1. at + 1 \notin SectionTo(at)
      BY <1>2 DEF SectionTo
    <3>2. inSec /\ Line # Closes(what)
      BY <1>2, <3>1, SectionGrows
    <3>3. CASE Data
      BY <1>2, <3>2, <3>3
    <3>4. CASE Open
      BY <1>2, <3>4 DEF Open, Opens, Unreadable
    <3> QED
      BY <1>1, <3>2, <3>3, <3>4 DEF Close
  <2>4. \A x \in SectionTo(at + 1) : ~Unreadable(file[x])
    BY <1>2, <2>2, <2>3, SectionGrows
  <2> QED
    BY <1>1, <1>4, <2>1, <2>4 DEF Raising
<1> QED
  BY <1>3, <1>4, <1>5, <1>6, <1>7

\* The end of the file, or nothing at all.
LEMMA KeepsReading ==
    ASSUME FileInv, what' = what, origin' = origin, regs' = regs, file' = file, at' = at,
           inSec' = inSec, parsed' = parsed,
           stage' \in {"parsed", "joined"} \/ stage' = stage,
           stage' # stage => (stage = "parse" /\ at = Len(file)) \/ stage = "parsed"
    PROVE  FileIs' /\ Reading' /\ Raising' /\ RowsTyped'
<1> USE DEF FileInv
<1>1. FileIs' /\ RowsTyped'
  BY DEF FileIs, RowsTyped
<1>2. /\ Opened(at)' = Opened(at) /\ Ended(at)' = Ended(at) /\ SectionTo(at)' = SectionTo(at)
  BY DEF Opened, Ended, SectionTo
<1>3. Latest(at) => Latest(at)'
  BY <1>2, SameFile DEF Latest
<1>4. Reading'
  BY <1>2, <1>3 DEF Reading
<1>5. Raising'
  BY <1>2, SameFile DEF Raising
<1> QED
  BY <1>1, <1>4, <1>5

LEMMA EndOfFileKeeps == FileInv /\ EndOfFile => FileInv'
<1> SUFFICES ASSUME FileInv, EndOfFile PROVE FileInv'
  OBVIOUS
<1>1. /\ stage = "parse" /\ at = Len(file) /\ stage' = "parsed"
      /\ what' = what /\ origin' = origin /\ regs' = regs /\ file' = file /\ at' = at
      /\ inSec' = inSec /\ parsed' = parsed /\ blob' = blob
  BY DEF EndOfFile, input
<1>2. FileIs' /\ Reading' /\ Raising' /\ RowsTyped'
  BY <1>1, KeepsReading
<1>3. BlobIs'
  BY <1>1 DEF BlobIs
<1> QED
  BY <1>2, <1>3 DEF FileInv

\* The rows are joined.
LEMMA JoinKeeps == FileInv /\ Join => FileInv'
<1> SUFFICES ASSUME FileInv, Join PROVE FileInv'
  OBVIOUS
<1>1. /\ stage = "parsed" /\ stage' = "joined" /\ what = "mem"
      /\ what' = what /\ origin' = origin /\ regs' = regs /\ file' = file /\ at' = at
      /\ inSec' = inSec /\ parsed' = parsed
      /\ blob' = IF parsed = <<>> THEN <<>>
                 ELSE FlattenSeq([i \in 1 .. Rows |-> RowAt(Base + (i - 1) * RowLen)])
  BY DEF Join, input
<1>2. FileIs' /\ Reading' /\ Raising' /\ RowsTyped'
  BY <1>1, KeepsReading
<1>3. FlattenSeq([i \in 1 .. Rows |-> RowAt(Base + (i - 1) * RowLen)])'
         = FlattenSeq([i \in 1 .. Rows |-> RowAt(Base + (i - 1) * RowLen)])
  BY <1>1 DEF Rows, Base, RowAt
<1>4. BlobIs'
  BY <1>1, <1>3 DEF BlobIs
<1> QED
  BY <1>2, <1>4 DEF FileInv

LEMMA FileStays == FileInv /\ UNCHANGED fileVars => FileInv'
<1> SUFFICES ASSUME FileInv, UNCHANGED fileVars PROVE FileInv'
  OBVIOUS
<1>1. /\ what' = what /\ origin' = origin /\ regs' = regs /\ file' = file /\ at' = at
      /\ inSec' = inSec /\ stage' = stage /\ parsed' = parsed /\ blob' = blob
  BY DEF fileVars
<1>2. FileIs' /\ Reading' /\ Raising' /\ RowsTyped'
  BY <1>1, KeepsReading
<1>3. FlattenSeq([i \in 1 .. Rows |-> RowAt(Base + (i - 1) * RowLen)])'
         = FlattenSeq([i \in 1 .. Rows |-> RowAt(Base + (i - 1) * RowLen)])
  BY <1>1 DEF Rows, Base, RowAt
<1>4. BlobIs'
  BY <1>1, <1>3 DEF FileInv, BlobIs
<1> QED
  BY <1>2, <1>4 DEF FileInv

\* The inductive invariant of reading a file.
THEOREM FileInvariant == FileSpec => []FileInv
<1>1. FileInv /\ [FileNext]_fileVars => FileInv'
  BY ReadLineKeeps, EndOfFileKeeps, JoinKeeps, FileStays DEF FileNext
<1> QED
  BY InitFile, <1>1, PTL DEF FileSpec
-----------------------------------------------------------------------------
(* What a file is read as.                                                 *)

\* The lines of the section that the parser has read.
LEMMA SectionSoFar ==
    ASSUME FileInv
    PROVE  SectionTo(at) = {x \in Section : x <= at}
<1> DEFINE n == Len(file)
<1>1. n \in Nat /\ at \in 0 .. n
  BY DEF FileInv, Reading, FileIs
<1>2. DOMAIN file = 1 .. n
  BY DEF FileInv, FileIs
<1> HIDE DEF n
<1>4. ASSUME NEW x \in Section, x <= at PROVE x \in SectionTo(at)
  <2>1. x \in 1 .. n
    BY <1>2 DEF Section
  <2>2. PICK o \in 1 .. n : file[o] = Opens(what) /\ o < x
    BY <1>2 DEF Section, Marks
  <2>3. \A c \in 1 .. n : file[c] = Closes(what) => x < c
    BY <1>2 DEF Section, Marks
  <2>4. Opened(x - 1)
    <3>1. o \in 1 .. x - 1
      BY <1>1, <2>1, <2>2
    <3> QED
      BY <2>2, <3>1 DEF Opened
  <2>5. ~Ended(x)
    <3>1. ASSUME NEW c \in 1 .. x PROVE c \in 1 .. n /\ ~(x < c)
      BY <1>1, <2>1
    <3> QED
      BY <2>3, <3>1 DEF Ended
  <2>7. x \in 1 .. at
    BY <1>1, <1>4, <2>1
  <2> QED
    BY <2>4, <2>5, <2>7 DEF SectionTo
<1>5. ASSUME NEW x \in SectionTo(at) PROVE x \in Section
  <2>1. x \in 1 .. at /\ Opened(x - 1) /\ ~Ended(x)
    BY DEF SectionTo
  <2>2. x \in 1 .. n
    BY <1>1, <2>1
  <2>3. PICK o \in 1 .. x - 1 : file[o] = Opens(what)
    BY <2>1 DEF Opened
  <2>4. o \in 1 .. n /\ o < x
    BY <1>1, <2>2, <2>3
  <2>5. ASSUME NEW c \in 1 .. n, file[c] = Closes(what) PROVE x < c
    <3>1. c \notin 1 .. x
      BY <2>1, <2>5 DEF Ended
    <3> QED
      BY <1>1, <2>2, <3>1
  <2> QED
    BY <1>2, <2>2, <2>3, <2>4, <2>5 DEF Section, Marks
<1>6. \A x \in SectionTo(at) : x <= at
  BY <1>1 DEF SectionTo
<1> QED
  BY <1>4, <1>5, <1>6

\* When the parser has stopped, it has read the whole of the section.
LEMMA SectionIsRead ==
    ASSUME FileInv, Parsed
    PROVE  Section = SectionTo(at)
<1> DEFINE n == Len(file)
<1>1. n \in Nat /\ at \in 0 .. n /\ DOMAIN file = 1 .. n
  BY DEF FileInv, Reading, FileIs
<1>2. at = n \/ Ended(at)
  BY DEF FileInv, Reading, Parsed
<1> HIDE DEF n
<1>3. ASSUME NEW x \in Section PROVE x <= at
  <2>1. x \in 1 .. n /\ \A c \in 1 .. n : file[c] = Closes(what) => x < c
    BY <1>1 DEF Section, Marks
  <2>2. CASE at = n
    BY <1>1, <2>1, <2>2
  <2>3. CASE Ended(at)
    <3>1. PICK c \in 1 .. at : file[c] = Closes(what)
      BY <2>3 DEF Ended
    <3>2. c \in 1 .. n
      BY <1>1, <3>1
    <3>3. x < c
      BY <2>1, <3>1, <3>2
    <3> QED
      BY <1>1, <2>1, <3>2, <3>3
  <2> QED
    BY <1>2, <2>2, <2>3
<1> QED
  BY <1>3, SectionSoFar

\* A file of any lines is read as what the last line of the section about each address
\* says, whatever lines stand where; it raises at the first line of the memory section
\* with a number above 255, and only there.
THEOREM SectionsAreParsed == FileSpec => []SectionIsParsed
<1>1. FileInv => SectionIsParsed
  <2> SUFFICES ASSUME FileInv PROVE SectionIsParsed
    OBVIOUS
  <2>1. ASSUME stage = "raised"
        PROVE  /\ at \in Section /\ Unreadable(file[at])
               /\ \A x \in Section : x < at => ~Unreadable(file[x])
    <3>1. at \in SectionTo(at) /\ Unreadable(file[at])
      BY <2>1 DEF FileInv, Raising
    <3>2. \A x \in SectionTo(at) : Unreadable(file[x]) => x = at
      BY DEF FileInv, Raising
    <3>3. at \in Nat /\ \A x \in Section : x \in Nat
      BY DEF FileInv, Reading, FileIs, Section
    <3>4. \A x \in Section : x < at => x \in SectionTo(at) /\ x # at
      BY <3>3, SectionSoFar
    <3> QED
      BY <3>1, <3>2, <3>4, SectionSoFar
  <2>2. ASSUME Parsed
        PROVE  /\ \A x \in Section : ~Unreadable(file[x])
               /\ DOMAIN parsed = UNION {DOMAIN Entries(file[x]) : x \in Section}
               /\ \A x \in Section : \A b \in DOMAIN Entries(file[x]) :
                     \/ parsed[b] = Entries(file[x])[b]
                     \/ \E k \in Section : k > x /\ Speaks(k, b)
    <3>1. Section = SectionTo(at) /\ stage # "raised"
      BY <2>2, SectionIsRead DEF Parsed
    <3> QED
      BY <3>1 DEF FileInv, Reading, Raising, Latest
  <2> QED
    BY <2>1, <2>2 DEF SectionIsParsed
<1> QED
  BY FileInvariant, <1>1, PTL

\* A line of a register says of its address what it holds.
LEMMA SingleEntries ==
    ASSUME what = "reg", NEW b \in Nat, NEW v
    PROVE  DOMAIN Entries(Single(b, v)) = {b} /\ Entries(Single(b, v))[b] = v
<1> DEFINE l == Single(b, v)
<1>1. l.kind = "single" /\ l.at = b /\ l.words = <<v>>
  BY DEF Single
<1>2. DOMAIN l.words = {1} /\ l.words[1] = v
  BY <1>1
<1> HIDE DEF l
<1>3. Entries(l) = [c \in {l.at + 4 * (i - 1) : i \in DOMAIN l.words} |-> l.words[(c - l.at) \div 4 + 1]]
  BY <1>1 DEF Entries
<1>4. {l.at + 4 * (i - 1) : i \in DOMAIN l.words} = {b}
  BY <1>1, <1>2
<1>5. (b - l.at) \div 4 + 1 = 1
  BY <1>1
<1>6. DOMAIN Entries(l) = {b} /\ Entries(l)[b] = v
  BY <1>2, <1>3, <1>4, <1>5
<1> QED
  BY <1>6 DEF l

\* The section that the first n lines of a dump hold, whole or broken off behind them:
\* register k stands in line k + 2.
LEMMA SectionOfDump ==
    ASSUME FileInv, what = "reg", NEW r \in Dumps, NEW n \in Nat, n <= Count(r) + 4, n <= Len(file),
           \A x \in 1 .. n : file[x] = WriteRaw(r)[x],
           \A x \in n + 1 .. Len(file) : file[x] # Opens("reg") /\ file[x] # Closes("reg"),
           NEW x \in Section
    PROVE  x \in 3 .. Len(file) /\ (x <= n => x <= Count(r) + 2)
<1> DEFINE w == WriteRaw(r)
<1>1. IsWritten(r, w) /\ Count(r) \in Nat
  BY WrittenIs DEF IsWritten
<1>2. Len(file) \in Nat /\ DOMAIN file = 1 .. Len(file)
  BY DEF FileInv, FileIs
<1>3. /\ x \in 1 .. Len(file)
      /\ \E o \in 1 .. Len(file) : file[o] = Opens("reg") /\ o < x
      /\ \A c \in 1 .. Len(file) : file[c] = Closes("reg") => x < c
  BY <1>2 DEF Section, Marks
<1> HIDE DEF w
<1>4. w[1] # Opens("reg")
  BY <1>1 DEF IsWritten, Text, Opens
<1>5. PICK o \in 1 .. Len(file) : file[o] = Opens("reg") /\ o < x
  BY <1>3
<1>6. o <= n /\ o # 1
  <2>1. o \in 1 .. n
    BY <1>2, <1>5
  <2>2. file[o] = w[o]
    BY <2>1 DEF w
  <2> QED
    BY <1>4, <1>5, <2>1, <2>2
<1>7. x <= n => x <= Count(r) + 2
  <2> SUFFICES ASSUME x <= n, x > Count(r) + 2 PROVE FALSE
    BY <1>1, <1>3
  <2>1. Count(r) + 3 \in 1 .. n /\ Count(r) + 3 \in 1 .. Len(file)
    BY <1>1, <1>2, <1>3
  <2>2. file[Count(r) + 3] = Closes("reg")
    BY <1>1, <2>1 DEF IsWritten, w
  <2>3. x < Count(r) + 3
    BY <1>3, <2>1, <2>2
  <2> QED
    BY <1>1, <1>3, <2>3
<1> QED
  BY <1>2, <1>3, <1>5, <1>6, <1>7

\* What has been parsed at the end, for all lines of the section.
LEMMA WhatIsParsed ==
    ASSUME FileInv, Parsed
    PROVE  /\ parsed = [b \in DOMAIN parsed |-> parsed[b]]
           /\ DOMAIN parsed = UNION {DOMAIN Entries(file[x]) : x \in Section}
           /\ \A x \in Section : \A b \in DOMAIN Entries(file[x]) :
                 \/ parsed[b] = Entries(file[x])[b]
                 \/ \E k \in Section : k > x /\ b \in DOMAIN Entries(file[k])
BY SectionIsRead DEF FileInv, Reading, Parsed, Latest, Speaks

\* A register of a whole dump is the last to speak of its address.
LEMMA LineOfRegister ==
    ASSUME NEW r \in Dumps, what = "reg", NEW k \in 1 .. Count(r), NEW l,
           l = Single(Order(r)[k], r[Order(r)[k]])
    PROVE  /\ DOMAIN Entries(l) = {Order(r)[k]} /\ Entries(l)[Order(r)[k]] = r[Order(r)[k]]
           /\ Order(r)[k] \in DOMAIN r /\ Order(r)[k] \in Nat
           /\ \A j \in 1 .. Count(r) : Order(r)[j] = Order(r)[k] => j = k
<1> DEFINE b == Order(r)[k]
<1>1. b \in DOMAIN r /\ b \in Nat
  BY OrderIs
<1>2. DOMAIN Entries(l) = {b} /\ Entries(l)[b] = r[b]
  <2> HIDE DEF b
  <2>1. l = Single(b, r[b])
    BY DEF b
  <2> QED
    BY <1>1, <2>1, SingleEntries
<1>3. ASSUME NEW j \in 1 .. Count(r), Order(r)[j] = b PROVE j = k
  <2>1. Order(r)[j] \in Nat /\ Count(r) \in Nat
    BY OrderIs
  <2>2. ~(j < k) /\ ~(k < j)
    BY <1>1, <1>3, <2>1, OrderIs
  <2> QED
    BY <2>1, <2>2
<1> QED
  BY <1>1, <1>2, <1>3

\* report.py:14: what vmmdump wrote is read back as it was, whatever the registers.
THEOREM DumpsRoundTrip == FileSpec => []RoundTrip
<1>1. FileInv => RoundTrip
  <2> SUFFICES ASSUME FileInv, Parsed, origin = "vmmdump", what = "reg" PROVE parsed = regs
    BY DEF RoundTrip
  <2> DEFINE n == Count(regs)
             o == Order(regs)
  <2>1. regs \in Dumps /\ file = WriteRaw(regs)
    BY DEF FileInv, FileIs
  <2>2. IsWritten(regs, file) /\ n \in Nat /\ Len(file) = n + 4 /\ DOMAIN file = 1 .. n + 4
    BY <2>1, WrittenIs DEF IsWritten
  <2>3. \A k \in 1 .. n : file[k + 2] = Single(o[k], regs[o[k]])
    BY <2>2 DEF IsWritten
  <2>4. ASSUME NEW k \in 1 .. n
        PROVE  /\ DOMAIN Entries(file[k + 2]) = {o[k]} /\ Entries(file[k + 2])[o[k]] = regs[o[k]]
               /\ o[k] \in DOMAIN regs /\ \A j \in 1 .. n : o[j] = o[k] => j = k
    <3>1. file[k + 2] = Single(Order(regs)[k], regs[Order(regs)[k]])
      BY <2>3
    <3> HIDE DEF n, o
    <3> QED
      BY <2>1, <3>1, LineOfRegister DEF n, o
  <2>5. ASSUME NEW x \in Section PROVE x - 2 \in 1 .. n /\ (x - 2) + 2 = x
    <3>1. x \in 3 .. Len(file) /\ (x <= n + 4 => x <= n + 2)
      <4>1. n + 4 \in Nat /\ n + 4 <= Len(file) /\ \A y \in 1 .. n + 4 : file[y] = WriteRaw(regs)[y]
        BY <2>1, <2>2
      <4>2. \A y \in (n + 4) + 1 .. Len(file) : file[y] # Opens("reg") /\ file[y] # Closes("reg")
        BY <2>2
      <4> QED
        BY <2>1, <4>1, <4>2, SectionOfDump
    <3> QED
      BY <2>2, <3>1
  <2>6. ASSUME NEW k \in 1 .. n PROVE k + 2 \in Section
    <3>1. k + 2 \in 1 .. n + 4 /\ 2 \in 1 .. n + 4 /\ 2 < k + 2
      BY <2>2
    <3>2. file[2] = Opens("reg")
      BY <2>2 DEF IsWritten
    <3>3. ASSUME NEW c \in 1 .. n + 4, file[c] = Closes("reg") PROVE k + 2 < c
      <4>1. c # 1 /\ c # 2
        BY <2>2, <3>3 DEF IsWritten, Text, Opens, Closes
      <4>2. ASSUME NEW j \in 1 .. n, c = j + 2 PROVE FALSE
        <5>1. file[c] = Single(o[j], regs[o[j]])
          BY <2>3, <4>2
        <5> QED
          BY <3>3, <5>1 DEF Single, Closes
      <4>3. c - 2 \notin 1 .. n
        BY <2>2, <4>2
      <4> QED
        BY <2>2, <4>1, <4>3
    <3> QED
      BY <2>2, <3>1, <3>2, <3>3 DEF Section, Marks
  <2> HIDE DEF n, o
  <2>7. DOMAIN parsed = DOMAIN regs
    <3>1. ASSUME NEW b \in DOMAIN parsed PROVE b \in DOMAIN regs
      <4>1. PICK x \in Section : b \in DOMAIN Entries(file[x])
        BY WhatIsParsed
      <4>2. x - 2 \in 1 .. n /\ b \in {o[x - 2]}
        BY <2>4, <2>5, <4>1
      <4> QED
        BY <2>4, <4>2
    <3>2. ASSUME NEW b \in DOMAIN regs PROVE b \in DOMAIN parsed
      <4>1. PICK k \in 1 .. n : o[k] = b
        BY <2>1, OrderIs DEF n, o
      <4>2. k + 2 \in Section /\ b \in DOMAIN Entries(file[k + 2])
        BY <2>4, <2>6, <4>1
      <4> QED
        BY <4>2, WhatIsParsed
    <3> QED
      BY <3>1, <3>2
  <2>8. ASSUME NEW b \in DOMAIN regs PROVE parsed[b] = regs[b]
    <3>1. PICK k \in 1 .. n : o[k] = b
      BY <2>1, OrderIs DEF n, o
    <3>2. k + 2 \in Section /\ b \in DOMAIN Entries(file[k + 2]) /\ Entries(file[k + 2])[b] = regs[b]
      BY <2>4, <2>6, <3>1
    <3>3. ASSUME NEW x \in Section, x > k + 2, b \in DOMAIN Entries(file[x]) PROVE FALSE
      <4>1. x - 2 \in 1 .. n /\ b \in {o[x - 2]}
        BY <2>4, <2>5, <3>3
      <4>2. x - 2 = k
        BY <2>4, <3>1, <4>1
      <4> QED
        BY <2>5, <3>3, <4>2
    <3> QED
      BY <3>2, <3>3, WhatIsParsed
  <2>9. regs = [b \in DOMAIN regs |-> regs[b]]
    BY <2>1 DEF Dumps
  <2> QED
    BY <2>7, <2>8, <2>9, WhatIsParsed
<1> QED
  BY FileInvariant, <1>1, PTL

\* The greatest member of a set of numbers.
LEMMA GreatestIs ==
    ASSUME NEW S, S \subseteq Nat, NEW b \in S, \A y \in S : y <= b
    PROVE  b = Max(S)
<1>1. \E m \in S : \A y \in S : m >= y
  <2>1. \A y \in S : b >= y
    OBVIOUS
  <2> QED
    BY <2>1
<1>2. Max(S) \in S /\ \A y \in S : Max(S) >= y
  BY <1>1 DEF Max
<1>3. Max(S) \in Nat /\ b \in Nat /\ Max(S) >= b /\ Max(S) <= b
  BY <1>2
<1> QED
  BY <1>3

\* Line x of a dump cut short in line n: it speaks of the register in this place, and
\* truly of it unless it is the last, or of none.
CutLine(r, n, x) ==
    /\ x \in 1 .. n /\ n \in Nat
    /\ \A b \in DOMAIN Entries(file[x]) :
          /\ x - 2 \in 1 .. Count(r) /\ b = Order(r)[x - 2]
          /\ x # n => Entries(file[x])[b] = r[b]

\* The lines of the section of a dump cut short: whole lines of registers, and perhaps
\* the last, which speaks of a register too, or of none.
LEMMA SectionOfCut ==
    ASSUME FileInv, what = "reg", NEW r \in Dumps, NEW n \in DOMAIN WriteRaw(r),
           NEW l \in BrokenOff(WriteRaw(r)[n]), file = Append(SubSeq(WriteRaw(r), 1, n - 1), l),
           NEW x \in Section
    PROVE  CutLine(r, n, x)
<1> DEFINE w == WriteRaw(r)
           c == Count(r)
           o == Order(r)
<1>1. IsWritten(r, w) /\ c \in Nat /\ w \in Seq(LineSet) /\ Len(w) = c + 4
  BY WrittenIs DEF IsWritten
<1>2. n \in 1 .. c + 4 /\ n - 1 \in Nat
  BY <1>1
<1>3. l = Text \/ \E k \in 1 .. c : n = k + 2 /\ \E v \in Nat : l = Single(o[k], v)
  BY BrokenIs
<1>4. Len(file) = n /\ file[n] = l /\ \A y \in 1 .. n - 1 : file[y] = w[y]
  <2> DEFINE s == SubSeq(w, 1, n - 1)
  <2> HIDE DEF w
  <2>1. s \in Seq(LineSet) /\ Len(s) = n - 1 /\ \A y \in 1 .. n - 1 : s[y] = w[y]
    BY <1>1, <1>2
  <2>2. file = Append(s, l)
    BY DEF w
  <2> HIDE DEF s
  <2> QED
    BY <1>2, <2>1, <2>2
<1> HIDE DEF w, c, o
<1>5. x \in 3 .. n /\ (x <= n - 1 => x <= c + 2)
  <2>1. l # Opens("reg") /\ l # Closes("reg")
    BY <1>3 DEF Text, Single, Opens, Closes
  <2>2. \A y \in (n - 1) + 1 .. Len(file) : file[y] # Opens("reg") /\ file[y] # Closes("reg")
    BY <1>2, <1>4, <2>1
  <2>3. n - 1 \in Nat /\ n - 1 <= Count(r) + 4 /\ n - 1 <= Len(file)
    BY <1>1, <1>2, <1>4 DEF c
  <2>4. \A y \in 1 .. n - 1 : file[y] = WriteRaw(r)[y]
    BY <1>4 DEF w
  <2>5. x \in 3 .. Len(file) /\ (x <= n - 1 => x <= Count(r) + 2)
    BY <2>2, <2>3, <2>4, SectionOfDump
  <2> QED
    BY <1>4, <2>5 DEF c
<1>6. ASSUME x # n
      PROVE  /\ x \in 1 .. n /\ n \in Nat
             /\ \A b \in DOMAIN Entries(file[x]) :
                   /\ x - 2 \in 1 .. c /\ b = o[x - 2]
                   /\ x # n => Entries(file[x])[b] = r[b]
  <2>1. x - 2 \in 1 .. c /\ x \in 1 .. n - 1 /\ (x - 2) + 2 = x
    BY <1>1, <1>2, <1>5, <1>6
  <2>2. file[x] = Single(o[x - 2], r[o[x - 2]])
    <3>1. w[(x - 2) + 2] = Single(o[x - 2], r[o[x - 2]])
      BY <1>1, <2>1 DEF IsWritten, c, o
    <3> QED
      BY <1>4, <2>1, <3>1
  <2>3. DOMAIN Entries(file[x]) = {o[x - 2]} /\ Entries(file[x])[o[x - 2]] = r[o[x - 2]]
    BY <2>1, <2>2, LineOfRegister DEF c, o
  <2> QED
    BY <1>2, <1>5, <2>1, <2>3
<1>7. ASSUME x = n
      PROVE  /\ x \in 1 .. n /\ n \in Nat
             /\ \A b \in DOMAIN Entries(file[x]) :
                   /\ x - 2 \in 1 .. c /\ b = o[x - 2]
                   /\ x # n => Entries(file[x])[b] = r[b]
  <2>1. CASE l = Text
    <3>1. DOMAIN Entries(file[x]) = {}
      BY <1>4, <1>7, <2>1, MarkersAreMute
    <3> QED
      BY <1>2, <1>5, <3>1
  <2>2. ASSUME NEW k \in 1 .. c, n = k + 2, NEW v \in Nat, l = Single(o[k], v)
        PROVE  x - 2 \in 1 .. c /\ DOMAIN Entries(file[x]) = {o[x - 2]}
    <3>1. x - 2 = k
      BY <1>7, <2>2
    <3>2. o[k] \in Nat
      BY <2>2, OrderIs DEF o, c
    <3>3. DOMAIN Entries(l) = {o[k]}
      BY <2>2, <3>2, SingleEntries
    <3> QED
      BY <1>4, <1>7, <2>2, <3>1, <3>3
  <2> QED
    BY <1>2, <1>3, <1>5, <1>7, <2>1, <2>2
<1> QED
  BY <1>6, <1>7 DEF CutLine, c, o

\* A dump cut short is read as fewer registers, and only the last of them can be wrong,
\* whatever the registers and wherever it was cut.
THEOREM CutsHarmLastOnly == FileSpec => []CutHarmsLastOnly
<1>1. FileInv => CutHarmsLastOnly
  <2> SUFFICES ASSUME FileInv, Parsed, origin = "cut", what = "reg"
               PROVE  /\ DOMAIN parsed \subseteq DOMAIN regs
                      /\ \A a \in DOMAIN parsed : parsed[a] = regs[a] \/ a = Max(DOMAIN parsed)
    BY DEF CutHarmsLastOnly
  <2> DEFINE c == Count(regs)
             o == Order(regs)
  <2>0. regs \in Dumps /\ \E n \in DOMAIN WriteRaw(regs) : \E l \in BrokenOff(WriteRaw(regs)[n]) :
                               file = Append(SubSeq(WriteRaw(regs), 1, n - 1), l)
    BY Zenon DEF FileInv, FileIs
  <2>a. PICK n \in DOMAIN WriteRaw(regs) : \E l \in BrokenOff(WriteRaw(regs)[n]) :
                                               file = Append(SubSeq(WriteRaw(regs), 1, n - 1), l)
    BY Zenon, <2>0
  <2>1. PICK l \in BrokenOff(WriteRaw(regs)[n]) : file = Append(SubSeq(WriteRaw(regs), 1, n - 1), l)
    BY Zenon, <2>a
  <2>2. ASSUME NEW x \in Section
        PROVE  /\ x \in 1 .. n /\ n \in Nat
               /\ \A b \in DOMAIN Entries(file[x]) :
                     /\ x - 2 \in 1 .. c /\ b = o[x - 2]
                     /\ x # n => Entries(file[x])[b] = regs[b]
    <3>1. regs \in Dumps
      BY <2>0
    <3> HIDE DEF c, o
    <3>2. CutLine(regs, n, x)
      BY Zenon, <2>1, <3>1, SectionOfCut
    <3> QED
      BY <3>2 DEF CutLine, c, o
  <2>3. /\ o \in [1 .. c -> DOMAIN regs] /\ DOMAIN regs \subseteq Nat /\ c \in Nat
        /\ \A x, y \in 1 .. c : x < y => o[x] < o[y]
    BY <2>0, OrderIs
  <2> HIDE DEF c, o
  <2>4. ASSUME NEW b \in DOMAIN parsed
        PROVE  \E x \in Section : b \in DOMAIN Entries(file[x]) /\ b = o[x - 2] /\ x - 2 \in 1 .. c
                                  /\ x \in 1 .. n /\ n \in Nat
    <3>1. PICK x \in Section : b \in DOMAIN Entries(file[x])
      BY WhatIsParsed
    <3> QED
      BY <2>2, <3>1
  <2>5. DOMAIN parsed \subseteq DOMAIN regs
    BY <2>3, <2>4
  <2>6. ASSUME NEW b \in DOMAIN parsed, parsed[b] # regs[b] PROVE b = Max(DOMAIN parsed)
    <3>1. PICK x \in Section : b \in DOMAIN Entries(file[x]) /\ b = o[x - 2] /\ x - 2 \in 1 .. c
                               /\ x \in 1 .. n /\ n \in Nat
      BY <2>4
    <3>2. b = o[n - 2] /\ n - 2 \in 1 .. c
      <4>1. CASE x = n
        BY <3>1, <4>1
      <4>2. CASE x # n
        <5>1. Entries(file[x])[b] = regs[b]
          BY <2>2, <3>1, <4>2
        <5>2. PICK k \in Section : k > x /\ b \in DOMAIN Entries(file[k])
          BY <2>6, <3>1, <5>1, WhatIsParsed
        <5>3. k - 2 \in 1 .. c /\ b = o[k - 2] /\ k \in 1 .. n
          BY <2>2, <5>2
        <5>4. x - 2 < k - 2
          BY <3>1, <5>2, <5>3
        <5>5. o[x - 2] < o[k - 2] /\ o[x - 2] \in Nat
          BY <2>3, <3>1, <5>3, <5>4
        <5> QED
          BY <3>1, <5>3, <5>5
      <4> QED
        BY <4>1, <4>2
    <3>3. ASSUME NEW y \in DOMAIN parsed PROVE y <= b
      <4>1. PICK z \in Section : y = o[z - 2] /\ z - 2 \in 1 .. c /\ z \in 1 .. n
        BY <2>4, <3>3
      <4>2. y \in Nat /\ b \in Nat
        BY <2>3, <3>2, <4>1
      <4>3. CASE z = n
        BY <3>2, <4>1, <4>2, <4>3
      <4>4. CASE z # n
        <5>1. z - 2 < n - 2
          BY <3>1, <4>1, <4>4
        <5>2. o[z - 2] < o[n - 2]
          BY <2>3, <3>2, <4>1, <5>1
        <5> QED
          BY <3>2, <4>1, <4>2, <5>2
      <4> QED
        BY <4>3, <4>4
    <3>4. DOMAIN parsed \subseteq Nat
      BY <2>3, <2>5
    <3> QED
      BY <3>3, <3>4, GreatestIs
  <2> QED
    BY <2>5, <2>6
<1> QED
  BY FileInvariant, <1>1, PTL
-----------------------------------------------------------------------------
(* The block of rows.                                                      *)

\* Rows of n bytes behind one another, up to row m.
FlatTo(s, f, m) == f = [i \in 1 .. m |-> IF i = 1 THEN s[i] ELSE f[i - 1] \o s[i]]

\* Of them, byte k of row x stands at (x - 1) n + k, and nothing stands elsewhere.
PlacedTo(s, n, i, g) ==
    /\ g \in Seq(0 .. 255) /\ Len(g) = i * n
    /\ \A x \in 1 .. i : \A k \in 1 .. n : (x - 1) * n + k \in 1 .. i * n /\ g[(x - 1) * n + k] = s[x][k]
    /\ \A p \in 1 .. i * n : \E x \in 1 .. i : \E k \in 1 .. n : p = (x - 1) * n + k

\* The length of two sequences behind one another.
LEMMA Together ==
    ASSUME NEW X, NEW u, NEW v, u \in Seq(X), v \in Seq(X)
    PROVE  u \o v \in Seq(X) /\ Len(u \o v) = Len(u) + Len(v)
OBVIOUS

\* One more row behind i of them.
LEMMA RowBehind ==
    ASSUME NEW n \in Nat \ {0}, NEW s, NEW i \in Nat, NEW g, PlacedTo(s, n, i, g),
           NEW r, r = s[i + 1], r \in Seq(0 .. 255), Len(r) = n, NEW h, h = g \o r
    PROVE  PlacedTo(s, n, i + 1, h)
<1>1. g \in Seq(0 .. 255) /\ Len(g) = i * n /\ r \in Seq(0 .. 255) /\ Len(r) = n /\ h = g \o r
  BY DEF PlacedTo
<1>2. /\ h \in Seq(0 .. 255) /\ Len(h) = Len(g) + Len(r)
      /\ \A x \in 1 .. Len(g) : h[x] = g[x]
      /\ \A x \in 1 .. Len(r) : h[Len(g) + x] = r[x]
  <2> DEFINE B == 0 .. 255
  <2>1. g \in Seq(B) /\ r \in Seq(B) /\ h = g \o r
    BY <1>1
  <2> HIDE DEF B
  <2>2. h \in Seq(B) /\ Len(h) = Len(g) + Len(r)
    BY <2>1, Together
  <2>3. \A x \in 1 .. Len(g) : h[x] = g[x]
    BY <2>1
  <2>4. \A x \in 1 .. Len(r) : h[Len(g) + x] = r[x]
    BY <2>1
  <2> QED
    BY <2>2, <2>3, <2>4 DEF B
<1>3. (i + 1) * n = i * n + n /\ i * n \in Nat
  OBVIOUS
<1>4. Len(h) = (i + 1) * n
  BY <1>1, <1>2, <1>3
<1>5. ASSUME NEW x \in 1 .. i + 1, NEW k \in 1 .. n
      PROVE  (x - 1) * n + k \in 1 .. (i + 1) * n /\ h[(x - 1) * n + k] = s[x][k]
  <2>1. CASE x \in 1 .. i
    <3>1. (x - 1) * n + k \in 1 .. i * n /\ g[(x - 1) * n + k] = s[x][k]
      BY <2>1 DEF PlacedTo
    <3> DEFINE p == (x - 1) * n + k
               q == i * n
    <3> HIDE DEF p, q
    <3>2. p \in 1 .. q /\ g[p] = s[x][k] /\ q \in Nat /\ (i + 1) * n = q + n
      BY <1>3, <3>1 DEF p, q
    <3>3. h[p] = g[p] /\ p \in 1 .. q + n
      BY <1>1, <1>2, <3>2 DEF q
    <3> QED
      BY <3>2, <3>3 DEF p
  <2>2. CASE x = i + 1
    <3>1. (x - 1) * n + k = i * n + k
      BY <2>2
    <3>2. i * n + k \in 1 .. (i + 1) * n
      <4> DEFINE q == i * n
                 t == (i + 1) * n
      <4>1. q \in Nat /\ t = q + n
        BY <1>3
      <4> HIDE DEF q, t
      <4>2. q + k \in 1 .. t
        BY <4>1
      <4> QED
        BY <4>2 DEF q, t
    <3>3. h[i * n + k] = r[k]
      BY <1>1, <1>2
    <3> QED
      BY <2>2, <3>1, <3>2, <3>3
  <2>3. x \in 1 .. i \/ x = i + 1
    BY <1>5
  <2> QED
    BY Zenon, <2>1, <2>2, <2>3
<1>6. ASSUME NEW p \in 1 .. (i + 1) * n PROVE \E x \in 1 .. i + 1 : \E k \in 1 .. n : p = (x - 1) * n + k
  <2>1. CASE p <= i * n
    <3>1. p \in 1 .. i * n
      BY <1>3, <2>1
    <3>2. PICK x \in 1 .. i, k \in 1 .. n : p = (x - 1) * n + k
      BY <3>1 DEF PlacedTo
    <3>3. x \in 1 .. i + 1
      OBVIOUS
    <3> QED
      BY <3>2, <3>3
  <2>2. CASE ~(p <= i * n)
    <3>1. p - i * n \in 1 .. n /\ i + 1 \in 1 .. i + 1 /\ (i + 1) - 1 = i
      BY <1>3, <2>2
    <3>2. p = i * n + (p - i * n)
      BY <1>3
    <3> QED
      BY <3>1, <3>2
  <2> QED
    BY <2>1, <2>2
<1> QED
  BY <1>2, <1>4, <1>5, <1>6 DEF PlacedTo

\* Rows can be put behind one another: FlattenSeq is defined of them.
LEMMA FlatExists ==
    ASSUME NEW s, NEW m \in Nat
    PROVE  \E f : FlatTo(s, f, m)
<1> DEFINE Bad == {j \in Nat : ~ \E f : FlatTo(s, f, j)}
<1> SUFFICES ASSUME m \in Bad PROVE FALSE
  OBVIOUS
<1>1. Bad \subseteq Nat /\ Bad # {}
  OBVIOUS
<1>2. PICK j \in Bad : \A k \in Bad : j <= k
  <2> HIDE DEF Bad
  <2> QED
    BY <1>1, LeastOf
<1>3. j \in Nat /\ ~ \E f : FlatTo(s, f, j)
  OBVIOUS
<1>4. CASE j = 0
  <2> DEFINE f == [i \in 1 .. 0 |-> s]
  <2>1. f = [i \in 1 .. 0 |-> IF i = 1 THEN s[i] ELSE f[i - 1] \o s[i]]
    OBVIOUS
  <2> HIDE DEF f
  <2>2. FlatTo(s, f, j)
    BY <1>4, <2>1 DEF FlatTo
  <2> QED
    BY <1>3, <2>2
<1>5. CASE j # 0
  <2>1. j - 1 \in Nat /\ ~(j <= j - 1)
    BY <1>3, <1>5
  <2>2. \E f : FlatTo(s, f, j - 1)
    BY <1>2, <2>1
  <2>3. PICK f : FlatTo(s, f, j - 1)
    BY <2>2
  <2> DEFINE t == [i \in 1 .. j |-> IF i = 1 THEN s[i] ELSE f[i - 1] \o s[i]]
  <2>4. ASSUME NEW i \in 1 .. j - 1 PROVE t[i] = f[i]
    <3>1. i \in 1 .. j /\ i \in 1 .. j - 1
      BY <1>3, <2>1
    <3>2. f[i] = IF i = 1 THEN s[i] ELSE f[i - 1] \o s[i]
      BY <2>3, <3>1 DEF FlatTo
    <3> QED
      BY <3>1, <3>2
  <2>5. ASSUME NEW i \in 1 .. j PROVE t[i] = IF i = 1 THEN s[i] ELSE t[i - 1] \o s[i]
    <3>1. CASE i = 1
      BY <3>1
    <3>2. CASE i # 1
      <4>1. i - 1 \in 1 .. j - 1
        BY <2>1, <3>2
      <4>2. t[i - 1] = f[i - 1]
        BY <2>4, <4>1
      <4>3. t[i] = f[i - 1] \o s[i]
        BY <3>2
      <4> QED
        BY <3>2, <4>2, <4>3
    <3> QED
      BY <3>1, <3>2
  <2>6. t = [i \in 1 .. j |-> t[i]]
    OBVIOUS
  <2> HIDE DEF t
  <2>7. t = [i \in 1 .. j |-> IF i = 1 THEN s[i] ELSE t[i - 1] \o s[i]]
    BY <2>5, <2>6
  <2>8. FlatTo(s, t, j)
    BY <2>7 DEF FlatTo
  <2> QED
    BY <1>3, <2>8
<1> QED
  BY <1>4, <1>5

\* And then every byte is in its place.
LEMMA FlatIsPlaced ==
    ASSUME NEW n \in Nat \ {0}, NEW m \in Nat, NEW s, NEW f, FlatTo(s, f, m),
           \A i \in 1 .. m : s[i] \in Seq(0 .. 255) /\ Len(s[i]) = n,
           NEW i \in 1 .. m
    PROVE  PlacedTo(s, n, i, f[i])
<1> DEFINE Bad == {j \in 1 .. m : ~PlacedTo(s, n, j, f[j])}
<1> SUFFICES ASSUME i \in Bad PROVE FALSE
  OBVIOUS
<1>1. Bad \subseteq Nat /\ Bad # {}
  OBVIOUS
<1>2. PICK j \in Bad : \A k \in Bad : j <= k
  <2> HIDE DEF Bad
  <2> QED
    BY <1>1, LeastOf
<1>3. j \in 1 .. m /\ ~PlacedTo(s, n, j, f[j])
  OBVIOUS
<1>4. f[j] = IF j = 1 THEN s[j] ELSE f[j - 1] \o s[j]
  BY <1>3 DEF FlatTo
<1>5. CASE j = 1
  <2>1. f[j] = s[1] /\ s[1] \in Seq(0 .. 255) /\ Len(s[1]) = n
    BY <1>3, <1>4, <1>5
  <2>2. 1 * n = n /\ (1 - 1) * n = 0
    OBVIOUS
  <2>3. Len(s[1]) = 1 * n
    BY <2>1, <2>2
  <2>4. ASSUME NEW x \in 1 .. 1, NEW k \in 1 .. n
        PROVE  (x - 1) * n + k \in 1 .. 1 * n /\ s[1][(x - 1) * n + k] = s[x][k]
    <3>1. x = 1 /\ (x - 1) * n + k = k
      BY <2>2
    <3> QED
      BY <2>2, <3>1
  <2>5. ASSUME NEW p \in 1 .. 1 * n PROVE \E x \in 1 .. 1 : \E k \in 1 .. n : p = (x - 1) * n + k
    <3>1. p \in 1 .. n /\ p = (1 - 1) * n + p /\ 1 \in 1 .. 1
      BY <2>2
    <3> QED
      BY <3>1
  <2>6. PlacedTo(s, n, 1, s[1])
    BY <2>1, <2>3, <2>4, <2>5 DEF PlacedTo
  <2> QED
    BY <1>3, <1>5, <2>1, <2>6
<1>6. CASE j # 1
  <2>1. j - 1 \in 1 .. m /\ j - 1 \in Nat /\ ~(j <= j - 1) /\ (j - 1) + 1 = j
    BY <1>3, <1>6
  <2>2. PlacedTo(s, n, j - 1, f[j - 1])
    BY <1>2, <2>1
  <2>3. f[j] = f[j - 1] \o s[(j - 1) + 1] /\ s[(j - 1) + 1] \in Seq(0 .. 255) /\ Len(s[(j - 1) + 1]) = n
    BY <1>3, <1>4, <1>6, <2>1
  <2> DEFINE q == j - 1
  <2> HIDE DEF q, Bad
  <2>4. /\ q \in Nat /\ PlacedTo(s, n, q, f[q]) /\ f[j] = f[q] \o s[q + 1]
        /\ s[q + 1] \in Seq(0 .. 255) /\ Len(s[q + 1]) = n
    BY <2>1, <2>2, <2>3 DEF q
  <2> DEFINE r == s[q + 1]
  <2>5. PlacedTo(s, n, q + 1, f[j])
    <3>1. q \in Nat /\ PlacedTo(s, n, q, f[q]) /\ r = s[q + 1] /\ r \in Seq(0 .. 255) /\ Len(r) = n
          /\ f[j] = f[q] \o r
      BY <2>4
    <3> HIDE DEF r
    <3> QED
      BY <3>1, RowBehind
  <2> QED
    BY <1>3, <2>1, <2>5 DEF q
<1> QED
  BY <1>5, <1>6

\* The whole of the rows behind one another.
LEMMA FlattenIs ==
    ASSUME NEW n \in Nat \ {0}, NEW m \in Nat \ {0}, NEW s, DOMAIN s = 1 .. m, Len(s) = m,
           \A i \in 1 .. m : s[i] \in Seq(0 .. 255) /\ Len(s[i]) = n
    PROVE  PlacedTo(s, n, m, FlattenSeq(s))
<1> DEFINE f == CHOOSE flatten : flatten = [i \in 1 .. m |-> IF i = 1 THEN s[i] ELSE flatten[i - 1] \o s[i]]
<1>1. FlattenSeq(s) = f[m]
  BY DEF FlattenSeq
<1>2. f = [i \in 1 .. m |-> IF i = 1 THEN s[i] ELSE f[i - 1] \o s[i]]
  <2>1. \E g : g = [i \in 1 .. m |-> IF i = 1 THEN s[i] ELSE g[i - 1] \o s[i]]
    BY FlatExists DEF FlatTo
  <2> QED
    BY <2>1
<1> HIDE DEF f
<1>3. FlatTo(s, f, m)
  BY <1>2 DEF FlatTo
<1>4. m \in 1 .. m
  OBVIOUS
<1>5. PlacedTo(s, n, m, f[m])
  BY <1>3, <1>4, FlatIsPlaced
<1> QED
  BY <1>1, <1>5

\* A finite set of numbers that is not empty has a least and a greatest member.
LEMMA EndsOf ==
    ASSUME NEW S, S \subseteq Nat, IsFiniteSet(S), S # {}
    PROVE  /\ Min(S) \in S /\ Max(S) \in S
           /\ \A x \in S : Min(S) <= x /\ x <= Max(S)
<1> DEFINE n == Cardinality(S)
           t == Ascending(S)
<1>1. /\ t \in [1 .. n -> S] /\ n \in Nat
      /\ \A x, y \in 1 .. n : x < y => t[x] < t[y]
      /\ \A x \in S : \E k \in 1 .. n : t[k] = x
  BY AscendingIs DEF IsAscending
<1> HIDE DEF n, t
<1>2. n \in 1 .. n
  <2>1. PICK x \in S : TRUE
    OBVIOUS
  <2>2. PICK k \in 1 .. n : t[k] = x
    BY <1>1
  <2> QED
    BY <1>1, <2>2
<1>3. t[n] \in S
  BY <1>1, <1>2
<1>4. ASSUME NEW x \in S PROVE t[n] >= x
  <2>1. PICK k \in 1 .. n : t[k] = x
    BY <1>1
  <2>2. CASE k = n
    BY <1>3, <2>1, <2>2
  <2>3. CASE k < n
    <3>1. t[k] < t[n] /\ t[n] \in Nat /\ x \in Nat
      BY <1>1, <1>2, <1>3, <2>3
    <3> QED
      BY <2>1, <3>1
  <2> QED
    BY <1>1, <2>2, <2>3
<1>5. Max(S) \in S /\ \A x \in S : Max(S) >= x
  <2>1. \E m \in S : \A x \in S : m >= x
    BY <1>3, <1>4
  <2> QED
    BY <2>1 DEF Max
<1>6. Min(S) \in S /\ \A x \in S : Min(S) <= x
  <2>1. \E m \in S : \A x \in S : m <= x
    BY LeastOf
  <2> QED
    BY <2>1 DEF Min
<1>7. ASSUME NEW x \in S PROVE x <= Max(S)
  <2>1. Max(S) \in Nat /\ x \in Nat /\ Max(S) >= x
    BY <1>5
  <2> QED
    BY <2>1
<1> QED
  BY <1>5, <1>6, <1>7

\* Division with rest.
LEMMA DivMod ==
    ASSUME NEW x \in Nat, NEW n \in Nat \ {0}
    PROVE  x = n * (x \div n) + (x % n) /\ x % n \in 0 .. n - 1 /\ x \div n \in Nat
OBVIOUS

\* Division keeps the order.
LEMMA DivOrder ==
    ASSUME NEW x \in Nat, NEW y \in Nat, NEW n \in Nat \ {0}, x <= y
    PROVE  x \div n <= y \div n
OBVIOUS

\* The row at a is one of m rows of n bytes from b on.
Numbered(a, b, n, m) == \E x \in 1 .. m : a = b + (x - 1) * n

\* The number of rows reaches the last one: a row that lies a number of rows behind the
\* first is one of them.
LEMMA RowsReach ==
    ASSUME NEW b \in Nat, NEW e \in Nat, NEW a \in Nat, b <= a, a <= e, NEW n \in Nat \ {0},
           NEW m, m = (e - b + n - 1) \div n + 1
    PROVE  /\ m \in Nat \ {0}
           /\ (a - b) % n = 0 => Numbered(a, b, n, m)
<1>1. a - b \in Nat /\ e - b + n - 1 \in Nat /\ a - b <= e - b + n - 1
  OBVIOUS
<1> DEFINE d == a - b
           f == e - b + n - 1
           q == d \div n
           r == f \div n
           z == d % n
<1> HIDE DEF d, f
<1>2. d = n * q + z /\ q \in Nat /\ r \in Nat /\ q <= r
  BY <1>1, DivMod, DivOrder DEF d, f
<1>3. m = r + 1
  BY DEF f
<1> HIDE DEF q, r, z
<1>4. r + 1 \in Nat \ {0} /\ q + 1 \in 1 .. r + 1
  BY <1>2
<1>5. ASSUME z = 0 PROVE a = b + ((q + 1) - 1) * n
  <2>1. ((q + 1) - 1) * n = n * q /\ n * q \in Nat
    BY <1>2
  <2>2. d = n * q
    BY <1>2, <1>5, <2>1
  <2>3. a = b + d
    BY DEF d
  <2> QED
    BY <2>1, <2>2, <2>3
<1>6. ASSUME z = 0 PROVE \E x \in 1 .. m : a = b + (x - 1) * n
  <2>1. q + 1 \in 1 .. m
    BY Zenon, <1>3, <1>4
  <2>2. a = b + ((q + 1) - 1) * n
    BY <1>5, <1>6
  <2> WITNESS q + 1 \in 1 .. m
  <2> QED
    BY <2>2
<1>7. z = (a - b) % n
  BY DEF z, d
<1> QED
  BY <1>3, <1>4, <1>6, <1>7 DEF Numbered

\* With rows of full length the block holds, at every place, the byte of that address, or
\* zero where the file has none, whatever the rows and wherever they lie.
THEOREM BlobsArePlaced == FileSpec => []BlobIsPlaced
<1>1. FileInv => BlobIsPlaced
  <2> SUFFICES ASSUME FileInv, stage = "joined", Full
               PROVE  /\ \A a \in {b \in DOMAIN parsed : Aligned(b)} :
                            \A k \in 1 .. RowLen : /\ a - Base + k \in DOMAIN blob
                                                   /\ blob[a - Base + k] = parsed[a][k]
                      /\ \A p \in DOMAIN blob :
                            blob[p] # 0 => \E a \in DOMAIN parsed : \E k \in 1 .. RowLen :
                                              p = a - Base + k /\ blob[p] = parsed[a][k]
    BY DEF BlobIsPlaced
  <2> DEFINE D == DOMAIN parsed
             rows == [i \in 1 .. Rows |-> RowAt(Base + (i - 1) * RowLen)]
             b == Base
             n == RowLen
             m == Rows
  <2>1. /\ what = "mem" /\ D \subseteq Nat /\ IsFiniteSet(D) /\ parsed = [x \in D |-> parsed[x]]
        /\ \A x \in D : parsed[x] \in Seq(0 .. 255) /\ Len(parsed[x]) = n
        /\ blob = IF parsed = <<>> THEN <<>> ELSE FlattenSeq(rows)
    BY DEF FileInv, RowsTyped, BlobIs, Reading, Latest, Full
  <2>2. n \in Nat \ {0}
    BY DumpFileAssumption
  <2>3. CASE D = {}
    <3>1. parsed = <<>>
      BY <2>1, <2>3
    <3>2. DOMAIN blob = {}
      BY <2>1, <3>1
    <3> QED
      BY <2>3, <3>2
  <2>4. CASE D # {}
    <3>1. b \in D /\ Max(D) \in D /\ \A x \in D : b <= x /\ x <= Max(D)
      BY <2>1, <2>4, EndsOf DEF Base
    <3>2. m \in Nat \ {0}
      <4>1. b \in Nat /\ Max(D) \in Nat /\ b <= Max(D) /\ b <= b
        BY <2>1, <3>1
      <4> HIDE DEF b, n
      <4>2. m = (Max(D) - b + n - 1) \div n + 1
        BY DEF Rows, b, n
      <4> HIDE DEF m, D
      <4> QED
        BY <2>2, <4>1, <4>2, RowsReach
    <3>3. ASSUME NEW x PROVE RowAt(x) \in Seq(0 .. 255) /\ Len(RowAt(x)) = n
      <4>1. CASE x \in D
        BY <2>1, <4>1 DEF RowAt
      <4>2. CASE x \notin D
        <5>1. RowAt(x) = [k \in 1 .. n |-> 0]
          BY <4>2 DEF RowAt
        <5> HIDE DEF n
        <5> QED
          BY <2>2, <5>1
      <4> QED
        BY <4>1, <4>2
    <3>4. /\ DOMAIN rows = 1 .. m /\ Len(rows) = m
          /\ \A x \in 1 .. m : rows[x] = RowAt(b + (x - 1) * n)
      <4> HIDE DEF m, n, b
      <4>1. rows = [i \in 1 .. m |-> RowAt(b + (i - 1) * n)]
        BY DEF m, n, b
      <4> HIDE DEF rows
      <4> QED
        BY <3>2, <4>1
    <3> HIDE DEF rows, m, n, b
    <3>5. PlacedTo(rows, n, m, FlattenSeq(rows))
      BY <2>2, <3>2, <3>3, <3>4, FlattenIs
    <3>6. blob = FlattenSeq(rows)
      <4>1. parsed # <<>>
        BY <2>4
      <4> QED
        BY <2>1, <4>1
    <3>7. /\ DOMAIN blob = 1 .. m * n
          /\ \A x \in 1 .. m : \A k \in 1 .. n :
                (x - 1) * n + k \in 1 .. m * n /\ blob[(x - 1) * n + k] = RowAt(b + (x - 1) * n)[k]
          /\ \A p \in 1 .. m * n : \E x \in 1 .. m : \E k \in 1 .. n : p = (x - 1) * n + k
      <4>1. blob \in Seq(0 .. 255) /\ Len(blob) = m * n
        BY <3>5, <3>6 DEF PlacedTo
      <4>2. DOMAIN blob = 1 .. m * n
        BY <4>1
      <4> DEFINE F == FlattenSeq(rows)
      <4>3. blob = F
        BY <3>6
      <4>4. PlacedTo(rows, n, m, F)
        BY <3>5
      <4> HIDE DEF F, D
      <4>5. \A p \in 1 .. m * n : \E x \in 1 .. m : \E k \in 1 .. n : p = (x - 1) * n + k
        BY Zenon, <4>4 DEF PlacedTo
      <4>6. \A x \in 1 .. m : \A k \in 1 .. n :
               (x - 1) * n + k \in 1 .. m * n /\ F[(x - 1) * n + k] = rows[x][k]
        BY Zenon, <4>4 DEF PlacedTo
      <4>7. ASSUME NEW x \in 1 .. m, NEW k \in 1 .. n
            PROVE  (x - 1) * n + k \in 1 .. m * n /\ blob[(x - 1) * n + k] = RowAt(b + (x - 1) * n)[k]
        BY Zenon, <3>4, <4>3, <4>6
      <4> QED
        BY Zenon, <4>2, <4>5, <4>7
    <3>8. ASSUME NEW a \in D, Aligned(a), NEW k \in 1 .. n
          PROVE  a - b + k \in DOMAIN blob /\ blob[a - b + k] = parsed[a][k]
      <4>1. b \in Nat /\ Max(D) \in Nat /\ a \in Nat /\ b <= a /\ a <= Max(D) /\ (a - b) % n = 0
        BY <2>1, <3>1, <3>8 DEF Aligned, b, n
      <4>2. m = (Max(D) - b + n - 1) \div n + 1
        BY DEF Rows, m, b, n
      <4>8. \E x \in 1 .. m : a = b + (x - 1) * n
        <5> HIDE DEF D
        <5>1. Numbered(a, b, n, m)
          BY <2>2, <4>1, <4>2, RowsReach
        <5> QED
          BY <5>1 DEF Numbered
      <4>3. PICK x \in 1 .. m : a = b + (x - 1) * n
        BY <4>8
      <4> DEFINE g == (x - 1) * n
      <4>4. g \in Int
        BY <2>2, <3>2, <4>3
      <4>5. g + k \in 1 .. m * n /\ blob[g + k] = RowAt(b + g)[k] /\ a = b + g
        BY <3>7, <4>3
      <4> HIDE DEF g
      <4>6. a - b + k = g + k
        BY <4>1, <4>4, <4>5
      <4>7. RowAt(b + g) = parsed[a]
        BY <4>5 DEF RowAt
      <4> QED
        BY <3>7, <4>5, <4>6, <4>7
    <3>9. ASSUME NEW p \in DOMAIN blob, blob[p] # 0
          PROVE  \E a \in D : \E k \in 1 .. n : p = a - b + k /\ blob[p] = parsed[a][k]
      <4>1. PICK x \in 1 .. m, k \in 1 .. n : p = (x - 1) * n + k
        BY <3>7
      <4> DEFINE g == (x - 1) * n
      <4>2. g \in Int
        BY <2>2, <3>2, <4>1
      <4>3. p = g + k /\ blob[p] = RowAt(b + g)[k]
        BY <3>7, <4>1
      <4> HIDE DEF g
      <4>4. b + g \in D
        <5> SUFFICES ASSUME b + g \notin D PROVE FALSE
          OBVIOUS
        <5>1. RowAt(b + g) = [y \in 1 .. n |-> 0]
          BY DEF RowAt, n
        <5> QED
          BY <3>9, <4>1, <4>3, <5>1
      <4>5. RowAt(b + g) = parsed[b + g]
        BY <4>4 DEF RowAt
      <4>6. p = (b + g) - b + k
        <5>1. b \in Nat
          BY <2>1, <3>1
        <5> QED
          BY <4>1, <4>2, <4>3, <5>1
      <4> QED
        BY <4>1, <4>3, <4>4, <4>5, <4>6
    <3> QED
      BY <3>8, <3>9 DEF b, n
  <2> QED
    BY <2>3, <2>4
<1> QED
  BY FileInvariant, <1>1, PTL
-----------------------------------------------------------------------------
(* The report on a live hub: its spans.                                    *)

In(x, s) == \E j \in 1 .. Len(s) : s[j] = x

\* What one of two lists holds both hold behind one another.
LEMMA InJoined ==
    ASSUME NEW X, NEW s \in Seq(X), NEW t \in Seq(X), NEW x, In(x, s) \/ In(x, t)
    PROVE  In(x, s \o t)
<1> DEFINE g == s \o t
<1>1. Len(s) \in Nat /\ Len(t) \in Nat /\ Len(g) = Len(s) + Len(t)
  OBVIOUS
<1>2. \A j \in 1 .. Len(s) : g[j] = s[j]
  OBVIOUS
<1>3. \A j \in 1 .. Len(t) : g[Len(s) + j] = t[j]
  OBVIOUS
<1> HIDE DEF g
<1>4. CASE In(x, s)
  <2>1. PICK j \in 1 .. Len(s) : s[j] = x
    BY <1>4 DEF In
  <2>2. j \in 1 .. Len(g) /\ g[j] = x
    BY <1>1, <1>2, <2>1
  <2>3. In(x, g)
    BY <2>2 DEF In
  <2> QED
    BY <2>3 DEF g
<1>5. CASE In(x, t)
  <2>1. PICK j \in 1 .. Len(t) : t[j] = x
    BY <1>5 DEF In
  <2>2. Len(s) + j \in 1 .. Len(g) /\ g[Len(s) + j] = x
    BY <1>1, <1>3, <2>1
  <2>3. In(x, g)
    BY <2>2 DEF In
  <2> QED
    BY <2>3 DEF g
<1> QED
  BY <1>4, <1>5

\* A span: a unit, a first word and a number of words.
SpanOf == Unit \X Nat \X (Nat \ {0})

\* A span with a timing of a stream holds all of it and begins four words or a multiple
\* in front of it; one with a timing of an output is that timing.
WholeStream(s) == s[1][1] = "rfrm" => s[2] % 4 = 0 /\ (s[2] + s[3] <= 12 \/ s[2] + s[3] >= 16)
WholeOutput(s) == s[1][1] = "tx" => s[2] + s[3] <= 50 \/ (s[2] = 50 /\ s[3] = 3)

StreamSpans == {s \in SpanOf : WholeStream(s)}
OutputSpans == {s \in StreamSpans : WholeOutput(s) /\ s[1] # <<"tx", 1>>}

\* The spans of a stream.
LEMMA StreamIs ==
    ASSUME NEW x \in Index, NEW n \in Nat \ {0}
    PROVE  /\ Stream(x, n) \in Seq(OutputSpans)
           /\ In(<<<<"rfrm", x>>, 0, 17>>, Stream(x, n)) /\ In(<<<<"dsc", x>>, 0, n>>, Stream(x, n))
<1> DEFINE a == <<<<"rfrm", x>>, 0, 17>>
           b == <<<<"dsc", x>>, 0, n>>
<1>1. a \in OutputSpans
  BY DEF OutputSpans, StreamSpans, SpanOf, WholeStream, WholeOutput, Unit
<1>2. b \in OutputSpans
  BY DEF OutputSpans, StreamSpans, SpanOf, WholeStream, WholeOutput, Unit
<1>3. Stream(x, n) = <<a, b>>
  BY DEF Stream
<1> HIDE DEF a, b
<1>4. <<a, b>> \in Seq(OutputSpans) /\ Len(<<a, b>>) = 2 /\ <<a, b>>[1] = a /\ <<a, b>>[2] = b
  BY <1>1, <1>2
<1>5. In(a, <<a, b>>) /\ In(b, <<a, b>>)
  BY <1>4 DEF In
<1> QED
  BY <1>3, <1>4, <1>5 DEF a, b

\* The spans of an output in the summary.
LEMMA OutputIs ==
    ASSUME NEW x \in {0, 2}
    PROVE  /\ Output(x) \in Seq(OutputSpans)
           /\ In(<<<<"tx", x>>, 0, 1>>, Output(x)) /\ In(<<<<"tx", x>>, 20, 1>>, Output(x))
           /\ In(<<<<"tx", x>>, 50, 3>>, Output(x))
<1> DEFINE a == <<<<"tx", x>>, 0, 1>>
           b == <<<<"tx", x>>, 20, 1>>
           c == <<<<"tx", x>>, 50, 3>>
<1>1. a \in OutputSpans
  BY DEF OutputSpans, StreamSpans, SpanOf, WholeStream, WholeOutput, Unit, Index
<1>2. b \in OutputSpans
  BY DEF OutputSpans, StreamSpans, SpanOf, WholeStream, WholeOutput, Unit, Index
<1>3. c \in OutputSpans
  BY DEF OutputSpans, StreamSpans, SpanOf, WholeStream, WholeOutput, Unit, Index
<1>4. Output(x) = <<a, b, c>>
  BY DEF Output
<1> HIDE DEF a, b, c
<1>5. /\ <<a, b, c>> \in Seq(OutputSpans) /\ Len(<<a, b, c>>) = 3
      /\ <<a, b, c>>[1] = a /\ <<a, b, c>>[2] = b /\ <<a, b, c>>[3] = c
  BY <1>1, <1>2, <1>3
<1>6. In(a, <<a, b, c>>) /\ In(b, <<a, b, c>>) /\ In(c, <<a, b, c>>)
  BY <1>5 DEF In
<1> QED
  BY <1>4, <1>5, <1>6 DEF a, b, c

\* The spans of the summary.
LEMMA SummaryIs ==
    /\ SummarySpans \in Seq(OutputSpans)
    /\ In(<<<<"rx", 0>>, 0, 1>>, SummarySpans) /\ In(<<<<"rx", 0>>, 496, 1>>, SummarySpans)
    /\ \A x \in Index : In(<<<<"rfrm", x>>, 0, 17>>, SummarySpans)
    /\ In(<<<<"dsc", 0>>, 0, 6>>, SummarySpans)
    /\ \A x \in {1, 2} : In(<<<<"dsc", x>>, 0, 1>>, SummarySpans)
    /\ \A x \in {0, 2} : /\ In(<<<<"tx", x>>, 0, 1>>, SummarySpans) /\ In(<<<<"tx", x>>, 20, 1>>, SummarySpans)
                         /\ In(<<<<"tx", x>>, 50, 3>>, SummarySpans)
<1> DEFINE r == RxSpans
           a == Stream(0, 6)
           b == Stream(1, 1)
           c == Stream(2, 1)
           d == Output(0)
           e == Output(2)
           S == Seq(OutputSpans)
<1>1. r \in S /\ In(<<<<"rx", 0>>, 0, 1>>, r) /\ In(<<<<"rx", 0>>, 496, 1>>, r)
  <2> DEFINE f == <<<<"rx", 0>>, 0, 1>>
             g == <<<<"rx", 0>>, 496, 1>>
  <2>1. f \in OutputSpans
    BY DEF OutputSpans, StreamSpans, SpanOf, WholeStream, WholeOutput, Unit
  <2>2. g \in OutputSpans
    BY DEF OutputSpans, StreamSpans, SpanOf, WholeStream, WholeOutput, Unit
  <2>3. r = <<f, g>>
    BY DEF RxSpans
  <2> HIDE DEF f, g
  <2>4. <<f, g>> \in S /\ Len(<<f, g>>) = 2 /\ <<f, g>>[1] = f /\ <<f, g>>[2] = g
    BY <2>1, <2>2
  <2>5. In(f, <<f, g>>) /\ In(g, <<f, g>>)
    BY <2>4 DEF In
  <2> QED
    BY <2>3, <2>4, <2>5 DEF f, g
<1>2. a \in S /\ b \in S /\ c \in S
  <2>1. 0 \in Index /\ 1 \in Index /\ 2 \in Index /\ 6 \in Nat \ {0} /\ 1 \in Nat \ {0}
    BY DEF Index
  <2> QED
    BY Zenon, <2>1, StreamIs
<1>3. d \in S /\ e \in S
  BY OutputIs
<1>4. SummarySpans = r \o a \o b \o c \o d \o e
  BY DEF SummarySpans
<1>5. /\ In(<<<<"rfrm", 0>>, 0, 17>>, a) /\ In(<<<<"dsc", 0>>, 0, 6>>, a)
      /\ In(<<<<"rfrm", 1>>, 0, 17>>, b) /\ In(<<<<"dsc", 1>>, 0, 1>>, b)
      /\ In(<<<<"rfrm", 2>>, 0, 17>>, c) /\ In(<<<<"dsc", 2>>, 0, 1>>, c)
  BY StreamIs DEF Index
<1>6. /\ In(<<<<"tx", 0>>, 0, 1>>, d) /\ In(<<<<"tx", 0>>, 20, 1>>, d) /\ In(<<<<"tx", 0>>, 50, 3>>, d)
      /\ In(<<<<"tx", 2>>, 0, 1>>, e) /\ In(<<<<"tx", 2>>, 20, 1>>, e) /\ In(<<<<"tx", 2>>, 50, 3>>, e)
  BY OutputIs
<1> HIDE DEF r, a, b, c, d, e
<1> DEFINE ra == r \o a
           rb == ra \o b
           rc == rb \o c
           rd == rc \o d
           re == rd \o e
<1>7. ra \in S /\ rb \in S /\ rc \in S /\ rd \in S /\ re \in S
  BY <1>1, <1>2, <1>3, Together
<1>8. \A x : (In(x, r) \/ In(x, a) => In(x, ra)) /\ (In(x, ra) \/ In(x, b) => In(x, rb))
             /\ (In(x, rb) \/ In(x, c) => In(x, rc)) /\ (In(x, rc) \/ In(x, d) => In(x, rd))
             /\ (In(x, rd) \/ In(x, e) => In(x, re))
  BY <1>1, <1>2, <1>3, <1>7, InJoined
<1>9. SummarySpans = re
  BY <1>4
<1> HIDE DEF ra, rb, rc, rd, re
<1>10. \A x : In(x, r) \/ In(x, a) \/ In(x, b) \/ In(x, c) \/ In(x, d) \/ In(x, e) => In(x, SummarySpans)
  BY <1>8, <1>9
<1>11. \A x \in Index : In(<<<<"rfrm", x>>, 0, 17>>, SummarySpans)
  BY <1>5, <1>10 DEF Index
<1>12. \A x \in {1, 2} : In(<<<<"dsc", x>>, 0, 1>>, SummarySpans)
  BY <1>5, <1>10
<1>13. \A x \in {0, 2} : /\ In(<<<<"tx", x>>, 0, 1>>, SummarySpans) /\ In(<<<<"tx", x>>, 20, 1>>, SummarySpans)
                         /\ In(<<<<"tx", x>>, 50, 3>>, SummarySpans)
  BY <1>6, <1>10
<1> QED
  BY <1>1, <1>5, <1>7, <1>9, <1>10, <1>11, <1>12, <1>13


\* The spans of dump.txt.
LEMMA DumpIs ==
    /\ DumpSpans \in Seq(StreamSpans)
    /\ In(<<<<"rx", 0>>, 0, 4>>, DumpSpans) /\ In(<<<<"rx", 0>>, 496, 10>>, DumpSpans)
    /\ \A x \in Index : /\ In(<<<<"rfrm", x>>, 0, 7>>, DumpSpans)
                        /\ In(<<<<"rfrm", x>>, 8, 37>>, DumpSpans) /\ In(<<<<"dsc", x>>, 0, 32>>, DumpSpans)
                        /\ In(<<<<"tx", x>>, 0, 10>>, DumpSpans) /\ In(<<<<"tx", x>>, 11, 11>>, DumpSpans)
                        /\ In(<<<<"tx", x>>, 24, 47>>, DumpSpans)
<1> DEFINE S == Seq(StreamSpans)
<1>1. ASSUME NEW x \in Index
      PROVE  /\ DumpStream(x) \in S
             /\ In(<<<<"rfrm", x>>, 0, 7>>, DumpStream(x))
             /\ In(<<<<"rfrm", x>>, 8, 37>>, DumpStream(x)) /\ In(<<<<"dsc", x>>, 0, 32>>, DumpStream(x))
  <2> DEFINE f == <<<<"rfrm", x>>, 0, 7>>
             g == <<<<"rfrm", x>>, 8, 37>>
             h == <<<<"dsc", x>>, 0, 32>>
  <2>1. f \in StreamSpans
    BY DEF StreamSpans, SpanOf, WholeStream, Unit
  <2>2. g \in StreamSpans
    BY DEF StreamSpans, SpanOf, WholeStream, Unit
  <2>3. h \in StreamSpans
    BY DEF StreamSpans, SpanOf, WholeStream, Unit
  <2>4. DumpStream(x) = <<f, g, h>>
    BY DEF DumpStream
  <2> HIDE DEF f, g, h
  <2>5. <<f, g, h>> \in S /\ Len(<<f, g, h>>) = 3 /\ <<f, g, h>>[1] = f /\ <<f, g, h>>[2] = g /\ <<f, g, h>>[3] = h
    BY <2>1, <2>2, <2>3
  <2>6. In(f, <<f, g, h>>) /\ In(g, <<f, g, h>>) /\ In(h, <<f, g, h>>)
    BY <2>5 DEF In
  <2> QED
    BY <2>4, <2>5, <2>6 DEF f, g, h
<1>2. ASSUME NEW x \in Index
      PROVE  /\ DumpOutput(x) \in S
             /\ In(<<<<"tx", x>>, 0, 10>>, DumpOutput(x)) /\ In(<<<<"tx", x>>, 11, 11>>, DumpOutput(x))
             /\ In(<<<<"tx", x>>, 24, 47>>, DumpOutput(x))
  <2> DEFINE f == <<<<"tx", x>>, 0, 10>>
             g == <<<<"tx", x>>, 11, 11>>
             h == <<<<"tx", x>>, 24, 47>>
  <2>1. f \in StreamSpans
    BY DEF StreamSpans, SpanOf, WholeStream, Unit
  <2>2. g \in StreamSpans
    BY DEF StreamSpans, SpanOf, WholeStream, Unit
  <2>3. h \in StreamSpans
    BY DEF StreamSpans, SpanOf, WholeStream, Unit
  <2>4. DumpOutput(x) = <<f, g, h>>
    BY DEF DumpOutput
  <2> HIDE DEF f, g, h
  <2>5. <<f, g, h>> \in S /\ Len(<<f, g, h>>) = 3 /\ <<f, g, h>>[1] = f /\ <<f, g, h>>[2] = g /\ <<f, g, h>>[3] = h
    BY <2>1, <2>2, <2>3
  <2>6. In(f, <<f, g, h>>) /\ In(g, <<f, g, h>>) /\ In(h, <<f, g, h>>)
    BY <2>5 DEF In
  <2> QED
    BY <2>4, <2>5, <2>6 DEF f, g, h
<1> DEFINE f == <<<<"rx", 0>>, 0, 4>>
           g == <<<<"rx", 0>>, 496, 10>>
           r == <<f, g>>
           a == DumpStream(0)
           b == DumpStream(1)
           c == DumpStream(2)
           d == DumpOutput(0)
           e == DumpOutput(1)
           h == DumpOutput(2)
<1>3. r \in S /\ In(f, r) /\ In(g, r)
  <2>1. f \in StreamSpans
    BY DEF StreamSpans, SpanOf, WholeStream, Unit
  <2>2. g \in StreamSpans
    BY DEF StreamSpans, SpanOf, WholeStream, Unit
  <2> HIDE DEF f, g
  <2>3. r \in S /\ Len(r) = 2 /\ r[1] = f /\ r[2] = g
    BY <2>1, <2>2
  <2> QED
    BY <2>3 DEF In
<1>4. 0 \in Index /\ 1 \in Index /\ 2 \in Index /\ \A x \in Index : x = 0 \/ x = 1 \/ x = 2
  BY DEF Index
<1>5. a \in S /\ b \in S /\ c \in S /\ d \in S /\ e \in S /\ h \in S
  BY <1>1, <1>2, <1>4
<1>6. DumpSpans = r \o a \o b \o c \o d \o e \o h
  BY DEF DumpSpans
<1> HIDE DEF f, g, r, a, b, c, d, e, h
<1> DEFINE ra == r \o a
           rb == ra \o b
           rc == rb \o c
           rd == rc \o d
           re == rd \o e
           rh == re \o h
<1>7. ra \in S /\ rb \in S /\ rc \in S /\ rd \in S /\ re \in S /\ rh \in S
  BY <1>3, <1>5, Together
<1>8. \A x : (In(x, r) \/ In(x, a) => In(x, ra)) /\ (In(x, ra) \/ In(x, b) => In(x, rb))
             /\ (In(x, rb) \/ In(x, c) => In(x, rc)) /\ (In(x, rc) \/ In(x, d) => In(x, rd))
             /\ (In(x, rd) \/ In(x, e) => In(x, re)) /\ (In(x, re) \/ In(x, h) => In(x, rh))
  BY <1>3, <1>5, <1>7, InJoined
<1>9. DumpSpans = rh
  BY <1>6
<1> HIDE DEF ra, rb, rc, rd, re, rh
<1>10. \A x : In(x, r) \/ In(x, a) \/ In(x, b) \/ In(x, c) \/ In(x, d) \/ In(x, e) \/ In(x, h) => In(x, DumpSpans)
  BY <1>8, <1>9
<1>11. ASSUME NEW x \in Index, NEW s
       PROVE  (In(s, DumpStream(x)) => In(s, DumpSpans)) /\ (In(s, DumpOutput(x)) => In(s, DumpSpans))
  BY <1>4, <1>10 DEF a, b, c, d, e, h
<1>12. \A x \in Index : /\ In(<<<<"rfrm", x>>, 0, 7>>, DumpSpans)
                        /\ In(<<<<"rfrm", x>>, 8, 37>>, DumpSpans) /\ In(<<<<"dsc", x>>, 0, 32>>, DumpSpans)
                        /\ In(<<<<"tx", x>>, 0, 10>>, DumpSpans) /\ In(<<<<"tx", x>>, 11, 11>>, DumpSpans)
                        /\ In(<<<<"tx", x>>, 24, 47>>, DumpSpans)
  BY Zenon, <1>1, <1>2, <1>11
<1>13. In(f, DumpSpans) /\ In(g, DumpSpans) /\ DumpSpans \in S
  BY <1>3, <1>7, <1>9, <1>10
<1> QED
  BY Zenon, <1>12, <1>13 DEF f, g

\* Every span of a plan, as far as it matters.
LEMMA SpansAre ==
    ASSUME NEW p \in Plan
    PROVE  /\ Spans[p] \in Seq(StreamSpans) /\ DOMAIN Spans[p] = 1 .. Len(Spans[p]) /\ Len(Spans[p]) \in Nat
           /\ \A j \in DOMAIN Spans[p] : Spans[p][j] \in StreamSpans
           /\ p = "summary" => \A j \in DOMAIN Spans[p] : Spans[p][j] \in OutputSpans
           /\ \A x : In(x, IF p = "summary" THEN SummarySpans ELSE DumpSpans) =>
                        \E j \in DOMAIN Spans[p] : Spans[p][j] = x
<1> DEFINE s == Spans[p]
<1>1. s = IF p = "summary" THEN SummarySpans ELSE DumpSpans
  BY DEF Spans
<1>2. CASE p = "summary"
  <2>1. s = SummarySpans /\ s \in Seq(OutputSpans)
    BY <1>1, <1>2, SummaryIs
  <2> HIDE DEF s
  <2>2. DOMAIN s = 1 .. Len(s) /\ Len(s) \in Nat /\ \A j \in DOMAIN s : s[j] \in OutputSpans
    BY <2>1
  <2>3. \A j \in DOMAIN s : s[j] \in StreamSpans
    BY <2>2 DEF OutputSpans
  <2>4. s \in Seq(StreamSpans)
    BY <2>1, <2>2, <2>3
  <2> QED
    BY <1>2, <2>1, <2>2, <2>3, <2>4 DEF s, In
<1>3. CASE p # "summary"
  <2>1. s = DumpSpans /\ s \in Seq(StreamSpans)
    BY <1>1, <1>3, DumpIs
  <2> HIDE DEF s
  <2>2. DOMAIN s = 1 .. Len(s) /\ Len(s) \in Nat /\ \A j \in DOMAIN s : s[j] \in StreamSpans
    BY <2>1
  <2> QED
    BY <1>3, <2>1, <2>2 DEF s, In
<1> QED
  BY <1>2, <1>3


\* Word w of unit u is in a chunk of plan p.
IsRead(p, u, w) == \E c \in ChunksOfPlan[p] : <<u, w>> \in Words(Spans[p][c[1]], c[2])

\* A chunk is one of a span, and its words are of the unit of that span.
LEMMA ChunkIs ==
    ASSUME NEW p \in Plan, NEW c \in ChunksOfPlan[p]
    PROVE  /\ c[1] \in DOMAIN Spans[p] /\ c[2] \in Nat /\ Spans[p][c[1]] \in StreamSpans
           /\ \A r \in Words(Spans[p][c[1]], c[2]) :
                 \E w \in Decoded(Spans[p][c[1]][1]) : r = <<Spans[p][c[1]][1], w>>
<1> DEFINE s == Spans[p]
<1>1. PICK j \in DOMAIN s : \E k \in ChunksOf(s[j]) : c = <<j, k>>
  <2>1. c \in UNION {{<<j, k>> : k \in {h \in ChunksOf(s[j]) : Words(s[j], h) # {}}} : j \in DOMAIN s}
    BY DEF ChunksOfPlan
  <2> HIDE DEF s
  <2> QED
    BY <2>1
<1>2. PICK k \in ChunksOf(s[j]) : c = <<j, k>>
  BY <1>1
<1>3. c[1] = j /\ c[2] = k /\ k \in Nat
  BY <1>2 DEF ChunksOf
<1>4. s[j] \in StreamSpans
  BY SpansAre
<1> HIDE DEF s
<1>5. \A r \in Words(s[j], k) : \E w \in Decoded(s[j][1]) : r = <<s[j][1], w>>
  BY DEF Words
<1> QED
  BY <1>1, <1>3, <1>4, <1>5 DEF s

\* A word that a span holds is in one of its chunks.
LEMMA SpanIsRead ==
    ASSUME NEW p \in Plan, NEW u \in Unit, NEW first \in Nat, NEW n \in Nat \ {0}, NEW w \in Decoded(u),
           In(<<u, first, n>>, IF p = "summary" THEN SummarySpans ELSE DumpSpans),
           w \in Nat, first <= w, w < first + n
    PROVE  IsRead(p, u, w)
<1>1. PICK j \in DOMAIN Spans[p] : Spans[p][j] = <<u, first, n>>
  BY SpansAre
<1> DEFINE s == Spans[p][j]
<1>2. s[1] = u /\ s[2] = first /\ s[3] = n
  BY <1>1
<1>3. Window \in Nat \ {0}
  BY LiveAssumption
<1> DEFINE v == Window
           k == (w - first) \div v
           z == (w - first) % v
<1>4. w - first = v * k + z /\ z \in 0 .. v - 1 /\ k \in Nat /\ k <= (n - 1) \div v
  <2>1. w - first \in Nat /\ n - 1 \in Nat /\ w - first <= n - 1
    OBVIOUS
  <2> HIDE DEF v
  <2> QED
    BY <1>3, <2>1, DivMod, DivOrder DEF v
<1> HIDE DEF k, z
<1>5. k \in ChunksOf(s)
  <2>1. (n - 1) \div v \in Nat
    <3>1. n - 1 \in Nat /\ v \in Nat \ {0}
      BY <1>3
    <3> HIDE DEF v
    <3> QED
      BY <3>1, DivMod
  <2>2. k \in 0 .. (n - 1) \div v
    BY <1>4, <2>1
  <2> QED
    BY <1>2, <2>2 DEF ChunksOf
<1>6. first + k * v <= w /\ w < first + (k + 1) * v
  <2> HIDE DEF v
  <2>1. v \in Nat
    BY <1>3 DEF v
  <2>2. (k + 1) * v = k * v + v /\ v * k = k * v /\ k * v \in Nat
    BY <1>4, <2>1
  <2> DEFINE f == k * v
             g == (k + 1) * v
             h == v * k
  <2>3. g = f + v /\ h = f /\ f \in Nat /\ w - first = h + z /\ z \in 0 .. v - 1
    BY <1>4, <2>2
  <2> HIDE DEF f, g, h
  <2>4. first + f <= w /\ w < first + g
    BY <2>1, <2>3
  <2> QED
    BY <2>4 DEF f, g
<1>7. <<u, w>> \in Words(s, k)
  <2> HIDE DEF s
  <2>1. w \in {x \in Decoded(s[1]) : s[2] + k * Window <= x /\ x < s[2] + (k + 1) * Window /\ x < s[2] + s[3]}
    BY <1>2, <1>6
  <2> QED
    BY <1>2, <2>1 DEF Words
<1> DEFINE c == <<j, k>>
<1>8. c \in ChunksOfPlan[p]
  <2>1. k \in {h \in ChunksOf(s) : Words(s, h) # {}}
    BY <1>5, <1>7
  <2>2. c \in {<<j, h>> : h \in {h \in ChunksOf(s) : Words(s, h) # {}}}
    BY <2>1
  <2> HIDE DEF c
  <2> QED
    BY <2>2 DEF ChunksOfPlan
<1>9. c[1] = j /\ c[2] = k
  OBVIOUS
<1> HIDE DEF c
<1> QED
  BY <1>7, <1>8, <1>9 DEF IsRead

\* With the chip's window the timing of a stream is in one chunk, and so is, in the
\* summary, the timing of an output.
LEMMA TimingInOne ==
    ASSUME Window = 4, NEW p \in Plan, NEW c \in ChunksOfPlan[p], NEW x \in Index
    PROVE  /\ \/ \A w \in TimingWords : <<<<"rfrm", x>>, w>> \in Words(Spans[p][c[1]], c[2])
              \/ \A w \in TimingWords : <<<<"rfrm", x>>, w>> \notin Words(Spans[p][c[1]], c[2])
           /\ p = "summary" =>
                 \/ \A w \in TxTimingWords : <<<<"tx", x>>, w>> \in Words(Spans[p][c[1]], c[2])
                 \/ \A w \in TxTimingWords : <<<<"tx", x>>, w>> \notin Words(Spans[p][c[1]], c[2])
<1> DEFINE s == Spans[p][c[1]]
           k == c[2]
           first == s[2] + k * 4
           end == s[2] + s[3]
<1>1. s \in StreamSpans /\ k \in Nat /\ (p = "summary" => s \in OutputSpans)
  BY ChunkIs, SpansAre
<1>2. s[2] \in Nat /\ s[3] \in Nat /\ WholeStream(s) /\ (p = "summary" => WholeOutput(s))
  BY <1>1 DEF StreamSpans, OutputSpans, SpanOf
<1>3. \A u, w : <<u, w>> \in Words(s, k) <=> /\ s[1] = u /\ w \in Decoded(u)
                                             /\ first <= w /\ w < s[2] + (k + 1) * 4 /\ w < end
  BY DEF Words
<1>4. s[2] + (k + 1) * 4 = first + 4 /\ first \in Nat /\ end \in Nat
  BY <1>1, <1>2
<1> HIDE DEF s, k
<1>5. \/ \A w \in TimingWords : <<<<"rfrm", x>>, w>> \in Words(s, k)
      \/ \A w \in TimingWords : <<<<"rfrm", x>>, w>> \notin Words(s, k)
  <2>1. CASE s[1] # <<"rfrm", x>>
    BY <1>3, <2>1
  <2>2. CASE s[1] = <<"rfrm", x>>
    <3>1. s[2] % 4 = 0 /\ (end <= 12 \/ end >= 16)
      BY <1>2, <2>2 DEF WholeStream
    <3>2. first % 4 = 0
      BY <1>1, <1>2, <3>1
    <3> HIDE DEF first, end
    <3>3. \A w \in TimingWords : (first <= w /\ w < first + 4 /\ w < end) <=> first = 12 /\ end >= 16
      BY <1>4, <3>1, <3>2 DEF TimingWords
    <3>4. \A w \in TimingWords : w \in Decoded(<<"rfrm", x>>)
      BY DEF Decoded
    <3> QED
      BY <1>3, <1>4, <2>2, <3>3, <3>4
  <2> QED
    BY <2>1, <2>2
<1>6. ASSUME p = "summary"
      PROVE  \/ \A w \in TxTimingWords : <<<<"tx", x>>, w>> \in Words(s, k)
             \/ \A w \in TxTimingWords : <<<<"tx", x>>, w>> \notin Words(s, k)
  <2>1. CASE s[1] # <<"tx", x>>
    BY <1>3, <2>1
  <2>2. CASE s[1] = <<"tx", x>>
    <3>1. end <= 50 \/ (s[2] = 50 /\ end = 53)
      BY <1>2, <1>6, <2>2 DEF WholeOutput
    <3>2. \A w \in TxTimingWords : w \in {50, 52}
      BY DEF TxTimingWords
    <3>3. \A w \in TxTimingWords : (first <= w /\ w < first + 4 /\ w < end) <=> k = 0 /\ end = 53
      <4>1. CASE end <= 50
        <5> HIDE DEF first, end
        <5> QED
          BY <1>4, <3>2, <4>1
      <4>2. CASE s[2] = 50 /\ end = 53 /\ k = 0
        <5>1. first = 50
          BY <4>2
        <5> HIDE DEF first, end
        <5> QED
          BY <3>2, <4>2, <5>1
      <4>3. CASE s[2] = 50 /\ end = 53 /\ k # 0
        <5>1. first >= 54
          BY <1>1, <4>3
        <5> HIDE DEF first, end
        <5> QED
          BY <1>4, <3>2, <4>3, <5>1
      <4> QED
        BY <3>1, <4>1, <4>2, <4>3
    <3>4. \A w \in TxTimingWords : w \in Decoded(<<"tx", x>>)
      BY DEF Decoded
    <3> HIDE DEF first, end
    <3> QED
      BY <1>3, <1>4, <2>2, <3>3, <3>4
  <2> QED
    BY <2>1, <2>2
<1> QED
  BY <1>5, <1>6 DEF s, k
-----------------------------------------------------------------------------
(* The report on a live hub: the invariant.                                *)

Modes == {"off", "idle", "on", "dp", "hdmi"}

LiveTypes ==
    /\ plan \in Plan /\ status \in {"reading", "done", "raised"}
    /\ mode \in [Unit -> Modes] /\ (\A u \in Unit : mode[u] \in Mode(u))
    /\ held \in [Unit -> SUBSET Modes] /\ \A u \in Unit : mode[u] \in held[u]
    /\ todo \subseteq ChunksOfPlan[plan]
    /\ status = "done" => todo = {}

\* What was read is what the chunks read hold, each word as its unit was at some moment.
GotThem ==
    /\ DOMAIN got = UNION {Chunk(c) : c \in ChunksOfPlan[plan] \ todo}
    /\ \A r \in DOMAIN got : r[1] \in Unit /\ \E m \in held[r[1]] : got[r] = Shown(r[1], r[2], m)

\* Words of a unit were not read, or at one moment.
AtOnce(u, ws) ==
    \/ \A w \in ws : <<u, w>> \notin DOMAIN got
    \/ \E m \in held[u] : \A w \in ws : <<u, w>> \in DOMAIN got /\ got[<<u, w>>] = Shown(u, w, m)

Untorn ==
    Window = 4 =>
        \A x \in Index : /\ AtOnce(<<"rfrm", x>>, TimingWords)
                         /\ plan = "summary" => AtOnce(<<"tx", x>>, TxTimingWords)

LiveInv == LiveTypes /\ GotThem /\ Untorn

\* The words of a chunk are registers.
LEMMA ChunkOf ==
    ASSUME plan \in Plan, NEW c \in ChunksOfPlan[plan], NEW r \in Chunk(c)
    PROVE  r \in Register /\ r[1] \in Unit /\ r = <<r[1], r[2]>>
<1> DEFINE s == Spans[plan][c[1]]
<1>1. PICK w \in Decoded(s[1]) : r = <<s[1], w>>
  BY ChunkIs DEF Chunk
<1>2. s[1] \in Unit
  <2>1. s \in StreamSpans
    BY ChunkIs
  <2> HIDE DEF s
  <2> QED
    BY <2>1 DEF StreamSpans, SpanOf
<1> HIDE DEF s
<1> QED
  BY <1>1, <1>2 DEF Register

LEMMA LiveInitKeeps == LiveInit => LiveInv
<1> SUFFICES ASSUME LiveInit PROVE LiveInv
  OBVIOUS
<1>1. mode \in [Unit -> Modes] /\ \A u \in Unit : mode[u] \in Mode(u)
  <2>1. \E live, on : /\ \A u \in live : on[u] \in Mode(u)
                      /\ mode = [u \in Unit |-> IF u \in live THEN on[u] ELSE "off"]
    BY DEF LiveInit
  <2>2. \A u : Mode(u) \subseteq Modes /\ "off" \in Mode(u)
    BY DEF Mode, Modes, Dark
  <2> QED
    BY <2>1, <2>2 DEF Modes
<1>2. held = [u \in Unit |-> {mode[u]}] /\ plan \in Plan /\ todo = ChunksOfPlan[plan]
      /\ got = <<>> /\ status = "reading"
  BY DEF LiveInit
<1>3. LiveTypes
  BY <1>1, <1>2 DEF LiveTypes
<1>4. DOMAIN got = {}
  BY <1>2
<1>5. GotThem
  BY <1>2, <1>4 DEF GotThem
<1>6. Untorn
  BY <1>4 DEF Untorn, AtOnce
<1> QED
  BY <1>3, <1>5, <1>6 DEF LiveInv

\* Words that a chunk holds all or none of stay read at once.
LEMMA AtOnceStays ==
    ASSUME LiveTypes, NEW c, NEW u \in Unit, NEW ws, AtOnce(u, ws),
           got' = [r \in DOMAIN got \cup Chunk(c) |-> IF r \in Chunk(c) THEN Chip[r] ELSE got[r]],
           held' = held,
           \A w \in ws : <<u, w>> \in Register,
           \/ \A w \in ws : <<u, w>> \in Chunk(c)
           \/ \A w \in ws : <<u, w>> \notin Chunk(c)
    PROVE  AtOnce(u, ws)'
<1> DEFINE C == Chunk(c)
<1>1. DOMAIN got' = DOMAIN got \cup C
      /\ \A r \in DOMAIN got' : got'[r] = IF r \in C THEN Chip[r] ELSE got[r]
  OBVIOUS
<1> HIDE DEF C
<1>2. CASE \A w \in ws : <<u, w>> \in C
  <2>1. \A w \in ws : Chip[<<u, w>>] = Shown(u, w, mode[u])
    BY DEF Chip
  <2>2. mode[u] \in held'[u]
    BY DEF LiveTypes
  <2>3. \A w \in ws : <<u, w>> \in DOMAIN got' /\ got'[<<u, w>>] = Shown(u, w, mode[u])
    BY <1>1, <1>2, <2>1
  <2> QED
    BY <2>2, <2>3 DEF AtOnce
<1>3. CASE \A w \in ws : <<u, w>> \notin C
  <2>1. \A w \in ws : /\ <<u, w>> \in DOMAIN got' <=> <<u, w>> \in DOMAIN got
                      /\ <<u, w>> \in DOMAIN got => got'[<<u, w>>] = got[<<u, w>>]
    BY <1>1, <1>3
  <2> QED
    BY <2>1 DEF AtOnce
<1> QED
  BY <1>2, <1>3 DEF C

LEMMA ReadChunkKeeps == ASSUME LiveInv, ReadChunk PROVE LiveInv'
<1>1. PICK c \in todo :
          /\ got' = [r \in DOMAIN got \cup Chunk(c) |-> IF r \in Chunk(c) THEN Chip[r] ELSE got[r]]
          /\ todo' = todo \ {c}
  BY DEF ReadChunk
<1>2. plan' = plan /\ mode' = mode /\ status' = status /\ held' = held /\ status = "reading"
  BY DEF ReadChunk
<1>3. LiveTypes /\ plan \in Plan /\ c \in ChunksOfPlan[plan] /\ todo \subseteq ChunksOfPlan[plan]
  BY DEF LiveInv, LiveTypes
<1>4. LiveTypes'
  <2>1. todo' \subseteq ChunksOfPlan[plan]
    BY <1>1, <1>3
  <2> QED
    BY <1>2, <1>3, <2>1 DEF LiveTypes
<1>5. \A d : Chunk(d)' = Chunk(d)
  BY <1>2 DEF Chunk
<1>6. GotThem'
  <2> DEFINE C == ChunksOfPlan[plan]
             R == Chunk(c)
  <2>1. DOMAIN got' = DOMAIN got \cup R /\ \A r \in DOMAIN got' : got'[r] = IF r \in R THEN Chip[r] ELSE got[r]
    BY <1>1
  <2>2. DOMAIN got = UNION {Chunk(d) : d \in C \ todo}
    BY DEF LiveInv, GotThem
  <2> HIDE DEF R
  <2>3. (C \ todo') = (C \ todo) \cup {c}
    BY <1>1, <1>3
  <2>4. DOMAIN got' = UNION {Chunk(d) : d \in C \ todo'}
    BY <2>1, <2>2, <2>3 DEF R
  <2>5. ASSUME NEW r \in DOMAIN got'
        PROVE  r[1] \in Unit /\ \E m \in held[r[1]] : got'[r] = Shown(r[1], r[2], m)
    <3>1. CASE r \in R
      <4>1. r \in Register /\ r[1] \in Unit
        BY <1>3, <3>1, ChunkOf DEF R
      <4>2. got'[r] = Shown(r[1], r[2], mode[r[1]])
        BY <2>1, <3>1, <4>1 DEF Chip
      <4> QED
        BY <1>3, <4>1, <4>2 DEF LiveTypes
    <3>2. CASE r \notin R
      BY <2>1, <3>2 DEF LiveInv, GotThem
    <3> QED
      BY <3>1, <3>2
  <2>6. DOMAIN got' = UNION {Chunk(d)' : d \in ChunksOfPlan[plan'] \ todo'}
    BY <1>2, <1>5, <2>4
  <2> QED
    BY <1>2, <2>5, <2>6 DEF GotThem
<1>7. Untorn'
  <2> SUFFICES ASSUME Window = 4, NEW x \in Index
               PROVE  /\ AtOnce(<<"rfrm", x>>, TimingWords)'
                      /\ plan = "summary" => AtOnce(<<"tx", x>>, TxTimingWords)'
    BY <1>2 DEF Untorn
  <2>1. <<"rfrm", x>> \in Unit /\ <<"tx", x>> \in Unit
    BY DEF Unit
  <2>2. /\ \A w \in TimingWords : <<<<"rfrm", x>>, w>> \in Register
        /\ \A w \in TxTimingWords : <<<<"tx", x>>, w>> \in Register
    BY <2>1 DEF Register, Decoded
  <2>3. /\ \/ \A w \in TimingWords : <<<<"rfrm", x>>, w>> \in Chunk(c)
           \/ \A w \in TimingWords : <<<<"rfrm", x>>, w>> \notin Chunk(c)
        /\ plan = "summary" =>
              \/ \A w \in TxTimingWords : <<<<"tx", x>>, w>> \in Chunk(c)
              \/ \A w \in TxTimingWords : <<<<"tx", x>>, w>> \notin Chunk(c)
    BY <1>3, TimingInOne DEF Chunk
  <2>4. AtOnce(<<"rfrm", x>>, TimingWords) /\ (plan = "summary" => AtOnce(<<"tx", x>>, TxTimingWords))
    BY DEF LiveInv, Untorn
  <2>5. AtOnce(<<"rfrm", x>>, TimingWords)'
    BY <1>1, <1>2, <1>3, <2>1, <2>2, <2>3, <2>4, AtOnceStays
  <2>6. ASSUME plan = "summary" PROVE AtOnce(<<"tx", x>>, TxTimingWords)'
    BY <1>1, <1>2, <1>3, <2>1, <2>2, <2>3, <2>4, <2>6, AtOnceStays
  <2> QED
    BY <2>5, <2>6
<1> QED
  BY <1>4, <1>6, <1>7 DEF LiveInv

LEMMA ReconfigureKeeps == ASSUME LiveInv, Reconfigure PROVE LiveInv'
<1>1. PICK u \in Unit : \E m \in Mode(u) \ {mode[u]} :
          mode' = [mode EXCEPT ![u] = m] /\ held' = [held EXCEPT ![u] = @ \cup {m}]
  BY DEF Reconfigure
<1>2. PICK m \in Mode(u) : mode' = [mode EXCEPT ![u] = m] /\ held' = [held EXCEPT ![u] = @ \cup {m}]
  BY <1>1
<1>3. plan' = plan /\ todo' = todo /\ got' = got /\ status' = status
  BY DEF Reconfigure
<1>4. LiveTypes
  BY DEF LiveInv
<1>5. m \in Modes
  BY DEF Mode, Modes, Dark
<1>6. /\ mode' \in [Unit -> Modes] /\ held' \in [Unit -> SUBSET Modes]
      /\ \A v \in Unit : /\ mode'[v] \in Mode(v)
                         /\ mode'[v] \in held'[v] /\ held[v] \subseteq held'[v]
  BY <1>2, <1>4, <1>5 DEF LiveTypes
<1>7. LiveTypes'
  BY <1>3, <1>4, <1>6 DEF LiveTypes
<1>8. \A d : Chunk(d)' = Chunk(d)
  BY <1>3 DEF Chunk
<1>9. GotThem'
  <2>1. DOMAIN got' = UNION {Chunk(d)' : d \in ChunksOfPlan[plan'] \ todo'}
    BY <1>3, <1>8 DEF LiveInv, GotThem
  <2>2. ASSUME NEW r \in DOMAIN got
        PROVE  r[1] \in Unit /\ \E n \in held'[r[1]] : got[r] = Shown(r[1], r[2], n)
    BY <1>6 DEF LiveInv, GotThem
  <2> QED
    BY <1>3, <2>1, <2>2 DEF GotThem
<1>10. ASSUME NEW v \in Unit, NEW ws, AtOnce(v, ws) PROVE AtOnce(v, ws)'
  BY <1>3, <1>6, <1>10 DEF AtOnce
<1>11. Untorn'
  <2>1. \A x \in Index : <<"rfrm", x>> \in Unit /\ <<"tx", x>> \in Unit
    BY DEF Unit
  <2> QED
    BY <1>3, <1>10, <2>1 DEF LiveInv, Untorn
<1> QED
  BY <1>7, <1>9, <1>11 DEF LiveInv

\* The other steps read nothing.
LEMMA LiveRests ==
    ASSUME LiveInv, ChunkFails \/ Decode \/ UNCHANGED liveVars
    PROVE  LiveInv'
<1>1. /\ plan' = plan /\ mode' = mode /\ todo' = todo /\ got' = got /\ held' = held
      /\ status' \in {status, "done", "raised"} /\ (status' = "done" => status = "done" \/ todo = {})
  BY DEF ChunkFails, Decode, liveVars
<1>2. LiveTypes'
  BY <1>1 DEF LiveInv, LiveTypes
<1>3. GotThem'
  BY <1>1 DEF LiveInv, GotThem, Chunk
<1>4. Untorn'
  BY <1>1 DEF LiveInv, Untorn, AtOnce
<1> QED
  BY <1>2, <1>3, <1>4 DEF LiveInv

\* What is read of a live hub, for any window and any number of changes.
THEOREM LiveInvariant == LiveSpec => []LiveInv
<1>1. LiveInit => LiveInv
  BY LiveInitKeeps
<1>2. LiveInv /\ [LiveNext]_liveVars => LiveInv'
  BY ReadChunkKeeps, ReconfigureKeeps, LiveRests DEF LiveNext
<1> QED
  BY <1>1, <1>2, PTL DEF LiveSpec
-----------------------------------------------------------------------------
(* The report on a live hub: what it says.                                 *)

\* What decode_all needs of a unit is among the words that are read.
LEMMA NeededIsRead ==
    ASSUME plan \in Plan
    PROVE  /\ IsRead(plan, <<"rx", 0>>, 0) /\ IsRead(plan, <<"rx", 0>>, 496)
           /\ \A x \in Index : /\ \A w \in {0} \cup TimingWords : IsRead(plan, <<"rfrm", x>>, w)
                               /\ IsRead(plan, <<"dsc", x>>, 0)
           /\ \A x \in CompressionShown : \A w \in ParamWords : IsRead(plan, <<"dsc", x>>, w)
           /\ \A x \in OutputsShown : \A w \in {0, 20} \cup TxTimingWords : IsRead(plan, <<"tx", x>>, w)
<1> DEFINE S == IF plan = "summary" THEN SummarySpans ELSE DumpSpans
<1>1. ASSUME NEW u \in Unit, NEW first \in Nat, NEW n \in Nat \ {0}, In(<<u, first, n>>, S),
             NEW w \in Nat, w \in Decoded(u), first <= w, w < first + n
      PROVE  IsRead(plan, u, w)
  BY <1>1, SpanIsRead
<1>2. /\ <<"rx", 0>> \in Unit
      /\ \A x \in Index : <<"rfrm", x>> \in Unit /\ <<"dsc", x>> \in Unit /\ <<"tx", x>> \in Unit
  BY DEF Unit
<1>3. /\ 0 \in Decoded(<<"rx", 0>>) /\ 496 \in Decoded(<<"rx", 0>>)
      /\ \A x : /\ \A w \in {0} \cup TimingWords : w \in Decoded(<<"rfrm", x>>)
                /\ \A w \in {0} \cup ParamWords : w \in Decoded(<<"dsc", x>>)
                /\ \A w \in {0, 20} \cup TxTimingWords : w \in Decoded(<<"tx", x>>)
  BY DEF Decoded
<1>4. /\ \A w \in TimingWords : w \in Nat /\ 12 <= w /\ w <= 15
      /\ \A w \in ParamWords : w \in Nat /\ 2 <= w /\ w <= 5
      /\ \A w \in TxTimingWords : w = 50 \/ w = 52
  BY DEF TimingWords, ParamWords, TxTimingWords
<1>5. plan = "summary" => S = SummarySpans
  OBVIOUS
<1>6. plan # "summary" => plan = "dump" /\ S = DumpSpans
  BY DEF Plan
<1> HIDE DEF S
<1>7. IsRead(plan, <<"rx", 0>>, 0) /\ IsRead(plan, <<"rx", 0>>, 496)
  <2>1. CASE plan = "summary"
    <3>1. In(<<<<"rx", 0>>, 0, 1>>, S) /\ In(<<<<"rx", 0>>, 496, 1>>, S)
      BY <1>5, <2>1, SummaryIs
    <3> QED
      BY <1>1, <1>2, <1>3, <3>1
  <2>2. CASE plan # "summary"
    <3>1. In(<<<<"rx", 0>>, 0, 4>>, S) /\ In(<<<<"rx", 0>>, 496, 10>>, S)
      BY <1>6, <2>2, DumpIs
    <3> QED
      BY <1>1, <1>2, <1>3, <3>1
  <2> QED
    BY <2>1, <2>2
<1>8. ASSUME NEW x \in Index, NEW w \in TimingWords
      PROVE  IsRead(plan, <<"rfrm", x>>, w)
  <2>1. CASE plan = "summary"
    <3>1. In(<<<<"rfrm", x>>, 0, 17>>, S)
      BY <1>5, SummaryIs, <2>1
    <3>2. <<"rfrm", x>> \in Unit /\ w \in Decoded(<<"rfrm", x>>)
      BY <1>2, <1>3
    <3>3. w \in Nat /\ 0 \in Nat /\ 17 \in Nat \ {0} /\ 0 <= w /\ w < 0 + 17
      BY <1>4
    <3> QED
      BY Zenon, <1>1, <3>1, <3>2, <3>3
  <2>2. CASE plan # "summary"
    <3>1. In(<<<<"rfrm", x>>, 8, 37>>, S)
      BY <1>6, DumpIs, <2>2
    <3>2. <<"rfrm", x>> \in Unit /\ w \in Decoded(<<"rfrm", x>>)
      BY <1>2, <1>3
    <3>3. w \in Nat /\ 8 \in Nat /\ 37 \in Nat \ {0} /\ 8 <= w /\ w < 8 + 37
      BY <1>4
    <3> QED
      BY Zenon, <1>1, <3>1, <3>2, <3>3
  <2> QED
    BY <2>1, <2>2
<1>12. ASSUME NEW x \in Index
       PROVE  IsRead(plan, <<"rfrm", x>>, 0)
  <2>1. <<"rfrm", x>> \in Unit /\ 0 \in Decoded(<<"rfrm", x>>)
    BY <1>2, <1>3
  <2>2. CASE plan = "summary"
    <3>1. In(<<<<"rfrm", x>>, 0, 17>>, S)
      BY <1>5, SummaryIs, <2>2
    <3>2. 0 \in Nat /\ 17 \in Nat \ {0} /\ 0 <= 0 /\ 0 < 0 + 17
      OBVIOUS
    <3> QED
      BY Zenon, <1>1, <2>1, <3>1, <3>2
  <2>3. CASE plan # "summary"
    <3>1. In(<<<<"rfrm", x>>, 0, 7>>, S)
      BY <1>6, DumpIs, <2>3
    <3>2. 0 \in Nat /\ 7 \in Nat \ {0} /\ 0 <= 0 /\ 0 < 0 + 7
      OBVIOUS
    <3> QED
      BY Zenon, <1>1, <2>1, <3>1, <3>2
  <2> QED
    BY <2>2, <2>3
<1>9. ASSUME NEW x \in Index
      PROVE  IsRead(plan, <<"dsc", x>>, 0)
  <2>1. CASE plan = "summary" /\ x = 0
    <3>1. In(<<<<"dsc", x>>, 0, 6>>, S)
      BY <1>5, SummaryIs, <2>1
    <3>2. <<"dsc", x>> \in Unit /\ 0 \in Decoded(<<"dsc", x>>)
      BY <1>2, <1>3
    <3>3. 0 \in Nat /\ 0 \in Nat /\ 6 \in Nat \ {0} /\ 0 <= 0 /\ 0 < 0 + 6
      BY <1>4
    <3> QED
      BY Zenon, <1>1, <3>1, <3>2, <3>3
  <2>2. CASE plan = "summary" /\ x # 0
    <3>0. x \in {1, 2}
      BY <2>2 DEF Index
    <3>1. In(<<<<"dsc", x>>, 0, 1>>, S)
      BY <1>5, SummaryIs, <2>2, <3>0
    <3>2. <<"dsc", x>> \in Unit /\ 0 \in Decoded(<<"dsc", x>>)
      BY <1>2, <1>3
    <3>3. 0 \in Nat /\ 0 \in Nat /\ 1 \in Nat \ {0} /\ 0 <= 0 /\ 0 < 0 + 1
      BY <1>4
    <3> QED
      BY Zenon, <1>1, <3>1, <3>2, <3>3
  <2>3. CASE plan # "summary"
    <3>1. In(<<<<"dsc", x>>, 0, 32>>, S)
      BY <1>6, DumpIs, <2>3
    <3>2. <<"dsc", x>> \in Unit /\ 0 \in Decoded(<<"dsc", x>>)
      BY <1>2, <1>3
    <3>3. 0 \in Nat /\ 0 \in Nat /\ 32 \in Nat \ {0} /\ 0 <= 0 /\ 0 < 0 + 32
      BY <1>4
    <3> QED
      BY Zenon, <1>1, <3>1, <3>2, <3>3
  <2> QED
    BY <2>1, <2>2, <2>3
<1>10. ASSUME NEW x \in CompressionShown, NEW w \in ParamWords
      PROVE  IsRead(plan, <<"dsc", x>>, w)
  <2>1. CASE plan = "summary"
    <3>0. x = 0 /\ x \in Index
      BY <2>1 DEF CompressionShown, Index
    <3>1. In(<<<<"dsc", x>>, 0, 6>>, S)
      BY <1>5, SummaryIs, <2>1, <3>0
    <3>2. <<"dsc", x>> \in Unit /\ w \in Decoded(<<"dsc", x>>)
      BY <1>2, <1>3, <3>0
    <3>3. w \in Nat /\ 0 \in Nat /\ 6 \in Nat \ {0} /\ 0 <= w /\ w < 0 + 6
      BY <1>4
    <3> QED
      BY Zenon, <1>1, <3>1, <3>2, <3>3
  <2>2. CASE plan # "summary"
    <3>0. x \in Index
      BY <1>6, <2>2 DEF CompressionShown
    <3>1. In(<<<<"dsc", x>>, 0, 32>>, S)
      BY <1>6, DumpIs, <2>2, <3>0
    <3>2. <<"dsc", x>> \in Unit /\ w \in Decoded(<<"dsc", x>>)
      BY <1>2, <1>3, <3>0
    <3>3. w \in Nat /\ 0 \in Nat /\ 32 \in Nat \ {0} /\ 0 <= w /\ w < 0 + 32
      BY <1>4
    <3> QED
      BY Zenon, <1>1, <3>1, <3>2, <3>3
  <2> QED
    BY <2>1, <2>2
<1>11. ASSUME NEW x \in OutputsShown, NEW w \in {0, 20} \cup TxTimingWords
       PROVE  IsRead(plan, <<"tx", x>>, w)
  <2>1. w = 0 \/ w = 20 \/ w = 50 \/ w = 52
    BY <1>4
  <2>2. CASE plan = "summary"
    <3>1. x \in {0, 2} /\ x \in Index
      BY <2>2 DEF OutputsShown, Index
    <3>2. In(<<<<"tx", x>>, 0, 1>>, S) /\ In(<<<<"tx", x>>, 20, 1>>, S) /\ In(<<<<"tx", x>>, 50, 3>>, S)
      BY <1>5, <2>2, <3>1, SummaryIs
    <3>3. <<"tx", x>> \in Unit /\ w \in Decoded(<<"tx", x>>)
      BY <1>2, <1>3, <3>1
    <3>4. CASE w = 0
      <4>1. w \in Nat /\ 0 \in Nat /\ 1 \in Nat \ {0} /\ 0 <= w /\ w < 0 + 1
        BY <3>4
      <4> QED
        BY Zenon, <1>1, <3>2, <3>3, <4>1
    <3>5. CASE w = 20
      <4>1. w \in Nat /\ 20 \in Nat /\ 1 \in Nat \ {0} /\ 20 <= w /\ w < 20 + 1
        BY <3>5
      <4> QED
        BY Zenon, <1>1, <3>2, <3>3, <4>1
    <3>6. CASE w = 50 \/ w = 52
      <4>1. w \in Nat /\ 50 \in Nat /\ 3 \in Nat \ {0} /\ 50 <= w /\ w < 50 + 3
        BY <3>6
      <4> QED
        BY Zenon, <1>1, <3>2, <3>3, <4>1
    <3> QED
      BY <2>1, <3>4, <3>5, <3>6
  <2>3. CASE plan # "summary"
    <3>1. x \in Index
      BY <1>6, <2>3 DEF OutputsShown
    <3>2. In(<<<<"tx", x>>, 0, 10>>, S) /\ In(<<<<"tx", x>>, 11, 11>>, S) /\ In(<<<<"tx", x>>, 24, 47>>, S)
      BY <1>6, <2>3, <3>1, DumpIs
    <3>3. <<"tx", x>> \in Unit /\ w \in Decoded(<<"tx", x>>)
      BY <1>2, <1>3, <3>1
    <3>4. CASE w = 0
      <4>1. w \in Nat /\ 0 \in Nat /\ 10 \in Nat \ {0} /\ 0 <= w /\ w < 0 + 10
        BY <3>4
      <4> QED
        BY Zenon, <1>1, <3>2, <3>3, <4>1
    <3>5. CASE w = 20
      <4>1. w \in Nat /\ 11 \in Nat /\ 11 \in Nat \ {0} /\ 11 <= w /\ w < 11 + 11
        BY <3>5
      <4> QED
        BY Zenon, <1>1, <3>2, <3>3, <4>1
    <3>6. CASE w = 50 \/ w = 52
      <4>1. w \in Nat /\ 24 \in Nat /\ 47 \in Nat \ {0} /\ 24 <= w /\ w < 24 + 47
        BY <3>6
      <4> QED
        BY Zenon, <1>1, <3>2, <3>3, <4>1
    <3> QED
      BY <2>1, <3>4, <3>5, <3>6
  <2> QED
    BY <2>2, <2>3
<1> QED
  BY <1>7, <1>8, <1>9, <1>10, <1>11, <1>12

\* When the report is made, every chunk has been read.
LEMMA ReadIsThere ==
    ASSUME LiveInv, Summarized, NEW u, NEW w, IsRead(plan, u, w)
    PROVE  <<u, w>> \in DOMAIN got
<1>1. DOMAIN got = UNION {Chunk(c) : c \in ChunksOfPlan[plan] \ todo} /\ todo = {}
  BY DEF LiveInv, LiveTypes, GotThem, Summarized
<1>2. PICK c \in ChunksOfPlan[plan] : <<u, w>> \in Words(Spans[plan][c[1]], c[2])
  BY DEF IsRead
<1>3. <<u, w>> \in Chunk(c)
  BY <1>2 DEF Chunk
<1> QED
  BY <1>1, <1>2, <1>3

\* A word of a unit that kept its mode shows it.
LEMMA SteadyWord ==
    ASSUME LiveInv, Summarized, NEW u \in Unit, NEW w \in Decoded(u), IsRead(plan, u, w), Steady(u)
    PROVE  Get(got, u, w) = Shown(u, w, mode[u])
<1> DEFINE r == <<u, w>>
<1>1. r \in DOMAIN got
  BY ReadIsThere
<1>2. r[1] = u /\ r[2] = w
  OBVIOUS
<1>3. PICK m \in held[u] : got[r] = Shown(u, w, m)
  BY <1>1, <1>2 DEF LiveInv, GotThem
<1>4. m = mode[u]
  BY <1>3 DEF Steady
<1> QED
  BY <1>1, <1>3, <1>4 DEF Get

\* The summary reads nothing of the second output.
LEMMA SecondUnread ==
    ASSUME LiveInv, plan = "summary", NEW w
    PROVE  Get(got, <<"tx", 1>>, w) = "off"
<1>1. DOMAIN got = UNION {Chunk(c) : c \in ChunksOfPlan[plan] \ todo} /\ plan \in Plan
  BY DEF LiveInv, LiveTypes, GotThem
<1>2. ASSUME NEW c \in ChunksOfPlan[plan], <<<<"tx", 1>>, w>> \in Chunk(c)
      PROVE  FALSE
  <2> DEFINE s == Spans[plan][c[1]]
  <2>1. s \in OutputSpans
    BY <1>1, ChunkIs, SpansAre
  <2>2. s[1] # <<"tx", 1>>
    <3> HIDE DEF s
    <3> QED
      BY <2>1 DEF OutputSpans
  <2>3. \E v \in Decoded(s[1]) : <<<<"tx", 1>>, w>> = <<s[1], v>>
    BY <1>1, <1>2, ChunkIs DEF Chunk
  <2> HIDE DEF s
  <2> QED
    BY <2>2, <2>3
<1>3. <<<<"tx", 1>>, w>> \notin DOMAIN got
  BY <1>1, <1>2
<1> QED
  BY <1>3 DEF Get

\* Of a unit that kept its mode the report says what the mode is, for every window
\* and however often the others change: decode_all looks only at words that were read.
LEMMA SteadyFollows == LiveInv => SteadyIsShown
<1> SUFFICES ASSUME LiveInv, Summarized PROVE SteadyIsShown
  BY DEF SteadyIsShown
<1>1. plan \in Plan /\ mode \in [Unit -> Modes]
  BY DEF LiveInv, LiveTypes
<1>2. ASSUME NEW u \in Unit, NEW w \in Decoded(u), IsRead(plan, u, w), Steady(u)
      PROVE  Get(got, u, w) = Shown(u, w, mode[u])
  BY <1>2, SteadyWord
<1>3. /\ <<"rx", 0>> \in Unit
      /\ \A x \in Index : <<"rfrm", x>> \in Unit /\ <<"dsc", x>> \in Unit /\ <<"tx", x>> \in Unit
  BY DEF Unit
<1>4. /\ 0 \in Decoded(<<"rx", 0>>) /\ 496 \in Decoded(<<"rx", 0>>)
      /\ \A x : /\ \A w \in {0} \cup TimingWords : w \in Decoded(<<"rfrm", x>>)
                /\ \A w \in {0} \cup ParamWords : w \in Decoded(<<"dsc", x>>)
                /\ \A w \in {0, 20} \cup TxTimingWords : w \in Decoded(<<"tx", x>>)
  BY DEF Decoded
<1>a. /\ \A u, m : Shown(u, 0, m) = m /\ Shown(u, 20, m) = m /\ Shown(u, 496, m) = m
      /\ \A u, m : \A w \in TxTimingWords : Shown(u, w, m) = IF m = "hdmi" THEN "off" ELSE m
  BY DEF Shown, TxTimingWords
<1>5. Steady(<<"rx", 0>>) =>
         ReadRxLink(got) = [lanes |-> mode[<<"rx", 0>>], rate |-> mode[<<"rx", 0>>]]
  BY <1>1, <1>2, <1>3, <1>4, <1>a, NeededIsRead DEF ReadRxLink
<1>6. ASSUME NEW x \in Index, Steady(<<"rfrm", x>>)
      PROVE  /\ ReadStream(got, x).ctrl = mode[<<"rfrm", x>>]
             /\ ReadStream(got, x).timing = [w \in TimingWords |-> mode[<<"rfrm", x>>]]
             /\ ReadStream(got, x).active = (mode[<<"rfrm", x>>] # "off")
  <2> DEFINE u == <<"rfrm", x>>
  <2>0. \A w \in {0} \cup TimingWords : Get(got, u, w) = Shown(u, w, mode[u])
    BY <1>1, <1>2, <1>3, <1>4, <1>6, NeededIsRead
  <2>b. \A w \in {0} \cup TimingWords : Shown(u, w, mode[u]) = mode[u]
    BY DEF Shown, TimingWords, TxTimingWords
  <2>1. \A w \in {0} \cup TimingWords : Get(got, u, w) = mode[u]
    BY <2>0, <2>b
  <2>2. ReadTiming(got, x) = [w \in TimingWords |-> mode[<<"rfrm", x>>]]
    BY <2>1 DEF ReadTiming
  <2>a. ReadTiming(got, x)[14] = mode[<<"rfrm", x>>]
    BY <2>2 DEF TimingWords
  <2>3. Active(ReadTiming(got, x)) = (mode[<<"rfrm", x>>] # "off")
    BY Zenon, <2>a DEF Active
  <2>4. /\ ReadStream(got, x).ctrl = Get(got, <<"rfrm", x>>, 0)
        /\ ReadStream(got, x).timing = ReadTiming(got, x)
        /\ ReadStream(got, x).active = Active(ReadTiming(got, x))
    BY DEF ReadStream
  <2>5. Get(got, <<"rfrm", x>>, 0) = mode[<<"rfrm", x>>]
    BY <2>1
  <2> QED
    BY Zenon, <2>2, <2>3, <2>4, <2>5
<1>7. ASSUME NEW x \in Index, Steady(<<"dsc", x>>)
      PROVE  Get(got, <<"dsc", x>>, 0) = mode[<<"dsc", x>>]
  <2>1. Get(got, <<"dsc", x>>, 0) = Shown(<<"dsc", x>>, 0, mode[<<"dsc", x>>])
    BY <1>1, <1>2, <1>3, <1>4, <1>7, NeededIsRead
  <2> QED
    BY <2>1 DEF Shown, TxTimingWords
<1>8. ASSUME NEW x \in Index, Steady(<<"dsc", x>>)
      PROVE  ReadDsc(got, x).enabled = (mode[<<"dsc", x>>] # "off")
  <2>1. ReadDsc(got, x).enabled = Enabled(Get(got, <<"dsc", x>>, 0))
    BY DEF ReadDsc
  <2>2. Get(got, <<"dsc", x>>, 0) = mode[<<"dsc", x>>]
    BY <1>7, <1>8
  <2> QED
    BY Zenon, <2>1, <2>2 DEF Enabled
<1>9. CompressionShown \subseteq Index /\ OutputsShown \subseteq Index
  BY DEF CompressionShown, OutputsShown, Index
<1>10. ASSUME NEW x \in CompressionShown, Steady(<<"dsc", x>>)
       PROVE  ReadDsc(got, x).params = [w \in ParamWords |-> mode[<<"dsc", x>>]]
  <2> DEFINE u == <<"dsc", x>>
  <2>0. \A w \in ParamWords : Get(got, u, w) = Shown(u, w, mode[u])
    BY <1>1, <1>2, <1>3, <1>4, <1>9, <1>10, NeededIsRead
  <2>b. \A w \in ParamWords : Shown(u, w, mode[u]) = mode[u]
    BY DEF Shown, ParamWords, TxTimingWords
  <2>1. \A w \in ParamWords : Get(got, u, w) = mode[u]
    BY <2>0, <2>b
  <2>2. Get(got, <<"dsc", x>>, 0) = mode[<<"dsc", x>>]
    BY <1>7, <1>9, <1>10
  <2> QED
    BY <2>1, <2>2 DEF ReadDsc, Enabled
<1>11. ASSUME NEW x \in OutputsShown, Steady(<<"tx", x>>)
       PROVE  ReadTx(got, x) = OutputIn(mode[<<"tx", x>>])
  <2> DEFINE u == <<"tx", x>>
             m == mode[u]
  <2>1. \A w \in {0, 20} \cup TxTimingWords : Get(got, u, w) = Shown(u, w, m)
    BY <1>1, <1>2, <1>3, <1>4, <1>9, <1>11, NeededIsRead
  <2>2. Get(got, u, 0) = m /\ Get(got, u, 20) = m
    BY <2>1, <1>a
  <2>b. \A w \in TxTimingWords : Shown(u, w, m) = IF m = "hdmi" THEN "off" ELSE m
    BY <1>a
  <2>3. \A w \in TxTimingWords : Get(got, u, w) = IF m = "hdmi" THEN "off" ELSE m
    <3> HIDE DEF u, m
    <3> QED
      BY Zenon, <2>1, <2>b
  <2>4. 50 \in TxTimingWords
    BY DEF TxTimingWords
  <2>5. m \in {"off", "idle", "dp", "hdmi"}
    BY <1>1, <1>3, <1>9 DEF LiveInv, LiveTypes, Mode, Dark
  <2>6. CASE m \in Dark
    BY <2>2, <2>6 DEF ReadTx, Idle, OutputIn, Dark
  <2>7. CASE m = "dp"
    BY <2>2, <2>3, <2>4, <2>7 DEF ReadTx, Idle, OutputIn, Dark
  <2>8. CASE m = "hdmi"
    BY <2>2, <2>3, <2>4, <2>8 DEF ReadTx, Idle, OutputIn, Dark
  <2> QED
    BY <2>5, <2>6, <2>7, <2>8 DEF Dark
<1>12. plan = "summary" => ReadTx(got, 1).kind = "off"
  <2> SUFFICES ASSUME plan = "summary" PROVE ReadTx(got, 1).kind = "off"
    OBVIOUS
  <2>1. Idle(got, <<"tx", 1>>)
    BY SecondUnread DEF Idle, Dark
  <2> QED
    BY <2>1 DEF ReadTx
<1> QED
  BY <1>5, <1>6, <1>8, <1>10, <1>11, <1>12 DEF SteadyIsShown

\* decode.py:192: of a unit that kept its mode the report says what the mode is; one
\* that bears the idle marker is off as an output, and active as a stream.
THEOREM SteadyIsReported == LiveSpec => []SteadyIsShown
<1> QED
  BY LiveInvariant, SteadyFollows, PTL

\* With the chip's window the four words of a stream's timing are of one moment, and in
\* the summary the two of an output's.
LEMMA UntornFollows == ASSUME Window = 4 PROVE LiveInv => TimingUntorn
<1> SUFFICES ASSUME LiveInv, Summarized, NEW x \in Index
             PROVE  /\ \E m \in held[<<"rfrm", x>>] : ReadTiming(got, x) = [w \in TimingWords |-> m]
                    /\ plan = "summary" => ReadTx(got, x).timing[50] = ReadTx(got, x).timing[52]
  BY DEF TimingUntorn
<1>1. plan \in Plan
  BY DEF LiveInv, LiveTypes
<1>2. \A w \in TimingWords : <<<<"rfrm", x>>, w>> \in DOMAIN got
  BY <1>1, NeededIsRead, ReadIsThere
<1>3. AtOnce(<<"rfrm", x>>, TimingWords) /\ (plan = "summary" => AtOnce(<<"tx", x>>, TxTimingWords))
  BY DEF LiveInv, Untorn
<1>4. 12 \in TimingWords
  BY DEF TimingWords
<1>5. PICK m \in held[<<"rfrm", x>>] : \A w \in TimingWords : got[<<<<"rfrm", x>>, w>>] = Shown(<<"rfrm", x>>, w, m)
  BY <1>2, <1>3, <1>4 DEF AtOnce
<1>6. \A w \in TimingWords : Shown(<<"rfrm", x>>, w, m) = m
  BY DEF Shown, TimingWords, TxTimingWords
<1>7. \A w \in TimingWords : Get(got, <<"rfrm", x>>, w) = m
  BY <1>2, <1>5, <1>6 DEF Get
<1>8. ReadTiming(got, x) = [w \in TimingWords |-> m]
  BY <1>7 DEF ReadTiming
<1>9. ASSUME plan = "summary"
      PROVE  ReadTx(got, x).timing[50] = ReadTx(got, x).timing[52]
  <2> DEFINE u == <<"tx", x>>
  <2>1. 50 \in TxTimingWords /\ 52 \in TxTimingWords /\ AtOnce(u, TxTimingWords)
    BY <1>3, <1>9 DEF TxTimingWords
  <2>2. \A n : Shown(u, 50, n) = Shown(u, 52, n)
    BY <2>1 DEF Shown
  <2>3. Get(got, u, 50) = Get(got, u, 52)
    <3> HIDE DEF u
    <3> QED
      BY <2>1, <2>2 DEF AtOnce, Get
  <2> HIDE DEF u
  <2> DEFINE none == [w \in TxTimingWords |-> "off"]
             all  == [w \in TxTimingWords |-> Get(got, u, w)]
  <2>4. ReadTx(got, x).timing \in {none, all}
    BY DEF ReadTx, u
  <2>5. none[50] = none[52] /\ all[50] = all[52]
    BY <2>1, <2>3
  <2> QED
    BY <2>4, <2>5
<1> QED
  BY <1>5, <1>8, <1>9

\* No timing in the report is of two moments, whatever changes while it is read.
THEOREM TimingsAreUntorn == Window = 4 => (LiveSpec => []TimingUntorn)
<1> SUFFICES ASSUME Window = 4 PROVE LiveSpec => []TimingUntorn
  OBVIOUS
<1>1. LiveInv => TimingUntorn
  BY UntornFollows
<1> QED
  BY <1>1, LiveInvariant, PTL
=============================================================================
