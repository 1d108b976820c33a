-------------------------- MODULE FirmwareProofs --------------------------
(***************************************************************************)
(* What trace.follow returns is the reachable code, for every image, and   *)
(* what is made of that map afterwards, for any vector table, cap and      *)
(* bound on a fingerprint: the map is still right when bodies or           *)
(* fingerprints are taken from it, what walks hold was reached by follow,  *)
(* and what loses the result.                                              *)
(*                                                                         *)
(* The argument for follow is the invariant FollowInv: what was decoded or *)
(* is pending (Covered) holds the entries read and the successors of       *)
(* everything that was decoded, and lies in every closed set.  When        *)
(* nothing is pending any more, what was decoded is itself closed, hence   *)
(* the least closed set.                                                   *)
(*                                                                         *)
(* Then fw.render, for every image: its section map, its strings and       *)
(* descriptors, and what loses the report.  The argument is ImageInv: the  *)
(* sections found lie one behind the other and the section in the making   *)
(* adjoins them, and the strings found are those that begin before i.      *)
(***************************************************************************)
EXTENDS FunctionBodies, FirmwareImage, WellFoundedInduction, TLAPS

\* Every instruction has one to three bytes.
LEMMA Lengths == \A op \in Byte : Length[op] \in 1 .. 3
BY DEF Length

\* An instruction with a target has at least one operand, an addr16 has two.
LEMMA BranchLengths ==
    \A op \in Byte :
        /\ op \in Addr16 => Length[op] = 3
        /\ Class[op] \in {"jump", "call", "branch"} => Length[op] >= 2
BY DEF Length, Class, Byte, Addr16, Addr11, Rel, BitRel, ImmRel, DirRel, Imm, Direct, Bit, TwoOps, Rn, Relative

\* The bytes of an image are numbers below 256.
LEMMA ByteAt ==
    ASSUME NEW image \in Seq(Byte), NEW z \in Nat, 1 <= z, z <= Len(image)
    PROVE  image[z] \in 0 .. 255
<1>1. z \in 1 .. Len(image)
  OBVIOUS
<1>2. image[z] \in Byte
  BY <1>1
<1> QED
  BY <1>2 DEF Byte

\* An addr16 is an address.
LEMMA Absolute16 == \A x, y \in 0 .. 255 : 256 * x + y \in Nat
OBVIOUS

\* An addr11 is an address.
LEMMA Absolute11 == \A u, v, w \in Nat : ((2048 * u) % 65536) + 256 * v + w \in Nat
<1> SUFFICES ASSUME NEW u \in Nat, NEW v \in Nat, NEW w \in Nat
             PROVE  ((2048 * u) % 65536) + 256 * v + w \in Nat
  OBVIOUS
<1>1. 2048 * u \in Nat
  OBVIOUS
<1>2. (2048 * u) % 65536 \in Nat
  BY <1>1
<1> QED
  BY <1>2

\* A displacement is a number.
LEMMA SignedIsInt == \A b \in 0 .. 255 : Signed(b) \in Int
BY DEF Signed

\* The target of an instruction that is whole is an address, never a negative number.
LEMMA TargetIsNat ==
    ASSUME NEW image \in Seq(Byte), NEW adr \in Nat, adr < Len(image), Whole(image, adr),
           Class[image[adr + 1]] \in {"jump", "call", "branch"}
    PROVE  Target(image, adr) \in Nat
<1> DEFINE op == image[adr + 1]
           l  == Length[op]
<1>1. op \in 0 .. 255
  <2>1. adr + 1 \in Nat /\ 1 <= adr + 1 /\ adr + 1 <= Len(image)
    OBVIOUS
  <2> QED
    BY <2>1, ByteAt
<1>2. l \in 2 .. 3
  <2>1. op \in Byte
    BY <1>1 DEF Byte
  <2> QED
    BY <2>1, Lengths, BranchLengths
<1>3. NextAddr(image, adr) = adr + l /\ adr + l <= Len(image)
  BY DEF Whole, NextAddr
<1>4. image[adr + 2] \in 0 .. 255
  <2>1. adr + 2 \in Nat /\ 1 <= adr + 2 /\ adr + 2 <= Len(image)
    BY <1>2, <1>3
  <2> QED
    BY <2>1, ByteAt
<1>5. image[adr + l] \in 0 .. 255
  <2>1. adr + l \in Nat /\ 1 <= adr + l /\ adr + l <= Len(image)
    BY <1>2, <1>3
  <2> QED
    BY <2>1, ByteAt
<1>6. CASE op \in Addr16
  <2>1. l = 3
    BY <1>1, <1>6, BranchLengths DEF Byte
  <2>2. image[adr + 3] \in 0 .. 255
    BY <1>5, <2>1
  <2>3. Target(image, adr) = 256 * image[adr + 2] + image[adr + 3]
    BY <1>6 DEF Target
  <2>4. 256 * image[adr + 2] + image[adr + 3] \in Nat
    BY <1>4, <2>2, Absolute16
  <2> QED
    BY <2>3, <2>4
<1>7. CASE op \notin Addr16 /\ op \in Addr11
  <2>1. Target(image, adr) = ((2048 * ((adr + 2) \div 2048)) % 65536) + 256 * (op \div 32) + image[adr + 2]
    BY <1>7 DEF Target
  <2>2. PICK o \in 0 .. 255, x \in 0 .. 255 : o = op /\ x = image[adr + 2]
    BY <1>1, <1>4
  <2>3. Target(image, adr) = ((2048 * ((adr + 2) \div 2048)) % 65536) + 256 * (o \div 32) + x
    BY <2>1, <2>2
  <2>4. ((2048 * ((adr + 2) \div 2048)) % 65536) + 256 * (o \div 32) + x \in Nat
    <3>1. (adr + 2) \div 2048 \in Nat /\ o \div 32 \in Nat /\ x \in Nat
      OBVIOUS
    <3> QED
      BY <3>1, Absolute11
  <2> QED
    BY <2>3, <2>4
<1>8. CASE op \notin Addr16 /\ op \notin Addr11
  <2>1. Target(image, adr) = (NextAddr(image, adr) + Signed(image[NextAddr(image, adr)])) % 65536
    BY <1>8 DEF Target
  <2>2. adr + l \in Nat
    BY <1>2
  <2>3. PICK n \in Nat, d \in Int : n = adr + l /\ d = Signed(image[adr + l])
    BY <1>5, <2>2, SignedIsInt
  <2>4. Target(image, adr) = (n + d) % 65536
    BY <1>3, <2>1, <2>3
  <2>5. (n + d) % 65536 \in Nat
    OBVIOUS
  <2> QED
    BY <2>4, <2>5
<1> QED
  BY <1>6, <1>7, <1>8

\* The address of the next instruction is an address.
LEMMA NextIsNat ==
    ASSUME NEW image \in Seq(Byte), NEW adr \in Nat, adr < Len(image)
    PROVE  NextAddr(image, adr) \in Nat
<1>1. adr + 1 \in Nat /\ 1 <= adr + 1 /\ adr + 1 <= Len(image)
  OBVIOUS
<1>2. image[adr + 1] \in Byte
  BY <1>1, ByteAt DEF Byte
<1>3. Length[image[adr + 1]] \in 1 .. 3
  BY <1>2, Lengths
<1> QED
  BY <1>3 DEF NextAddr

\* The image does not change, so neither does what is defined by it alone.
LEMMA SameCode ==
    ASSUME code' = code
    PROVE  /\ Addr' = Addr
           /\ Entries' = Entries
           /\ \A adr : Succ(adr)' = Succ(adr) /\ ClassAt(adr)' = ClassAt(adr)
           /\ \A adr : InImage(adr)' = InImage(adr)
           /\ \A adr : Whole(code, adr)' = Whole(code, adr) /\ Target(code, adr)' = Target(code, adr)
           /\ \A S : Closed(S)' = Closed(S)
<1>1. Addr' = Addr
  BY DEF Addr
<1>2. \A adr : ClassAt(adr)' = ClassAt(adr) /\ InImage(adr)' = InImage(adr)
  BY DEF ClassAt, InImage
<1>3. \A adr : Whole(code, adr)' = Whole(code, adr) /\ Target(code, adr)' = Target(code, adr)
             /\ NextAddr(code, adr)' = NextAddr(code, adr)
  OBVIOUS
<1>4. \A adr : Succ(adr)' = Succ(adr)
  BY <1>2, <1>3 DEF Succ
<1>5. Entries' = Entries
  BY <1>2, <1>3 DEF Entries, EntryVectors
<1>6. \A S : Closed(S)' = Closed(S)
  BY <1>1, <1>3, <1>4, <1>5 DEF Closed
<1> QED
  BY <1>1, <1>2, <1>3, <1>4, <1>5, <1>6

\* A vector that lies in the image is a whole instruction.
LEMMA VectorIsWhole ==
    ASSUME NEW image \in Seq(Byte), NEW v \in Nat, v + 2 < Len(image)
    PROVE  Whole(image, v)
<1>1. v + 1 \in Nat /\ 1 <= v + 1 /\ v + 1 <= Len(image)
  OBVIOUS
<1>2. image[v + 1] \in Byte
  BY <1>1, ByteAt DEF Byte
<1>3. Length[image[v + 1]] \in 1 .. 3
  BY <1>2, Lengths
<1> QED
  BY <1>3 DEF Whole

\* The facts about the step that all cases use.
LEMMA CodeIsImage ==
    ASSUME FollowInv PROVE code \in Seq(Byte) /\ Len(code) \in Nat /\ Addr \subseteq Nat
BY ImagesAssumption DEF FollowInv, Addr

\* A step that decodes nothing, loses nothing that matters from Covered and adds
\* nothing to it, keeps the invariant's three covering conjuncts.
LEMMA MoveKeeps ==
    ASSUME FollowInv, code' = code, insns' = insns, vec' = vec,
           pc # "vectors", pc' # "vectors",
           Covered \cap Addr \subseteq Covered', Covered' \subseteq Covered
    PROVE  EntriesCovered' /\ SuccessorsCovered' /\ OnlyReachableCovered'
<1>1. EntriesCovered'
  <2>1. EntriesCovered /\ pc # "vectors"
    BY DEF FollowInv
  <2> QED
    BY <2>1, SameCode DEF EntriesCovered
<1>2. SuccessorsCovered'
  <2>1. SuccessorsCovered
    BY DEF FollowInv
  <2> QED
    BY <2>1, SameCode DEF SuccessorsCovered
<1>3. OnlyReachableCovered'
  <2>1. OnlyReachableCovered
    BY DEF FollowInv
  <2> QED
    BY <2>1, SameCode DEF OnlyReachableCovered
<1> QED
  BY <1>1, <1>2, <1>3

\* A step that decodes cur and makes its successors pending keeps them too.
LEMMA DecodeKeeps ==
    ASSUME FollowInv, Decode, pc' # "vectors",
           Covered \subseteq Covered', Covered' \subseteq Covered \cup Succ(cur),
           Succ(cur) \subseteq Covered'
    PROVE  EntriesCovered' /\ SuccessorsCovered' /\ OnlyReachableCovered'
<1>1. code' = code /\ vec' = vec /\ insns' = insns \cup {cur} /\ pc = "walk"
      /\ cur \in Addr /\ Whole(code, cur)
  BY DEF Decode, Fresh
<1>2. EntriesCovered'
  <2>1. EntriesCovered
    BY DEF FollowInv
  <2> QED
    BY <1>1, <2>1, SameCode DEF EntriesCovered
<1>3. SuccessorsCovered'
  <2>1. SuccessorsCovered
    BY DEF FollowInv
  <2>2. \A adr \in insns' : Whole(code, adr) /\ Succ(adr) \cap Addr \subseteq Covered'
    BY <1>1, <2>1 DEF SuccessorsCovered
  <2> QED
    BY <1>1, <2>2, SameCode DEF SuccessorsCovered
<1>4. OnlyReachableCovered'
  <2>1. OnlyReachableCovered
    BY DEF FollowInv
  <2>2. SUFFICES ASSUME NEW S \in SUBSET Addr, Closed(S)
                 PROVE  Covered' \cap Addr \subseteq S
    BY <1>1, SameCode DEF OnlyReachableCovered
  <2>3. Covered \cap Addr \subseteq S
    BY <2>1, <2>2 DEF OnlyReachableCovered
  <2>4. cur \in S
    BY <1>1, <2>3 DEF Covered, Pending
  <2>5. Succ(cur) \cap Addr \subseteq S
    BY <1>1, <2>2, <2>4 DEF Closed
  <2> QED
    BY <2>3, <2>5
<1> QED
  BY <1>2, <1>3, <1>4

\* The stack as a set: what a push makes of it.
LEMMA Pushed ==
    ASSUME NEW w \in Seq(Nat), NEW t \in Nat
    PROVE  /\ Append(w, t) \in Seq(Nat)
           /\ OnStack(Append(w, t)) = OnStack(w) \cup {t}
<1> DEFINE r == Append(w, t)
           n == Len(w)
<1>1. n \in Nat /\ r \in Seq(Nat) /\ Len(r) = n + 1
  OBVIOUS
<1>2. r[n + 1] = t /\ \A z \in 1 .. n : r[z] = w[z]
  OBVIOUS
<1>3. DOMAIN w = 1 .. n /\ DOMAIN r = 1 .. n + 1
  BY <1>1
<1> HIDE DEF r, n
<1>4. 1 .. n + 1 = (1 .. n) \cup {n + 1}
  BY <1>1
<1>5. {r[z] : z \in DOMAIN r} \subseteq {w[z] : z \in DOMAIN w} \cup {t}
  <2> SUFFICES ASSUME NEW z \in DOMAIN r PROVE r[z] \in {w[k] : k \in DOMAIN w} \cup {t}
    OBVIOUS
  <2>1. CASE z \in 1 .. n
    BY <1>2, <1>3, <2>1
  <2>2. CASE z = n + 1
    BY <1>2, <2>2
  <2> QED
    BY <1>3, <1>4, <2>1, <2>2
<1>6. {w[z] : z \in DOMAIN w} \cup {t} \subseteq {r[z] : z \in DOMAIN r}
  <2>1. ASSUME NEW z \in DOMAIN w PROVE w[z] \in {r[k] : k \in DOMAIN r}
    BY <1>2, <1>3, <1>4
  <2>2. t \in {r[k] : k \in DOMAIN r}
    BY <1>2, <1>3, <1>4
  <2> QED
    BY <2>1, <2>2
<1> QED
  BY <1>1, <1>5, <1>6 DEF r, OnStack

\* And what a pop makes of it.
LEMMA Popped ==
    ASSUME NEW w \in Seq(Nat), w # <<>>, NEW r, r = SubSeq(w, 1, Len(w) - 1)
    PROVE  /\ r \in Seq(Nat) /\ w[Len(w)] \in Nat
           /\ OnStack(w) = OnStack(r) \cup {w[Len(w)]}
<1>1. PICK n \in Nat : n = Len(w) - 1
  <2>1. Len(w) \in Nat /\ Len(w) # 0
    OBVIOUS
  <2>2. Len(w) - 1 \in Nat
    BY <2>1
  <2> QED
    BY <2>2, Zenon
<1>2. Len(w) = n + 1 /\ r = SubSeq(w, 1, n)
  BY <1>1
<1>3. \A z \in 1 .. n + 1 : w[z] \in Nat
  BY <1>2
<1>4. r \in Seq(Nat) /\ Len(r) = n /\ \A z \in 1 .. n : r[z] = w[z]
  BY <1>2, <1>3
<1>5. DOMAIN w = 1 .. n + 1 /\ DOMAIN r = 1 .. n
  BY <1>2, <1>4
<1>6. 1 .. n + 1 = (1 .. n) \cup {n + 1}
  OBVIOUS
<1>7. {w[z] : z \in DOMAIN w} \subseteq {r[z] : z \in DOMAIN r} \cup {w[n + 1]}
  <2> SUFFICES ASSUME NEW z \in DOMAIN w PROVE w[z] \in {r[k] : k \in DOMAIN r} \cup {w[n + 1]}
    OBVIOUS
  <2>1. CASE z \in 1 .. n
    BY <1>4, <1>5, <2>1
  <2>2. CASE z = n + 1
    BY <2>2
  <2> QED
    BY <1>5, <1>6, <2>1, <2>2
<1>8. {r[z] : z \in DOMAIN r} \cup {w[n + 1]} \subseteq {w[z] : z \in DOMAIN w}
  <2>1. ASSUME NEW z \in DOMAIN r PROVE r[z] \in {w[k] : k \in DOMAIN w}
    BY <1>4, <1>5, <1>6
  <2>2. w[n + 1] \in {w[k] : k \in DOMAIN w}
    BY <1>5, <1>6
  <2> QED
    BY <2>1, <2>2
<1>9. w[n + 1] \in Nat
  BY <1>3
<1> QED
  BY <1>2, <1>4, <1>7, <1>8, <1>9 DEF OnStack

\* The invariant holds when the walk starts: nothing is read and nothing pending.
LEMMA FollowInit == Init => FollowInv
<1> SUFFICES ASSUME Init PROVE FollowInv
  OBVIOUS
<1>1. Pending = {} /\ Covered = {}
  BY DEF Init, Pending, Covered, OnStack
<1>2. TypeOK
  BY VectorsAssumption DEF Init, TypeOK
<1>3. EntriesCovered /\ SuccessorsCovered /\ OnlyReachableCovered
  BY <1>1 DEF Init, EntriesCovered, SuccessorsCovered, OnlyReachableCovered
<1>4. EndsRight /\ FunctionsAreCalled
  BY DEF Init, EndsRight, FunctionsAreCalled
<1> QED
  BY <1>2, <1>3, <1>4 DEF Init, FollowInv

\* The functions and the jump tables are those of the instructions decoded.
LEMMA FunctionsKept ==
    ASSUME FollowInv, code' = code, insns' = insns, funcs' = funcs, indirect' = indirect
    PROVE  FunctionsAreCalled'
BY SameCode DEF FollowInv, FunctionsAreCalled

\* Reading a vector: its target, if it holds a jump, becomes pending.
LEMMA ReadVectorKeeps == ASSUME FollowInv, ReadVector PROVE FollowInv'
<1> DEFINE v == Vectors[vec + 1]
<1>1. code' = code /\ pc' = pc /\ cur' = cur /\ insns' = insns /\ funcs' = funcs
      /\ indirect' = indirect /\ pc = "vectors" /\ vec' = vec + 1 /\ InImage(v)
  BY DEF ReadVector
<1>2. vec \in Nat /\ vec + 1 \in 1 .. Len(Vectors) /\ v \in Nat
  BY VectorsAssumption DEF FollowInv, TypeOK, ReadVector
<1>3. v \in {Vectors[z] : z \in DOMAIN Vectors}
  BY <1>2, VectorsAssumption
<1>4. v + 2 < Len(code) /\ Whole(code, v)
  BY <1>1, <1>2, CodeIsImage, VectorIsWhole DEF InImage
<1>5. CASE ClassAt(v) = "jump"
  <2> DEFINE t == Target(code, v)
  <2>1. t \in Nat
    BY <1>2, <1>4, <1>5, CodeIsImage, TargetIsNat DEF ClassAt
  <2>2. work' = Append(work, t) /\ work \in Seq(Nat)
    BY <1>5 DEF ReadVector, FollowInv, TypeOK
  <2> HIDE DEF t
  <2>3. work' \in Seq(Nat) /\ Covered' = Covered \cup {t}
    BY <1>1, <2>1, <2>2, Pushed DEF Covered, Pending
  <2>4. t \in Entries
    BY <1>1, <1>3, <1>5 DEF Entries, EntryVectors, t
  <2>5. TypeOK'
    BY <1>1, <1>2, <2>3, SameCode DEF FollowInv, TypeOK
  <2>6. EntriesCovered'
    <3>1. EntriesCovered
      BY DEF FollowInv
    <3>2. \A z \in 1 .. vec + 1 : z \in 1 .. vec \/ z = vec + 1
      BY <1>2
    <3>3. \A z \in 1 .. vec + 1 :
            /\ InImage(Vectors[z])
            /\ ClassAt(Vectors[z]) = "jump" /\ Target(code, Vectors[z]) \in Addr
                  => Target(code, Vectors[z]) \in Covered'
      BY <1>1, <2>3, <3>1, <3>2 DEF EntriesCovered, t
    <3> QED
      BY <1>1, <3>3, SameCode DEF EntriesCovered
  <2>7. SuccessorsCovered'
    BY <1>1, <2>3, SameCode DEF FollowInv, SuccessorsCovered
  <2>8. OnlyReachableCovered'
    <3>1. \A S \in SUBSET Addr : Closed(S) => Covered' \cap Addr \subseteq S
      BY <2>3, <2>4 DEF FollowInv, OnlyReachableCovered, Closed
    <3> QED
      BY <1>1, <3>1, SameCode DEF OnlyReachableCovered
  <2>9. EndsRight' /\ FunctionsAreCalled'
    BY <1>1, FunctionsKept DEF EndsRight
  <2> QED
    BY <1>1, <2>5, <2>6, <2>7, <2>8, <2>9 DEF FollowInv
<1>6. CASE ClassAt(v) # "jump"
  <2>1. work' = work /\ Covered' = Covered
    BY <1>1, <1>6 DEF ReadVector, Covered, Pending
  <2>2. TypeOK'
    BY <1>1, <1>2, <2>1, SameCode DEF FollowInv, TypeOK
  <2>3. EntriesCovered'
    <3>1. EntriesCovered
      BY DEF FollowInv
    <3>2. \A z \in 1 .. vec + 1 : z \in 1 .. vec \/ z = vec + 1
      BY <1>2
    <3>3. \A z \in 1 .. vec + 1 :
            /\ InImage(Vectors[z])
            /\ ClassAt(Vectors[z]) = "jump" /\ Target(code, Vectors[z]) \in Addr
                  => Target(code, Vectors[z]) \in Covered
      BY <1>1, <1>6, <3>1, <3>2 DEF EntriesCovered
    <3> QED
      BY <1>1, <2>1, <3>3, SameCode DEF EntriesCovered
  <2>4. SuccessorsCovered' /\ OnlyReachableCovered'
    BY <1>1, <2>1, SameCode DEF FollowInv, SuccessorsCovered, OnlyReachableCovered
  <2>5. EndsRight' /\ FunctionsAreCalled'
    BY <1>1, FunctionsKept DEF EndsRight
  <2> QED
    BY <1>1, <2>2, <2>3, <2>4, <2>5 DEF FollowInv
<1> QED
  BY <1>5, <1>6

\* When the vectors are read, every entry is pending: the table ascends, so a
\* vector behind the first that does not lie in the image does not either.
LEMMA VectorsReadKeeps == ASSUME FollowInv, VectorsRead PROVE FollowInv'
<1>1. code' = code /\ vec' = vec /\ work' = work /\ cur' = cur /\ insns' = insns
      /\ funcs' = funcs /\ indirect' = indirect /\ pc = "vectors" /\ pc' = "pop"
  BY DEF VectorsRead
<1>2. Covered' = Covered
  BY <1>1 DEF Covered, Pending
<1>3. TypeOK'
  BY <1>1, SameCode DEF FollowInv, TypeOK
<1>4. Entries \cap Addr \subseteq Covered
  <2>1. SUFFICES ASSUME NEW z \in DOMAIN Vectors, InImage(Vectors[z]), ClassAt(Vectors[z]) = "jump",
                        Target(code, Vectors[z]) \in Addr
                 PROVE  Target(code, Vectors[z]) \in Covered
    BY DEF Entries, EntryVectors
  <2>2. vec \in 0 .. Len(Vectors) /\ z \in 1 .. Len(Vectors) /\ DOMAIN Vectors = 1 .. Len(Vectors)
    BY VectorsAssumption DEF FollowInv, TypeOK
  <2>3. z \in 1 .. vec
    <3>1. SUFFICES ASSUME z > vec PROVE FALSE
      BY <2>2
    <3>2. vec < Len(Vectors) /\ vec + 1 \in 1 .. Len(Vectors) /\ vec + 1 <= z
      BY <2>2, <3>1
    <3>3. ~InImage(Vectors[vec + 1])
      BY <3>2 DEF VectorsRead
    <3>4. Vectors[z] \in Nat /\ Vectors[vec + 1] \in Nat /\ Vectors[vec + 1] <= Vectors[z]
      <4>1. Vectors[z] \in Nat /\ Vectors[vec + 1] \in Nat
        BY <2>2, <3>2, VectorsAssumption
      <4>2. CASE vec + 1 = z
        BY <4>1, <4>2
      <4>3. CASE vec + 1 < z
        BY <2>2, <3>2, <4>1, <4>3, VectorsAssumption
      <4> QED
        BY <2>2, <3>2, <4>1, <4>2, <4>3
    <3> QED
      BY <2>1, <3>3, <3>4, CodeIsImage DEF InImage
  <2> QED
    BY <2>1, <2>3 DEF FollowInv, EntriesCovered
<1>5. EntriesCovered'
  BY <1>1, <1>2, <1>4, SameCode DEF FollowInv, EntriesCovered
<1>6. SuccessorsCovered' /\ OnlyReachableCovered'
  BY <1>1, <1>2, SameCode DEF FollowInv, SuccessorsCovered, OnlyReachableCovered
<1>7. EndsRight' /\ FunctionsAreCalled'
  BY <1>1, FunctionsKept DEF EndsRight
<1> QED
  BY <1>1, <1>3, <1>5, <1>6, <1>7 DEF FollowInv

\* Taking an address off the stack moves it from the stack to cur.
LEMMA PopKeeps == ASSUME FollowInv, Pop PROVE FollowInv'
<1>1. code' = code /\ vec' = vec /\ insns' = insns /\ funcs' = funcs
      /\ indirect' = indirect /\ pc = "pop"
  BY DEF Pop
<1>2. CASE work = <<>>
  <2>1. work' = work /\ cur' = cur /\ pc' = "done" /\ Covered' = Covered
    BY <1>1, <1>2 DEF Pop, Covered, Pending
  <2>2. EntriesCovered' /\ SuccessorsCovered' /\ OnlyReachableCovered'
    BY <1>1, <2>1, MoveKeeps
  <2>3. TypeOK' /\ EndsRight' /\ FunctionsAreCalled'
    BY <1>1, <1>2, <2>1, SameCode, FunctionsKept DEF FollowInv, TypeOK, EndsRight
  <2> QED
    BY <1>1, <2>2, <2>3 DEF FollowInv
<1>3. CASE work # <<>>
  <2>1. pc' = "walk" /\ cur' = work[Len(work)] /\ work' = SubSeq(work, 1, Len(work) - 1)
        /\ work \in Seq(Nat)
    BY <1>1, <1>3 DEF Pop, FollowInv, TypeOK
  <2>2. work' \in Seq(Nat) /\ cur' \in Nat /\ OnStack(work) = OnStack(work') \cup {cur'}
    BY <1>3, <2>1, Popped
  <2>3. Covered' = Covered
    BY <1>1, <2>1, <2>2 DEF Covered, Pending
  <2>4. EntriesCovered' /\ SuccessorsCovered' /\ OnlyReachableCovered'
    BY <1>1, <2>1, <2>3, MoveKeeps
  <2>5. TypeOK' /\ EndsRight' /\ FunctionsAreCalled'
    BY <1>1, <2>1, <2>2, SameCode, FunctionsKept DEF FollowInv, TypeOK, EndsRight
  <2> QED
    BY <1>1, <2>4, <2>5 DEF FollowInv
<1> QED
  BY <1>2, <1>3

\* An address that is not fresh is decoded already or outside the image.
LEMMA LeaveWalkKeeps == ASSUME FollowInv, LeaveWalk PROVE FollowInv'
<1>1. code' = code /\ vec' = vec /\ work' = work /\ cur' = cur /\ insns' = insns
      /\ funcs' = funcs /\ indirect' = indirect /\ pc = "walk" /\ pc' = "pop" /\ ~Fresh
  BY DEF LeaveWalk
<1>2. Covered' \subseteq Covered /\ Covered \cap Addr \subseteq Covered'
  BY <1>1 DEF Covered, Pending, Fresh
<1>3. EntriesCovered' /\ SuccessorsCovered' /\ OnlyReachableCovered'
  BY <1>1, <1>2, MoveKeeps
<1>4. TypeOK' /\ EndsRight' /\ FunctionsAreCalled'
  BY <1>1, SameCode, FunctionsKept DEF FollowInv, TypeOK, EndsRight
<1> QED
  BY <1>1, <1>3, <1>4 DEF FollowInv

\* An instruction that is cut off stays pending.
LEMMA DecodeRaisesKeeps == ASSUME FollowInv, DecodeRaises PROVE FollowInv'
<1>1. code' = code /\ vec' = vec /\ work' = work /\ cur' = cur /\ insns' = insns
      /\ funcs' = funcs /\ indirect' = indirect /\ pc = "walk" /\ pc' = "raised"
      /\ cur \in Addr /\ ~Whole(code, cur)
  BY DEF DecodeRaises, Fresh
<1>2. Covered' = Covered
  BY <1>1 DEF Covered, Pending
<1>3. EntriesCovered' /\ SuccessorsCovered' /\ OnlyReachableCovered'
  BY <1>1, <1>2, MoveKeeps
<1>4. TypeOK' /\ EndsRight' /\ FunctionsAreCalled'
  BY <1>1, SameCode, FunctionsKept DEF FollowInv, TypeOK, EndsRight
<1> QED
  BY <1>1, <1>3, <1>4 DEF FollowInv

\* A decoded call gives a function, a decoded jump table is recorded; no
\* instruction is decoded twice, so none is recorded twice.
LEMMA DecodeFunctions ==
    ASSUME FollowInv, Decode,
           funcs' = IF ClassAt(cur) = "call" THEN funcs \cup {Target(code, cur)} ELSE funcs,
           indirect' = IF ClassAt(cur) = "table" THEN Append(indirect, cur) ELSE indirect
    PROVE  FunctionsAreCalled' /\ indirect' \in Seq(insns')
<1>1. code' = code /\ insns' = insns \cup {cur} /\ cur \notin insns
  BY DEF Decode, Fresh
<1>2. indirect \in Seq(insns) /\ indirect \in Seq(insns')
  <2>1. indirect \in Seq(insns)
    BY DEF FollowInv, TypeOK
  <2>2. \A z \in 1 .. Len(indirect) : indirect[z] \in insns'
    BY <1>1, <2>1
  <2> QED
    BY <2>1, <2>2
<1>3. funcs' = {Target(code, adr) : adr \in {b \in insns' : ClassAt(b) = "call"}}
  <2>1. funcs = {Target(code, adr) : adr \in {b \in insns : ClassAt(b) = "call"}}
    BY DEF FollowInv, FunctionsAreCalled
  <2>2. CASE ClassAt(cur) = "call"
    <3>1. {b \in insns' : ClassAt(b) = "call"} = {b \in insns : ClassAt(b) = "call"} \cup {cur}
      BY <1>1, <2>2
    <3> QED
      BY <2>1, <2>2, <3>1
  <2>3. CASE ClassAt(cur) # "call"
    <3>1. {b \in insns' : ClassAt(b) = "call"} = {b \in insns : ClassAt(b) = "call"}
      BY <1>1, <2>3
    <3> QED
      BY <2>1, <2>3, <3>1
  <2> QED
    BY <2>2, <2>3
<1>4. {indirect[z] : z \in DOMAIN indirect} = {adr \in insns : ClassAt(adr) = "table"}
      /\ \A z, k \in DOMAIN indirect : indirect[z] = indirect[k] => z = k
  BY DEF FollowInv, FunctionsAreCalled
<1>5. CASE ClassAt(cur) = "table"
  <2> DEFINE n == Len(indirect)
  <2>1. indirect' = Append(indirect, cur) /\ n \in Nat /\ DOMAIN indirect = 1 .. n
    BY <1>2, <1>5
  <2>2. indirect' \in Seq(insns') /\ DOMAIN indirect' = 1 .. n + 1 /\ indirect'[n + 1] = cur
        /\ \A z \in 1 .. n : indirect'[z] = indirect[z]
    BY <1>1, <1>2, <2>1
  <2> HIDE DEF n
  <2>3. 1 .. n + 1 = (1 .. n) \cup {n + 1}
    BY <2>1
  <2>4. \A x : x \in {indirect'[z] : z \in DOMAIN indirect'}
                 <=> x = cur \/ x \in {indirect[z] : z \in DOMAIN indirect}
    <3>1. ASSUME NEW z \in DOMAIN indirect'
          PROVE  indirect'[z] = cur \/ indirect'[z] \in {indirect[k] : k \in DOMAIN indirect}
      BY <2>1, <2>2, <2>3
    <3>2. cur \in {indirect'[z] : z \in DOMAIN indirect'}
      BY <2>2, <2>3
    <3>3. ASSUME NEW z \in DOMAIN indirect
          PROVE  indirect[z] \in {indirect'[k] : k \in DOMAIN indirect'}
      BY <2>1, <2>2, <2>3
    <3> QED
      BY <3>1, <3>2, <3>3
  <2>5. {indirect'[z] : z \in DOMAIN indirect'} = {adr \in insns' : ClassAt(adr) = "table"}
    BY <1>1, <1>4, <1>5, <2>4
  <2>6. ASSUME NEW z \in DOMAIN indirect', NEW k \in DOMAIN indirect',
               indirect'[z] = indirect'[k]
        PROVE  z = k
    <3>1. \A j \in 1 .. n : indirect'[j] \in insns /\ indirect'[j] # cur
      BY <1>1, <1>2, <2>1, <2>2
    <3>2. CASE z \in 1 .. n /\ k \in 1 .. n
      BY <1>4, <2>1, <2>2, <2>6, <3>2
    <3>3. CASE z = n + 1 \/ k = n + 1
      BY <2>2, <2>3, <2>6, <3>1, <3>3
    <3> QED
      BY <2>2, <2>3, <3>2, <3>3
  <2> QED
    BY <1>1, <1>3, <2>2, <2>5, <2>6, SameCode DEF FunctionsAreCalled
<1>6. CASE ClassAt(cur) # "table"
  <2>1. indirect' = indirect
    BY <1>6
  <2>2. {adr \in insns' : ClassAt(adr) = "table"} = {adr \in insns : ClassAt(adr) = "table"}
    BY <1>1, <1>6
  <2> QED
    BY <1>1, <1>2, <1>3, <1>4, <2>1, <2>2, SameCode DEF FunctionsAreCalled
<1> QED
  BY <1>5, <1>6

\* What a decoded instruction is: whole, with an address behind it.
LEMMA DecodedFacts ==
    ASSUME FollowInv, Decode
    PROVE  /\ code' = code /\ vec' = vec /\ insns' = insns \cup {cur} /\ pc = "walk"
           /\ cur \in Addr /\ cur \in Nat /\ Whole(code, cur)
           /\ NextAddr(code, cur) \in Nat
           /\ ClassAt(cur) \in {"jump", "call", "branch"} => Target(code, cur) \in Nat
<1>1. code' = code /\ vec' = vec /\ insns' = insns \cup {cur} /\ pc = "walk"
      /\ cur \in Addr /\ Whole(code, cur)
  BY DEF Decode, Fresh
<1>2. cur \in Nat /\ cur < Len(code) /\ code \in Seq(Byte)
  BY <1>1, CodeIsImage DEF Addr
<1>3. NextAddr(code, cur) \in Nat
  BY <1>2, NextIsNat
<1>4. ClassAt(cur) \in {"jump", "call", "branch"} => Target(code, cur) \in Nat
  BY <1>1, <1>2, TargetIsNat DEF ClassAt
<1> QED
  BY <1>1, <1>2, <1>3, <1>4

\* RET, RETI and JMP @A+DPTR have no successor.
LEMMA StopKeeps == ASSUME FollowInv, Stop PROVE FollowInv'
<1>1. Decode /\ pc' = "pop" /\ work' = work /\ cur' = cur /\ funcs' = funcs
      /\ ClassAt(cur) \in {"stop", "table"}
      /\ indirect' = IF ClassAt(cur) = "table" THEN Append(indirect, cur) ELSE indirect
  BY DEF Stop
<1>2. Succ(cur) = {}
  BY <1>1 DEF Succ
<1>3. Covered' = Covered
  BY <1>1, DecodedFacts DEF Covered, Pending
<1>4. EntriesCovered' /\ SuccessorsCovered' /\ OnlyReachableCovered'
  BY <1>1, <1>2, <1>3, DecodeKeeps
<1>5. FunctionsAreCalled' /\ indirect' \in Seq(insns')
  BY <1>1, DecodeFunctions
<1>6. TypeOK' /\ EndsRight'
  BY <1>1, <1>5, DecodedFacts, SameCode DEF FollowInv, TypeOK, EndsRight
<1> QED
  BY <1>1, <1>4, <1>5, <1>6, DecodedFacts DEF FollowInv

\* A jump has its target as only successor.
LEMMA JumpKeeps == ASSUME FollowInv, Jump PROVE FollowInv'
<1>1. Decode /\ pc' = pc /\ work' = work /\ funcs' = funcs /\ indirect' = indirect
      /\ ClassAt(cur) = "jump" /\ cur' = Target(code, cur)
  BY DEF Jump
<1>2. Succ(cur) = {cur'}
  BY <1>1 DEF Succ
<1>3. pc = "walk" /\ Covered' = Covered \cup {cur'}
  BY <1>1, DecodedFacts DEF Covered, Pending
<1>4. EntriesCovered' /\ SuccessorsCovered' /\ OnlyReachableCovered'
  BY <1>1, <1>2, <1>3, DecodeKeeps
<1>5. FunctionsAreCalled' /\ indirect' \in Seq(insns')
  BY <1>1, DecodeFunctions
<1>6. TypeOK' /\ EndsRight'
  BY <1>1, <1>3, <1>5, DecodedFacts, SameCode DEF FollowInv, TypeOK, EndsRight
<1> QED
  BY <1>1, <1>4, <1>5, <1>6, DecodedFacts DEF FollowInv

\* A plain instruction has the one behind it as only successor.
LEMMA FallThroughKeeps == ASSUME FollowInv, FallThrough PROVE FollowInv'
<1>1. Decode /\ pc' = pc /\ work' = work /\ funcs' = funcs /\ indirect' = indirect
      /\ ClassAt(cur) = "plain" /\ cur' = NextAddr(code, cur)
  BY DEF FallThrough
<1>2. Succ(cur) = {cur'}
  BY <1>1 DEF Succ
<1>3. pc = "walk" /\ Covered' = Covered \cup {cur'}
  BY <1>1, DecodedFacts DEF Covered, Pending
<1>4. EntriesCovered' /\ SuccessorsCovered' /\ OnlyReachableCovered'
  BY <1>1, <1>2, <1>3, DecodeKeeps
<1>5. FunctionsAreCalled' /\ indirect' \in Seq(insns')
  BY <1>1, DecodeFunctions
<1>6. TypeOK' /\ EndsRight'
  BY <1>1, <1>3, <1>5, DecodedFacts, SameCode DEF FollowInv, TypeOK, EndsRight
<1> QED
  BY <1>1, <1>4, <1>5, <1>6, DecodedFacts DEF FollowInv

\* A call or a branch has two: the one behind it is walked, the other pushed.
LEMMA BranchKeeps == ASSUME FollowInv, Branch PROVE FollowInv'
<1> DEFINE t == Target(code, cur)
<1>1. Decode /\ pc' = pc /\ indirect' = indirect /\ cur' = NextAddr(code, cur)
      /\ ClassAt(cur) \in {"call", "branch"} /\ work' = Append(work, t)
      /\ funcs' = IF ClassAt(cur) = "call" THEN funcs \cup {t} ELSE funcs
  BY DEF Branch
<1>2. t \in Nat /\ cur' \in Nat /\ work \in Seq(Nat) /\ pc = "walk"
  BY <1>1, DecodedFacts DEF FollowInv, TypeOK
<1>3. Succ(cur) = {t, cur'}
  BY <1>1 DEF Succ
<1>4. FunctionsAreCalled' /\ indirect' \in Seq(insns')
  BY <1>1, DecodeFunctions
<1> HIDE DEF t
<1>5. work' \in Seq(Nat) /\ OnStack(work') = OnStack(work) \cup {t}
  BY <1>1, <1>2, Pushed
<1>6. Covered' = Covered \cup {t, cur'}
  BY <1>1, <1>2, <1>5, DecodedFacts DEF Covered, Pending
<1>7. EntriesCovered' /\ SuccessorsCovered' /\ OnlyReachableCovered'
  BY <1>1, <1>2, <1>3, <1>6, DecodeKeeps
<1>8. TypeOK' /\ EndsRight'
  BY <1>1, <1>2, <1>4, <1>5, DecodedFacts, SameCode DEF FollowInv, TypeOK, EndsRight
<1> QED
  BY <1>1, <1>4, <1>7, <1>8, DecodedFacts DEF FollowInv

\* A step that changes nothing keeps the invariant.
LEMMA StutterKeeps == ASSUME FollowInv, UNCHANGED vars PROVE FollowInv'
<1>1. code' = code /\ pc' = pc /\ vec' = vec /\ work' = work /\ cur' = cur
      /\ insns' = insns /\ funcs' = funcs /\ indirect' = indirect
  BY DEF vars
<1>2. Covered' = Covered
  BY <1>1 DEF Covered, Pending
<1>3. TypeOK' /\ EndsRight' /\ FunctionsAreCalled'
  BY <1>1, SameCode, FunctionsKept DEF FollowInv, TypeOK, EndsRight
<1>4. EntriesCovered' /\ SuccessorsCovered' /\ OnlyReachableCovered'
  BY <1>1, <1>2, SameCode
     DEF FollowInv, EntriesCovered, SuccessorsCovered, OnlyReachableCovered
<1> QED
  BY <1>1, <1>3, <1>4 DEF FollowInv

LEMMA FollowStep == FollowInv /\ [Next]_vars => FollowInv'
<1> SUFFICES ASSUME FollowInv, [Next]_vars PROVE FollowInv'
  OBVIOUS
<1>1. CASE ReadVector
  BY <1>1, ReadVectorKeeps
<1>2. CASE VectorsRead
  BY <1>2, VectorsReadKeeps
<1>3. CASE Pop
  BY <1>3, PopKeeps
<1>4. CASE LeaveWalk
  BY <1>4, LeaveWalkKeeps
<1>5. CASE DecodeRaises
  BY <1>5, DecodeRaisesKeeps
<1>6. CASE Stop
  BY <1>6, StopKeeps
<1>7. CASE Jump
  BY <1>7, JumpKeeps
<1>8. CASE Branch
  BY <1>8, BranchKeeps
<1>9. CASE FallThrough
  BY <1>9, FallThroughKeeps
<1>10. CASE UNCHANGED vars
  BY <1>10, StutterKeeps
<1> QED
  BY <1>1, <1>2, <1>3, <1>4, <1>5, <1>6, <1>7, <1>8, <1>9, <1>10 DEF Next

\* trace.follow keeps its books: what is decoded or pending covers what was found
\* so far, and nothing that is not reachable.
THEOREM FollowInvariant == Spec => []FollowInv
<1>1. Init => FollowInv
  BY FollowInit
<1>2. FollowInv /\ [Next]_vars => FollowInv'
  BY FollowStep
<1> QED
  BY <1>1, <1>2, PTL DEF Spec

LEMMA MapIsRightByInv == FollowInv => MapIsRight
<1>1. FollowInv => OnlyReachable
  BY DEF FollowInv, TypeOK, OnlyReachableCovered, OnlyReachable, Covered
<1>2. FollowInv => AllReachable
  <2> SUFFICES ASSUME FollowInv, pc = "done" PROVE Closed(insns)
    BY DEF AllReachable
  <2>1. Covered = insns
    BY DEF FollowInv, EndsRight, Covered, Pending, OnStack
  <2> QED
    BY <2>1 DEF FollowInv, EntriesCovered, SuccessorsCovered, Closed
<1> QED
  BY <1>1, <1>2 DEF FollowInv, MapIsRight

\* The map holds every reachable instruction and no other, for every image; the
\* functions listed are the targets of its calls, and the jump tables are counted
\* once each.
THEOREM FollowIsReachability == Spec => []MapIsRight
BY MapIsRightByInv, FollowInvariant, PTL

\* An instruction that is not whole stands in the last two bytes of the image.
LEMMA CutOffAtEnd ==
    ASSUME FollowInv, NEW x \in Addr, ~Whole(code, x) PROVE x + 3 > Len(code)
<1>1. x \in Nat /\ x + 1 \in Nat /\ 1 <= x + 1 /\ x + 1 <= Len(code) /\ code \in Seq(Byte)
      /\ Len(code) \in Nat
  BY CodeIsImage DEF Addr
<1>2. code[x + 1] \in Byte
  BY <1>1, ByteAt DEF Byte
<1>3. Length[code[x + 1]] \in 1 .. 3
  BY <1>2, Lengths
<1> QED
  BY <1>1, <1>3 DEF Whole

LEMMA RaisesRightByInv == FollowInv => RaisesOnlyAtEnd
<1> SUFFICES ASSUME FollowInv, pc = "raised" PROVE RaisesOnlyAtEnd
  BY DEF RaisesOnlyAtEnd
<1>1. cur \in Addr /\ ~Whole(code, cur) /\ cur \in Covered
  BY DEF FollowInv, EndsRight, Covered, Pending
<1>2. \A S \in SUBSET Addr : Closed(S) => cur \in S
  BY <1>1 DEF FollowInv, OnlyReachableCovered
<1>3. cur + 3 > Len(code)
  BY <1>1, CutOffAtEnd
<1> QED
  BY <1>1, <1>2, <1>3 DEF RaisesOnlyAtEnd

\* The walk fails only at an instruction that the end of the image cuts off and
\* that the code reaches.
THEOREM RaisesRight == Spec => []RaisesOnlyAtEnd
BY RaisesRightByInv, FollowInvariant, PTL
-----------------------------------------------------------------------------

\* The least of some numbers, and the greatest of some that are bounded.
LEMMA LeastExists ==
    ASSUME NEW S, S \subseteq Nat, S # {}
    PROVE  Min(S) \in S /\ \A y \in S : Min(S) <= y
<1>1. \E x \in S : \A y \in S : x <= y
  <2>1. PICK x \in S : \A y \in S : ~(<<y, x>> \in OpToRel(<, Nat))
    BY WFMin, NatLessThanWellFounded
  <2>2. ASSUME NEW y \in S PROVE x <= y
    <3>1. x \in Nat /\ y \in Nat
      OBVIOUS
    <3>2. ~(y < x)
      BY <2>1, <3>1 DEF OpToRel
    <3> QED
      BY <3>1, <3>2
  <2> QED
    BY <2>2
<1> QED
  BY <1>1 DEF Min

LEMMA GreatestExists ==
    ASSUME NEW n \in Nat, NEW S, S \subseteq 0 .. n, S # {}
    PROVE  Max(S) \in S /\ \A y \in S : Max(S) >= y
<1> DEFINE T == {n - x : x \in S}
<1>1. T \subseteq Nat /\ T # {}
  <2>1. \A x \in S : x \in Nat /\ n - x \in Nat
    OBVIOUS
  <2> QED
    BY <2>1
<1>2. Min(T) \in T /\ \A t \in T : Min(T) <= t
  BY <1>1, LeastExists
<1>3. PICK x \in S : Min(T) = n - x
  BY <1>2
<1>4. ASSUME NEW y \in S PROVE x >= y
  <2>1. n - x <= n - y
    BY <1>2, <1>3
  <2>2. x \in Nat /\ y \in Nat
    OBVIOUS
  <2> QED
    BY <2>1, <2>2
<1> QED
  BY <1>4 DEF Max
-----------------------------------------------------------------------------
(* The invariant.                                                          *)

\* An instruction behind which a walk can hold what follow did not reach.
Darkens(x) == ClassAt(x) = "table" \/ (use = "bodies" /\ ClassAt(x) = "jump")
Bright(s) == \A k \in DOMAIN s : ~Darkens(s[k])
Lit(s) == \A k \in DOMAIN s \ Dark(s) : s[k] \in insns

\* The function walked comes before those still to be walked.
InFunction ==
    step \in {"in", "raised"} =>
        /\ e \in Nat /\ a \in Nat /\ \A g \in ents : g > e
        /\ ops \in Seq(Nat) /\ Lit(ops)
        /\ Bright(ops) /\ a \in Addr => a \in insns

WalksAreLit == \A z \in DOMAIN walks : Lit(Ins(z))

Lost ==
    step = "raised" => CutOff \/ (use = "bodies" /\ a \notin Addr)

WalkInv ==
    /\ step \in {"follow", "next", "in", "done", "raised"} /\ use \in {"bodies", "prints"}
    /\ step = "follow" => walks = <<>>
    /\ step # "follow" => pc = "done" /\ ents \subseteq Functions
    /\ walks \in Seq(Nat \X Seq(Nat))
    /\ InFunction /\ WalksAreLit /\ Lost

BodiesInv == FollowInv /\ WalkInv
-----------------------------------------------------------------------------
(* The map that is walked.                                                 *)

\* Entries and call targets are addresses, and those in the image are in the map.
LEMMA FunctionsAreMapped ==
    ASSUME FollowInv, pc = "done"
    PROVE  Functions \subseteq Nat /\ Functions \cap Addr \subseteq insns
<1>1. code \in Seq(Byte) /\ Len(code) \in Nat /\ Addr \subseteq Nat
  BY CodeIsImage
<1>2. Closed(insns) /\ insns \subseteq Addr
  BY MapIsRightByInv DEF MapIsRight, AllReachable, FollowInv, TypeOK
<1>3. ASSUME NEW f \in Entries PROVE f \in Nat
  <2>1. PICK v \in EntryVectors : f = Target(code, v)
    BY DEF Entries
  <2>2. v \in Nat /\ v + 2 < Len(code) /\ ClassAt(v) = "jump"
    BY VectorsAssumption DEF EntryVectors, InImage
  <2>3. Whole(code, v)
    BY <1>1, <2>2, VectorIsWhole
  <2>4. v < Len(code) /\ Class[code[v + 1]] \in {"jump", "call", "branch"}
    BY <1>1, <2>2 DEF ClassAt
  <2> QED
    BY <1>1, <2>1, <2>2, <2>3, <2>4, TargetIsNat
<1>4. ASSUME NEW f \in funcs PROVE f \in Nat /\ (f \in Addr => f \in insns)
  <2>1. PICK x \in insns : ClassAt(x) = "call" /\ f = Target(code, x)
    BY DEF FollowInv, FunctionsAreCalled
  <2>2. x \in Nat /\ x < Len(code) /\ Whole(code, x)
    BY <1>1, <1>2 DEF FollowInv, SuccessorsCovered, Addr
  <2>3. Class[code[x + 1]] \in {"jump", "call", "branch"}
    BY <2>1 DEF ClassAt
  <2>4. f \in Nat
    BY <1>1, <2>1, <2>2, <2>3, TargetIsNat
  <2>5. f \in Succ(x)
    BY <2>1 DEF Succ
  <2> QED
    BY <1>2, <2>2, <2>4, <2>5 DEF Closed
<1>5. \A f \in Entries : f \in Addr => f \in insns
  BY <1>2 DEF Closed
<1> QED
  BY <1>3, <1>4, <1>5 DEF Functions

\* When follow has returned it takes no further step.
LEMMA FollowedIsFollowed == pc = "done" => ~Next
BY DEF Next, ReadVector, VectorsRead, Pop, LeaveWalk, DecodeRaises, Stop, Jump, Branch,
   FallThrough, Decode

LEMMA ClassesOfCode ==
    ASSUME FollowInv, NEW x \in Addr
    PROVE  ClassAt(x) \in {"stop", "jump", "call", "table", "branch", "plain"}
<1>1. code \in Seq(Byte) /\ x + 1 \in Nat /\ 1 <= x + 1 /\ x + 1 <= Len(code)
  BY CodeIsImage DEF Addr
<1>2. code[x + 1] \in Byte
  BY <1>1, ByteAt DEF Byte
<1> QED
  BY <1>2 DEF ClassAt, Class

\* Where a walk goes on from an instruction.
LEMMA OnwardIsMapped ==
    ASSUME BodiesInv, step # "follow", Decodable, ~Leaves
    PROVE  /\ Onward \in Nat
           /\ ~Darkens(a) /\ a \in insns /\ Onward \in Addr => Onward \in insns
<1>1. /\ FollowInv /\ pc = "done" /\ use \in {"bodies", "prints"}
      /\ a \in Addr /\ Whole(code, a) /\ ClassAt(a) # "stop"
  BY DEF BodiesInv, WalkInv, Decodable, Leaves
<1>2. code \in Seq(Byte) /\ a \in Nat /\ a < Len(code)
  BY <1>1, CodeIsImage DEF Addr
<1>3. Closed(insns)
  BY <1>1, MapIsRightByInv DEF MapIsRight, AllReachable
<1>4. CASE use = "prints" /\ ClassAt(a) = "jump"
  <2>1. Onward = Target(code, a)
    BY <1>4 DEF Onward
  <2>2. Class[code[a + 1]] \in {"jump", "call", "branch"}
    BY <1>4 DEF ClassAt
  <2>3. Onward \in Nat
    BY <1>1, <1>2, <2>1, <2>2, TargetIsNat
  <2>4. Onward \in Succ(a)
    BY <1>4, <2>1 DEF Succ
  <2> QED
    BY <1>1, <1>3, <2>3, <2>4 DEF Closed
<1>5. CASE ~(use = "prints" /\ ClassAt(a) = "jump")
  <2>1. Onward = NextAddr(code, a)
    BY <1>5 DEF Onward
  <2>2. Onward \in Nat
    BY <1>2, <2>1, NextIsNat
  <2>3. ASSUME ~Darkens(a) PROVE Onward \in Succ(a)
    <3>1. ClassAt(a) \in {"plain", "call", "branch"}
      BY <1>1, <1>5, <2>3, ClassesOfCode DEF Darkens
    <3> QED
      BY <2>1, <3>1 DEF Succ
  <2> QED
    BY <1>1, <1>3, <2>2, <2>3 DEF Closed
<1> QED
  BY <1>4, <1>5
-----------------------------------------------------------------------------
(* What is lit stays lit.                                                  *)

LEMMA DarkIs ==
    ASSUME NEW s
    PROVE  Dark(s) = {z \in DOMAIN s : \E k \in 1 .. z - 1 : Darkens(s[k])}
BY DEF Dark, Darkens

\* Another instruction, which follow reached unless something darkens it.
LEMMA LitAppend ==
    ASSUME NEW s \in Seq(Nat), Lit(s), NEW x \in Nat, Bright(s) => x \in insns
    PROVE  /\ Append(s, x) \in Seq(Nat) /\ Lit(Append(s, x))
           /\ Bright(Append(s, x)) => Bright(s) /\ ~Darkens(x)
<1> DEFINE t == Append(s, x)
           n == Len(s)
<1>1. /\ t \in Seq(Nat) /\ n \in Nat /\ DOMAIN t = 1 .. n + 1 /\ DOMAIN s = 1 .. n
      /\ t[n + 1] = x /\ \A k \in 1 .. n : t[k] = s[k]
  OBVIOUS
<1> HIDE DEF t, n
<1>2. ASSUME NEW k \in DOMAIN t \ Dark(t) PROVE t[k] \in insns
  <2>1. \A m \in 1 .. k - 1 : ~Darkens(t[m])
    BY DarkIs
  <2>2. CASE k \in 1 .. n
    <3>1. \A m \in 1 .. k - 1 : m \in 1 .. n /\ t[m] = s[m]
      BY <1>1, <2>2
    <3>2. k \notin Dark(s)
      BY <2>1, <3>1, DarkIs
    <3> QED
      BY <1>1, <2>2, <3>2 DEF Lit
  <2>3. CASE k = n + 1
    <3>1. \A m \in 1 .. n : m \in 1 .. k - 1
      BY <1>1, <2>3
    <3>2. Bright(s)
      BY <1>1, <2>1, <3>1 DEF Bright
    <3> QED
      BY <1>1, <2>3, <3>2
  <2> QED
    BY <1>1, <2>2, <2>3
<1>3. Bright(t) => Bright(s) /\ ~Darkens(x)
  BY <1>1 DEF Bright
<1> QED
  BY <1>1, <1>2, <1>3 DEF Lit, t

\* The beginning of a walk.
LEMMA LitPrefix ==
    ASSUME NEW s \in Seq(Nat), Lit(s), NEW m \in 1 .. Len(s)
    PROVE  SubSeq(s, 1, m) \in Seq(Nat) /\ Lit(SubSeq(s, 1, m))
<1> DEFINE t == SubSeq(s, 1, m)
<1>1. /\ t \in Seq(Nat) /\ DOMAIN t = 1 .. m /\ DOMAIN s = 1 .. Len(s) /\ Len(s) \in Nat
      /\ \A k \in 1 .. m : t[k] = s[k] /\ k \in DOMAIN s
  OBVIOUS
<1> HIDE DEF t
<1>2. ASSUME NEW k \in DOMAIN t \ Dark(t) PROVE t[k] \in insns
  <2>1. \A j \in 1 .. k - 1 : ~Darkens(t[j])
    BY DarkIs
  <2>2. \A j \in 1 .. k - 1 : t[j] = s[j]
    BY <1>1
  <2>3. k \in DOMAIN s \ Dark(s)
    <3>1. \A j \in 1 .. k - 1 : ~Darkens(s[j])
      BY <2>1, <2>2
    <3>2. k \notin Dark(s)
      BY <3>1, DarkIs
    <3> QED
      BY <1>1, <3>2
  <2> QED
    BY <1>1, <2>3 DEF Lit
<1> QED
  BY <1>1, <1>2 DEF Lit, t

LEMMA LitTrim ==
    ASSUME NEW s \in Seq(Nat), Lit(s) PROVE Trim(s) \in Seq(Nat) /\ Lit(Trim(s))
<1> DEFINE real == {z \in DOMAIN s : code[s[z] + 1] # Nop}
<1>1. CASE real = {}
  <2>1. Trim(s) = <<>>
    BY <1>1 DEF Trim
  <2> QED
    BY <2>1 DEF Lit
<1>2. CASE real # {}
  <2>1. Trim(s) = SubSeq(s, 1, Max(real))
    BY <1>2 DEF Trim
  <2>2. Max(real) \in real
    <3>1. Len(s) \in Nat /\ real \subseteq 0 .. Len(s)
      OBVIOUS
    <3> QED
      BY <1>2, <3>1, GreatestExists
  <2>3. Max(real) \in 1 .. Len(s)
    BY <2>2
  <2> QED
    BY <2>1, <2>3, LitPrefix
<1> QED
  BY <1>1, <1>2

\* What a function gave is kept.
LEMMA LitKept ==
    ASSUME walks \in Seq(Nat \X Seq(Nat)), WalksAreLit, e \in Nat, NEW s \in Seq(Nat), Lit(s)
    PROVE  /\ Kept(s) \in Seq(Nat \X Seq(Nat))
           /\ \A z \in DOMAIN Kept(s) : Lit(Kept(s)[z][2])
<1>1. \A z \in DOMAIN walks : Lit(walks[z][2])
  BY DEF WalksAreLit, Ins
<1>2. ASSUME NEW t \in Seq(Nat), Lit(t)
      PROVE  /\ Append(walks, <<e, t>>) \in Seq(Nat \X Seq(Nat))
             /\ \A z \in DOMAIN Append(walks, <<e, t>>) : Lit(Append(walks, <<e, t>>)[z][2])
  <2> DEFINE w == Append(walks, <<e, t>>)
             n == Len(walks)
  <2>1. <<e, t>> \in Nat \X Seq(Nat) /\ <<e, t>>[2] = t
    OBVIOUS
  <2>2. /\ w \in Seq(Nat \X Seq(Nat)) /\ n \in Nat /\ DOMAIN w = 1 .. n + 1
        /\ w[n + 1] = <<e, t>> /\ DOMAIN walks = 1 .. n /\ \A z \in 1 .. n : w[z] = walks[z]
    BY <2>1
  <2> HIDE DEF w, n
  <2>3. ASSUME NEW z \in DOMAIN w PROVE Lit(w[z][2])
    <3>1. z \in 1 .. n \/ z = n + 1
      BY <2>2
    <3> QED
      BY <1>1, <1>2, <2>1, <2>2, <3>1
  <2> QED
    BY <2>2, <2>3 DEF w
<1>3. Trim(s) \in Seq(Nat) /\ Lit(Trim(s))
  BY LitTrim
<1> QED
  BY <1>1, <1>2, <1>3 DEF Kept
-----------------------------------------------------------------------------
(* The steps of a walk.                                                    *)

\* What stands in the map does not change while it is walked.
WalkStep ==
    /\ vars' = vars /\ use' = use /\ step # "follow"
    /\ step' \in {"next", "in", "done", "raised"}

LEMMA SameMap ==
    ASSUME BodiesInv, WalkStep
    PROVE  /\ FollowInv' /\ pc' = "done" /\ code' = code /\ insns' = insns
           /\ Functions' = Functions /\ Addr' = Addr
           /\ \A s : Lit(s)' = Lit(s) /\ Bright(s)' = Bright(s)
<1>1. FollowInv /\ pc = "done"
  BY DEF BodiesInv, WalkInv, WalkStep
<1>2. /\ code' = code /\ pc' = pc /\ insns' = insns /\ funcs' = funcs /\ use' = use
  BY DEF WalkStep, vars
<1>3. FollowInv'
  BY <1>1, FollowStep DEF WalkStep
<1>4. Functions' = Functions /\ Addr' = Addr
  BY <1>2, SameCode DEF Functions
<1>5. \A x : ClassAt(x)' = ClassAt(x)
  BY <1>2 DEF ClassAt
<1>6. \A s : Lit(s)' = Lit(s) /\ Bright(s)' = Bright(s)
  BY <1>2, <1>5 DEF Lit, Bright, Dark, Darkens
<1> QED
  BY <1>1, <1>2, <1>3, <1>4, <1>6

LEMMA FollowKeeps == ASSUME BodiesInv, Follow PROVE BodiesInv'
<1>1. /\ step = "follow" /\ pc = "done" /\ step' = "next" /\ ents' = Functions /\ vars' = vars
      /\ use' = use /\ walks' = walks /\ walks = <<>>
  BY DEF Follow, BodiesInv, WalkInv
<1>2. FollowInv' /\ pc' = "done" /\ Functions' = Functions
  BY <1>1, FollowStep, SameCode DEF BodiesInv, vars, Functions
<1>3. InFunction' /\ Lost' /\ WalksAreLit'
  BY <1>1 DEF InFunction, Lost, WalksAreLit
<1> QED
  BY <1>1, <1>2, <1>3 DEF BodiesInv, WalkInv

LEMMA NextFunctionKeeps == ASSUME BodiesInv, NextFunction PROVE BodiesInv'
<1>1. /\ step = "next" /\ vars' = vars /\ use' = use /\ walks' = walks
      /\ pc = "done" /\ ents \subseteq Functions /\ WalkInv /\ FollowInv
  BY DEF NextFunction, BodiesInv, WalkInv
<1>2. WalkStep
  BY <1>1 DEF NextFunction, WalkStep
<1>3. Functions \subseteq Nat /\ Functions \cap Addr \subseteq insns
  BY <1>1, FunctionsAreMapped
<1>4. CASE ents = {}
  <2>1. step' = "done" /\ ents' = ents
    BY <1>1, <1>4 DEF NextFunction
  <2>2. InFunction' /\ Lost'
    BY <2>1 DEF InFunction, Lost
  <2> QED
    BY <1>1, <1>2, <2>1, <2>2, SameMap DEF BodiesInv, WalkInv, WalksAreLit, Ins
<1>5. CASE ents # {}
  <2>1. /\ step' = "in" /\ e' = Min(ents) /\ a' = Min(ents) /\ ops' = <<>>
        /\ ents' = ents \ {e'}
    BY <1>1, <1>5 DEF NextFunction
  <2>2. e' \in ents /\ (\A g \in ents : e' <= g) /\ ents \subseteq Nat
    BY <1>1, <1>3, <1>5, <2>1, LeastExists
  <2>3. \A g \in ents' : g > e'
    BY <2>1, <2>2
  <2>4. ops' \in Seq(Nat) /\ Lit(ops')
    BY <2>1 DEF Lit
  <2>5. a' \in Nat /\ (a' \in Addr => a' \in insns)
    BY <1>1, <1>3, <2>1, <2>2
  <2>6. InFunction'
    <3>1. Lit(ops)'
      BY <2>1 DEF Lit
    <3> QED
      BY <1>2, <2>1, <2>2, <2>3, <2>4, <2>5, <3>1, SameMap DEF InFunction
  <2>7. ents' \subseteq Functions' /\ Lost'
    BY <1>1, <1>2, <2>1, SameMap DEF Lost
  <2> QED
    BY <1>1, <1>2, <2>1, <2>6, <2>7, SameMap DEF BodiesInv, WalkInv, WalksAreLit, Ins
<1> QED
  BY <1>4, <1>5

\* decode_one raises at the end of the image, or for a body that begins behind it.
LEMMA WalkRaisesKeeps == ASSUME BodiesInv, WalkRaises PROVE BodiesInv'
<1>1. /\ step = "in" /\ GoesOn /\ ~Decodable /\ step' = "raised" /\ vars' = vars
      /\ use' = use /\ ents' = ents /\ e' = e /\ a' = a /\ ops' = ops /\ walks' = walks
      /\ FollowInv /\ WalkInv /\ pc = "done" /\ use \in {"bodies", "prints"}
  BY DEF WalkRaises, BodiesInv, WalkInv
<1>2. WalkStep
  BY <1>1 DEF WalkStep
<1>3. e \in Nat /\ a \in Nat /\ (\A g \in ents : g > e) /\ ents \subseteq Functions
  BY <1>1 DEF WalkInv, InFunction
<1>4. CASE a \in Addr
  <2>1. ~Whole(code, a)
    BY <1>1, <1>4 DEF Decodable
  <2>2. NextAddr(code, a) > Len(code)
    <3>1. Len(code) \in Nat /\ a \in Nat /\ NextAddr(code, a) \in Nat
      BY <1>1, <1>3, <1>4, CodeIsImage, NextIsNat DEF Addr
    <3> QED
      BY <2>1, <3>1 DEF Whole, NextAddr
  <2>3. a \notin insns
    BY <1>1, <2>1 DEF FollowInv, SuccessorsCovered
  <2>4. CutOff'
    BY <1>1, <1>2, <1>4, <2>2, <2>3, SameMap DEF CutOff, NextAddr
  <2> QED
    BY <1>1, <1>2, <1>4, <2>4, SameMap
       DEF BodiesInv, WalkInv, InFunction, Lost, WalksAreLit, Ins
<1>5. CASE a \notin Addr
  <2>1. use = "bodies"
    BY <1>1, <1>5 DEF GoesOn
  <2> QED
    BY <1>1, <1>2, <1>5, <2>1, SameMap
       DEF BodiesInv, WalkInv, InFunction, Lost, WalksAreLit, Ins
<1> QED
  BY <1>4, <1>5

\* A walk that ends keeps what it has.
LEMMA KeepsWalks ==
    ASSUME BodiesInv, WalkStep, step = "in", step' = "next", ents' = ents,
           NEW s \in Seq(Nat), Lit(s), walks' = Kept(s)
    PROVE  BodiesInv'
<1>1. /\ FollowInv /\ WalkInv /\ pc = "done" /\ ents \subseteq Functions /\ e \in Nat
      /\ walks \in Seq(Nat \X Seq(Nat)) /\ WalksAreLit
  BY DEF BodiesInv, WalkInv, InFunction
<1>2. walks' \in Seq(Nat \X Seq(Nat)) /\ \A z \in DOMAIN walks' : Lit(walks'[z][2])
  BY <1>1, LitKept
<1>3. WalksAreLit'
  BY <1>2, SameMap DEF WalksAreLit, Ins
<1>4. InFunction' /\ Lost'
  BY DEF InFunction, Lost
<1> QED
  BY <1>1, <1>2, <1>3, <1>4, SameMap DEF BodiesInv, WalkInv, WalkStep

LEMMA WalkInstructionKeeps == ASSUME BodiesInv, WalkInstruction PROVE BodiesInv'
<1>1. /\ step = "in" /\ Decodable /\ ops' = Append(ops, a) /\ vars' = vars
      /\ use' = use /\ ents' = ents /\ e' = e /\ FollowInv /\ WalkInv /\ pc = "done"
      /\ a \in Addr
  BY DEF WalkInstruction, BodiesInv, WalkInv, Decodable
<1>2. /\ e \in Nat /\ a \in Nat /\ (\A g \in ents : g > e) /\ ops \in Seq(Nat) /\ Lit(ops)
      /\ Bright(ops) => a \in insns
  BY <1>1 DEF WalkInv, InFunction
<1>3. /\ ops' \in Seq(Nat) /\ Lit(ops')
      /\ Bright(ops') => Bright(ops) /\ ~Darkens(a)
  BY <1>1, <1>2, LitAppend
<1>4. CASE Leaves
  <2>1. step' = "next" /\ walks' = Kept(ops')
    BY <1>4 DEF WalkInstruction
  <2>2. WalkStep
    BY <1>1, <2>1 DEF WalkStep
  <2> QED
    BY <1>1, <1>3, <2>1, <2>2, KeepsWalks
<1>5. CASE ~Leaves
  <2>1. step' = step /\ a' = Onward /\ walks' = walks
    BY <1>5 DEF WalkInstruction
  <2>2. WalkStep
    BY <1>1, <2>1 DEF WalkStep
  <2>3. /\ a' \in Nat
        /\ ~Darkens(a) /\ a \in insns /\ a' \in Addr => a' \in insns
    BY <1>1, <1>5, <2>1, OnwardIsMapped
  <2>4. Bright(ops') /\ a' \in Addr => a' \in insns
    BY <1>2, <1>3, <2>3
  <2>5. Lit(ops)' /\ (Bright(ops)' /\ a' \in Addr' => a' \in insns')
    <3>1. Lit(ops)' = Lit(ops') /\ Bright(ops)' = Bright(ops')
      BY <1>1, SameCode DEF vars, Lit, Bright, Dark, Darkens, ClassAt
    <3> QED
      BY <1>3, <2>2, <2>4, <3>1, SameMap
  <2>6. InFunction'
    BY <1>1, <1>2, <1>3, <2>3, <2>5 DEF InFunction
  <2> QED
    BY <1>1, <2>1, <2>2, <2>6, SameMap DEF BodiesInv, WalkInv, WalksAreLit, Ins, Lost
<1> QED
  BY <1>4, <1>5

LEMMA FunctionEndsKeeps == ASSUME BodiesInv, FunctionEnds PROVE BodiesInv'
<1>1. /\ step = "in" /\ step' = "next" /\ walks' = Kept(ops) /\ vars' = vars
      /\ use' = use /\ ents' = ents
  BY DEF FunctionEnds
<1>2. WalkStep /\ ops \in Seq(Nat) /\ Lit(ops)
  BY <1>1 DEF WalkStep, BodiesInv, WalkInv, InFunction
<1> QED
  BY <1>1, <1>2, KeepsWalks

\* A step of follow, before anything is walked.
LEMMA FollowsKeeps ==
    ASSUME BodiesInv, [Next]_vars, UNCHANGED bodyVars PROVE BodiesInv'
<1>1. /\ FollowInv' /\ use' = use /\ step' = step /\ ents' = ents /\ e' = e /\ a' = a
      /\ ops' = ops /\ walks' = walks
  BY FollowStep DEF BodiesInv, bodyVars
<1>2. CASE step = "follow"
  BY <1>1, <1>2 DEF BodiesInv, WalkInv, InFunction, WalksAreLit, Lost
<1>3. CASE step # "follow"
  <2>1. vars' = vars
    BY <1>3, FollowedIsFollowed DEF BodiesInv, WalkInv
  <2>2. WalkStep
    BY <1>1, <1>3, <2>1 DEF WalkStep, BodiesInv, WalkInv
  <2>3. code' = code /\ insns' = insns /\ Addr' = Addr
    BY <2>2, SameMap
  <2>4. Lost'
    BY <1>1, <2>3 DEF BodiesInv, WalkInv, Lost, CutOff, NextAddr
  <2>5. InFunction' /\ WalksAreLit'
    BY <1>1, <2>2, <2>3, SameMap DEF BodiesInv, WalkInv, InFunction, WalksAreLit, Ins
  <2> QED
    BY <1>1, <1>3, <2>1, <2>2, <2>4, <2>5, SameMap DEF BodiesInv, WalkInv, vars
<1> QED
  BY <1>2, <1>3
-----------------------------------------------------------------------------
(* The shape of the bodies.  It is an invariant beside BodiesInv.           *)

\* The instructions s stand one behind the other from f on, before the next function,
\* and none but the last is a return.
WalkOf(f, s) ==
    /\ s # <<>> => s[1] = f
    /\ \A k \in DOMAIN s : s[k] \in Addr /\ s[k] < NextOf(f)
    /\ \A k \in DOMAIN s : k + 1 \in DOMAIN s =>
          s[k + 1] = NextAddr(code, s[k]) /\ ClassAt(s[k]) # "stop"

\* When only padding follows an instruction of s, the bytes up to m are padding.
IsNop(x) == code[x + 1] = Nop
Padded(s, m) ==
    \A j \in DOMAIN s :
        (\A z \in DOMAIN s : z > j => IsNop(s[z]))
            => \A b \in NextAddr(code, s[j]) .. m - 1 : IsNop(b)

BodyOf(f, s) ==
    /\ s # <<>> /\ WalkOf(f, s)
    /\ \/ ClassAt(s[Len(s)]) = "stop"
       \/ \A b \in NextAddr(code, s[Len(s)]) .. NextOf(f) - 1 : IsNop(b)

\* The functions are walked in ascending order.
Ascending == \A g \in ents, h \in Functions : h > g => h \in ents
InBody ==
    step = "in" =>
        /\ e \in Functions /\ \A h \in Functions : h > e => h \in ents
        /\ WalkOf(e, ops) /\ Padded(ops, a)
        /\ ops = <<>> => a = e
        /\ ops # <<>> => a = NextAddr(code, ops[Len(ops)]) /\ ClassAt(ops[Len(ops)]) # "stop"
        /\ a = e \/ a <= Len(code)
OnlyRunsOut == step = "raised" /\ a \notin Addr => RunsOut
InOrder ==
    /\ \A z \in DOMAIN walks :
          /\ Walked(z) \in Functions /\ BodyOf(Walked(z), Ins(z))
          /\ \A g \in ents : Walked(z) < g
          /\ step = "in" => Walked(z) < e
    /\ \A z, k \in DOMAIN walks : z < k => Walked(z) < Walked(k)
NoneLeftOut ==
    \A f \in Functions \cap Addr :
        (f \in ents /\ step # "done") \/ (step \in {"in", "raised"} /\ f = e) \/ IsNop(f)
            \/ \E z \in DOMAIN walks : Walked(z) = f

ShapeInv ==
    use = "bodies" /\ step # "follow" => Ascending /\ InBody /\ InOrder /\ NoneLeftOut /\ OnlyRunsOut
-----------------------------------------------------------------------------
(* Where a body ends.                                                      *)

LEMMA NextOfFacts ==
    ASSUME BodiesInv, step # "follow", NEW f \in Nat
    PROVE  /\ NextOf(f) \in Nat /\ NextOf(f) <= Len(code) /\ NextOf(f) <= f + Cap
           /\ \A g \in Functions : g > f => NextOf(f) <= g
           /\ \A m \in Nat :
                 m <= Len(code) /\ m <= f + Cap /\ (\A g \in Functions : g > f => m <= g)
                    => m <= NextOf(f)
<1> DEFINE S == {Len(code)} \cup {g \in Functions : g > f} \cup {f + Cap}
<1>1. Functions \subseteq Nat /\ Len(code) \in Nat /\ f + Cap \in Nat
  BY FunctionsAreMapped, CodeIsImage, FunctionBodiesAssumption DEF BodiesInv, WalkInv
<1>2. S \subseteq Nat /\ S # {}
  BY <1>1
<1>3. Min(S) \in S /\ \A y \in S : Min(S) <= y
  BY <1>2, LeastExists
<1>4. NextOf(f) = Min(S)
  BY DEF NextOf
<1> HIDE DEF S
<1>5. /\ Len(code) \in S /\ f + Cap \in S /\ \A g \in Functions : g > f => g \in S
      /\ \A m \in S : m = Len(code) \/ m = f + Cap \/ (m \in Functions /\ m > f)
  BY DEF S
<1> QED
  BY <1>2, <1>3, <1>4, <1>5

\* The bound of the loop is at or behind the next function, and cuts no byte of the
\* image short of it.
LEMMA EndFacts ==
    ASSUME BodiesInv, step = "in", \A h \in Functions : h > e => h \in ents
    PROVE  /\ End \in Nat /\ NextOf(e) <= End
           /\ \A x \in Addr : x < End => x < NextOf(e)
           /\ e \in Addr => e < End
<1>1. /\ Functions \subseteq Nat /\ Len(code) \in Nat /\ e \in Nat /\ e + Cap \in Nat /\ Cap > 0
      /\ ents \subseteq Functions /\ \A g \in ents : g > e
  BY FunctionsAreMapped, CodeIsImage, FunctionBodiesAssumption DEF BodiesInv, WalkInv, InFunction
<1> DEFINE b == IF ents = {} THEN Len(code) ELSE Min(ents)
<1>2. /\ b \in Nat /\ (b = Len(code) \/ b \in ents)
      /\ \A g \in ents : b <= g
      /\ ents = {} => b = Len(code)
  BY <1>1, LeastExists
<1>3. ents # {} => b \in ents
  BY <1>1, LeastExists
<1>4. End = Min({b, e + Cap})
  BY DEF End
<1> HIDE DEF b
<1>5. /\ Min({b, e + Cap}) \in {b, e + Cap}
      /\ \A y \in {b, e + Cap} : Min({b, e + Cap}) <= y
  BY <1>1, <1>2, LeastExists
<1>6. End \in Nat /\ End <= b /\ End <= e + Cap /\ (End = b \/ End = e + Cap)
  BY <1>1, <1>2, <1>4, <1>5
<1>7. /\ NextOf(e) \in Nat /\ NextOf(e) <= Len(code) /\ NextOf(e) <= e + Cap
      /\ \A g \in Functions : g > e => NextOf(e) <= g
      /\ \A m \in Nat :
            m <= Len(code) /\ m <= e + Cap /\ (\A g \in Functions : g > e => m <= g)
               => m <= NextOf(e)
  BY <1>1, NextOfFacts
<1>8. NextOf(e) <= b
  BY <1>1, <1>2, <1>7
<1>9. ASSUME NEW x \in Addr, x < End PROVE x < NextOf(e)
  <2>1. x \in Nat /\ x + 1 \in Nat /\ x + 1 <= Len(code)
    BY <1>1 DEF Addr
  <2>2. ASSUME NEW g \in Functions, g > e PROVE x + 1 <= g
    <3>1. b <= g /\ g \in Nat
      BY <1>1, <1>2, <2>2
    <3>2. x < End /\ End <= b /\ End \in Nat /\ b \in Nat /\ x \in Nat
      BY <1>2, <1>6, <1>9, <2>1
    <3>3. \A p, q, r, u \in Nat : p < q /\ q <= r /\ r <= u => p + 1 <= u
      OBVIOUS
    <3> QED
      BY <3>1, <3>2, <3>3, Zenon
  <2>3. x + 1 <= e + Cap
    BY <1>1, <1>6, <1>9, <2>1
  <2> QED
    BY <1>7, <2>1, <2>2, <2>3
<1>10. ASSUME e \in Addr PROVE e < End
  <2>1. e < Len(code)
    BY <1>1, <1>10 DEF Addr
  <2>2. e < b
    BY <1>1, <1>2, <1>3, <2>1
  <2>3. e < e + Cap
    BY <1>1, FunctionBodiesAssumption
  <2>4. e < End
    BY <1>6, <2>2, <2>3
  <2> QED
    BY <2>4
<1> QED
  BY <1>6, <1>7, <1>8, <1>9, <1>10

\* The shape of a body does not change while the map is walked.
LEMMA SameShape ==
    ASSUME BodiesInv, WalkStep
    PROVE  /\ \A f : NextOf(f)' = NextOf(f)
           /\ \A f, s : WalkOf(f, s)' = WalkOf(f, s) /\ BodyOf(f, s)' = BodyOf(f, s)
           /\ \A s, m : Padded(s, m)' = Padded(s, m)
           /\ \A x : ClassAt(x)' = ClassAt(x) /\ IsNop(x)' = IsNop(x)
<1>1. code' = code /\ Addr' = Addr /\ Functions' = Functions
  BY SameMap
<1>2. \A f : NextOf(f)' = NextOf(f)
  BY <1>1 DEF NextOf
<1>3. \A x : ClassAt(x)' = ClassAt(x) /\ IsNop(x)' = IsNop(x)
  BY <1>1 DEF ClassAt, IsNop
<1>4. \A s, m : Padded(s, m)' = Padded(s, m)
  BY <1>1, <1>3 DEF Padded
<1>5. \A f, s : WalkOf(f, s)' = WalkOf(f, s)
  BY <1>1, <1>2, <1>3 DEF WalkOf
<1>6. \A f, s : BodyOf(f, s)' = BodyOf(f, s)
  BY <1>1, <1>2, <1>3, <1>5 DEF BodyOf
<1> QED
  BY <1>2, <1>3, <1>4, <1>5, <1>6

\* What is left of a walk without its padding is a body, and something is left when
\* the function begins with an instruction.
LEMMA TrimIsBody ==
    ASSUME BodiesInv, step # "follow", NEW f \in Nat, NEW s \in Seq(Nat), WalkOf(f, s),
           NEW m \in Nat,
           s # <<>> => ClassAt(s[Len(s)]) = "stop" \/ (Padded(s, m) /\ NextOf(f) <= m)
    PROVE  /\ Trim(s) # <<>> => BodyOf(f, Trim(s))
           /\ s # <<>> /\ ~IsNop(f) => Trim(s) # <<>>
<1> DEFINE real == {z \in DOMAIN s : code[s[z] + 1] # Nop}
           M == Max(real)
           t == SubSeq(s, 1, M)
<1>1. Trim(s) = IF real = {} THEN <<>> ELSE t
  BY DEF Trim
<1>2. DOMAIN s = 1 .. Len(s) /\ Len(s) \in Nat /\ \A z \in DOMAIN s : s[z] \in Nat
  OBVIOUS
<1>3. \A z \in DOMAIN s : z \in real <=> ~IsNop(s[z])
  BY DEF IsNop
<1>4. ASSUME s # <<>>, ~IsNop(f) PROVE real # {}
  <2>1. 1 \in DOMAIN s /\ s[1] = f
    BY <1>2, <1>4 DEF WalkOf
  <2> QED
    BY <1>3, <1>4, <2>1
<1>5. CASE real = {}
  BY <1>1, <1>4, <1>5
<1>6. CASE real # {}
  <2>1. M \in real /\ \A y \in real : M >= y
    <3>1. real \subseteq 0 .. Len(s)
      BY <1>2
    <3> QED
      BY <1>2, <1>6, <3>1, GreatestExists
  <2> HIDE DEF real, M
  <2>2. M \in 1 .. Len(s) /\ M \in Nat
    BY <1>2, <2>1 DEF real
  <2>3. /\ DOMAIN t = 1 .. M /\ Len(t) = M /\ t # <<>>
        /\ \A k \in 1 .. M : t[k] = s[k] /\ k \in DOMAIN s
    BY <1>2, <2>2
  <2> HIDE DEF t
  <2>4. WalkOf(f, t)
    <3>1. t[1] = f
      BY <1>2, <2>2, <2>3 DEF WalkOf
    <3>2. \A k \in DOMAIN t : t[k] \in Addr /\ t[k] < NextOf(f)
      BY <2>3 DEF WalkOf
    <3>3. \A k \in DOMAIN t : k + 1 \in DOMAIN t =>
             t[k + 1] = NextAddr(code, t[k]) /\ ClassAt(t[k]) # "stop"
      BY <2>3 DEF WalkOf
    <3> QED
      BY <3>1, <3>2, <3>3 DEF WalkOf
  <2>5. \A z \in DOMAIN s : z > M => IsNop(s[z])
    BY <1>2, <1>3, <2>1, <2>2
  <2>6. ASSUME ClassAt(s[Len(s)]) = "stop" PROVE M = Len(s)
    <3>1. Len(s) \in DOMAIN s /\ s[Len(s)] \in Addr
      BY <1>2, <2>2 DEF WalkOf
    <3>2. ~IsNop(s[Len(s)])
      <4>1. code[s[Len(s)] + 1] = 0 => ClassAt(s[Len(s)]) # "stop"
        BY DEF ClassAt, Class, Byte
      <4> QED
        BY <2>6, <4>1 DEF IsNop, Nop
    <3>3. Len(s) \in real
      BY <1>3, <3>1, <3>2
    <3>4. M >= Len(s)
      BY <2>1, <3>3
    <3>5. M <= Len(s) /\ M \in Nat /\ Len(s) \in Nat
      BY <1>2, <2>2
    <3> QED
      BY <3>4, <3>5
  <2>7. t[Len(t)] = s[M] /\ s # <<>>
    BY <1>2, <2>2, <2>3
  <2>8. \/ ClassAt(t[Len(t)]) = "stop"
        \/ \A b \in NextAddr(code, t[Len(t)]) .. NextOf(f) - 1 : IsNop(b)
    <3>1. CASE ClassAt(s[Len(s)]) = "stop"
      BY <2>6, <2>7, <3>1
    <3>2. CASE Padded(s, m) /\ NextOf(f) <= m
      <4>1. \A b \in NextAddr(code, s[M]) .. m - 1 : IsNop(b)
        BY <1>2, <2>2, <2>5, <3>2 DEF Padded
      <4>2. NextAddr(code, s[M]) \in Nat /\ NextOf(f) \in Nat
        <5>1. s[M] \in Addr
          BY <1>2, <2>2 DEF WalkOf
        <5>2. code \in Seq(Byte) /\ s[M] \in Nat /\ s[M] < Len(code)
          BY <5>1, CodeIsImage DEF Addr, BodiesInv
        <5> QED
          BY <5>2, NextIsNat, NextOfFacts
      <4>3. \A b \in NextAddr(code, s[M]) .. NextOf(f) - 1 : b \in NextAddr(code, s[M]) .. m - 1
        BY <3>2, <4>2
      <4> QED
        BY <2>7, <4>1, <4>3
    <3> QED
      BY <2>7, <3>1, <3>2
  <2> QED
    BY <1>1, <1>6, <2>3, <2>4, <2>8 DEF BodyOf
<1> QED
  BY <1>5, <1>6
\* One more instruction of a body.
LEMMA WalkAppend ==
    ASSUME BodiesInv, step = "in", NEW s \in Seq(Nat), WalkOf(e, s), a \in Addr, a < NextOf(e),
           s = <<>> => a = e,
           s # <<>> => a = NextAddr(code, s[Len(s)]) /\ ClassAt(s[Len(s)]) # "stop"
    PROVE  /\ Append(s, a) \in Seq(Nat) /\ Append(s, a) # <<>>
           /\ Append(s, a)[Len(Append(s, a))] = a
           /\ WalkOf(e, Append(s, a))
           /\ Padded(s, a) => Padded(Append(s, a), NextAddr(code, a))
<1> DEFINE t == Append(s, a)
           n == Len(s)
<1>1. code \in Seq(Byte) /\ a \in Nat /\ a < Len(code) /\ Len(code) \in Nat
  BY CodeIsImage DEF Addr, BodiesInv
<1>2. /\ t \in Seq(Nat) /\ n \in Nat /\ DOMAIN t = 1 .. n + 1 /\ DOMAIN s = 1 .. n
      /\ t[n + 1] = a /\ (\A k \in 1 .. n : t[k] = s[k] /\ k \in DOMAIN s) /\ Len(t) = n + 1
      /\ t # <<>> /\ (s = <<>> <=> n = 0)
  <2>1. a \in Nat
    BY <1>1
  <2>2. /\ t \in Seq(Nat) /\ n \in Nat /\ DOMAIN t = 1 .. n + 1 /\ DOMAIN s = 1 .. n
        /\ t[n + 1] = a /\ (\A k \in 1 .. n : t[k] = s[k] /\ k \in DOMAIN s) /\ Len(t) = n + 1
    BY <2>1
  <2>3. t # <<>> /\ (s = <<>> <=> n = 0)
    BY <2>1
  <2> QED
    BY <2>2, <2>3
<1> HIDE DEF t, n
<1>3. WalkOf(e, t)
  <2>1. t[1] = e
    <3>1. CASE n = 0
      BY <1>2, <3>1
    <3>2. CASE n # 0
      <4>1. 1 \in 1 .. n /\ s # <<>>
        BY <1>2, <3>2
      <4> QED
        BY <1>2, <4>1 DEF WalkOf
    <3> QED
      BY <3>1, <3>2
  <2>2. \A k \in DOMAIN t : t[k] \in Addr /\ t[k] < NextOf(e)
    <3> SUFFICES ASSUME NEW k \in DOMAIN t PROVE t[k] \in Addr /\ t[k] < NextOf(e)
      OBVIOUS
    <3>1. k \in 1 .. n \/ k = n + 1
      BY <1>2
    <3> QED
      BY <1>2, <3>1 DEF WalkOf
  <2>3. ASSUME NEW k \in DOMAIN t, k + 1 \in DOMAIN t
        PROVE  t[k + 1] = NextAddr(code, t[k]) /\ ClassAt(t[k]) # "stop"
    <3>1. k \in 1 .. n /\ (k + 1 \in 1 .. n \/ k = n)
      BY <1>2, <2>3
    <3>2. CASE k + 1 \in 1 .. n
      BY <1>2, <3>1, <3>2 DEF WalkOf
    <3>3. CASE k = n
      <4>1. s # <<>> /\ t[k] = s[n] /\ t[k + 1] = a
        BY <1>2, <3>1, <3>3
      <4> QED
        BY <4>1 DEF n
    <3> QED
      BY <3>1, <3>2, <3>3
  <2> QED
    BY <2>1, <2>2, <2>3 DEF WalkOf
<1>4. ASSUME Padded(s, a) PROVE Padded(t, NextAddr(code, a))
  <2> SUFFICES ASSUME NEW j \in DOMAIN t, \A z \in DOMAIN t : z > j => IsNop(t[z]),
                      NEW b \in NextAddr(code, t[j]) .. NextAddr(code, a) - 1
               PROVE  IsNop(b)
    BY DEF Padded
  <2>1. NextAddr(code, a) \in Nat
    BY <1>1, NextIsNat
  <2>2. CASE j = n + 1
    BY <1>2, <2>1, <2>2
  <2>3. CASE j \in 1 .. n
    <3>1. IsNop(a)
      BY <1>2, <2>3
    <3>2. NextAddr(code, a) = a + 1
      <4>1. code[a + 1] = 0
        BY <3>1 DEF IsNop, Nop
      <4>2. Length[0] = 1
        BY DEF Length, Byte, Addr16, Addr11, Rel, BitRel, ImmRel, DirRel, Imm, Direct, Bit, TwoOps, Rn
      <4> QED
        BY <4>1, <4>2 DEF NextAddr
    <3>3. \A z \in DOMAIN s : z > j => IsNop(s[z])
      BY <1>2
    <3>4. s[j] = t[j] /\ j \in DOMAIN s
      BY <1>2, <2>3
    <3>5. NextAddr(code, t[j]) \in Nat
      <4>1. t[j] \in Addr
        BY <1>3 DEF WalkOf
      <4>2. t[j] \in Nat /\ t[j] < Len(code)
        BY <1>1, <4>1 DEF Addr
      <4> QED
        BY <1>1, <4>2, NextIsNat
    <3>6. b = a \/ b \in NextAddr(code, s[j]) .. a - 1
      BY <1>1, <3>2, <3>4, <3>5
    <3>7. \A c \in NextAddr(code, s[j]) .. a - 1 : IsNop(c)
      BY <1>4, <3>3, <3>4 DEF Padded
    <3> QED
      BY <3>1, <3>6, <3>7
  <2> QED
    BY <1>2, <2>2, <2>3
<1> QED
  BY <1>2, <1>3, <1>4 DEF t

\* A body that ends is kept behind those of the functions before it.
LEMMA EndsShape ==
    ASSUME BodiesInv, ShapeInv, use = "bodies", WalkStep, step = "in", step' = "next",
           ents' = ents, NEW s \in Seq(Nat), Trim(s) \in Seq(Nat), walks' = Kept(s),
           Trim(s) # <<>> => BodyOf(e, Trim(s)),
           e \in Addr /\ ~IsNop(e) => Trim(s) # <<>>
    PROVE  ShapeInv'
<1>1. /\ Ascending /\ InBody /\ InOrder /\ NoneLeftOut
      /\ walks \in Seq(Nat \X Seq(Nat)) /\ e \in Nat /\ \A g \in ents : g > e
      /\ ents \subseteq Nat
  BY FunctionsAreMapped DEF ShapeInv, BodiesInv, WalkInv, InFunction
<1>2. /\ Functions' = Functions /\ Addr' = Addr
      /\ \A f, t : BodyOf(f, t)' = BodyOf(f, t)
      /\ \A x : IsNop(x)' = IsNop(x)
  BY SameMap, SameShape
<1>3. Ascending' /\ InBody'
  BY <1>1, <1>2 DEF Ascending, InBody
<1>4. CASE Trim(s) = <<>>
  <2>1. walks' = walks
    BY <1>4 DEF Kept
  <2>2. InOrder'
    BY <1>1, <1>2, <2>1 DEF InOrder, Walked, Ins
  <2>3. NoneLeftOut'
    BY <1>1, <1>2, <1>4, <2>1 DEF NoneLeftOut, Walked
  <2> QED
    BY <1>3, <2>2, <2>3 DEF ShapeInv, OnlyRunsOut
<1>5. CASE Trim(s) # <<>>
  <2> DEFINE n == Len(walks)
             w == Append(walks, <<e, Trim(s)>>)
  <2>1. walks' = w
    BY <1>5 DEF Kept
  <2>2. <<e, Trim(s)>> \in Nat \X Seq(Nat)
    BY <1>1
  <2>3. /\ DOMAIN w = 1 .. n + 1 /\ n \in Nat /\ DOMAIN walks = 1 .. n
        /\ w[n + 1] = <<e, Trim(s)>> /\ \A z \in 1 .. n : w[z] = walks[z]
    BY <1>1, <2>2
  <2> HIDE DEF n, w
  <2>4. ASSUME NEW z \in DOMAIN w
        PROVE  /\ w[z][1] \in Functions /\ BodyOf(w[z][1], w[z][2])
               /\ \A g \in ents : w[z][1] < g
               /\ z \in 1 .. n => w[z][1] < e /\ w[z] = walks[z]
    <3>1. CASE z \in 1 .. n
      BY <1>1, <2>3, <3>1 DEF InOrder, Walked, Ins
    <3>2. CASE z = n + 1
      <4>1. w[z][1] = e /\ w[z][2] = Trim(s)
        BY <2>3, <3>2
      <4>2. e \in Functions /\ BodyOf(e, Trim(s)) /\ \A g \in ents : e < g
        BY <1>1, <1>5 DEF InBody
      <4>3. ~(z \in 1 .. n)
        BY <2>3, <3>2
      <4> QED
        BY <4>1, <4>2, <4>3
    <3> QED
      BY <2>3, <3>1, <3>2
  <2>5. ASSUME NEW z \in DOMAIN w, NEW k \in DOMAIN w, z < k PROVE w[z][1] < w[k][1]
    <3>1. z \in 1 .. n
      BY <2>3, <2>5
    <3>2. CASE k \in 1 .. n
      BY <1>1, <2>3, <2>5, <3>1, <3>2 DEF InOrder, Walked
    <3>3. CASE k = n + 1
      BY <2>3, <2>4, <3>1, <3>3
    <3> QED
      BY <2>3, <3>2, <3>3
  <2>6. InOrder'
    BY <1>2, <2>1, <2>4, <2>5 DEF InOrder, Walked, Ins
  <2>7. NoneLeftOut'
    <3> SUFFICES ASSUME NEW f \in Functions \cap Addr, f \notin ents, ~IsNop(f)
                 PROVE  \E z \in DOMAIN w : w[z][1] = f
      BY <1>2, <2>1 DEF NoneLeftOut, Walked
    <3>1. CASE f = e
      <4>1. n + 1 \in DOMAIN w /\ w[n + 1][1] = f
        BY <2>3, <3>1
      <4> QED
        BY <4>1
    <3>2. CASE f # e
      <4>1. PICK z \in DOMAIN walks : walks[z][1] = f
        BY <1>1, <3>2 DEF NoneLeftOut, Walked
      <4>2. z \in DOMAIN w /\ w[z] = walks[z]
        BY <2>3
      <4> QED
        BY <4>1, <4>2
    <3> QED
      BY <3>1, <3>2
  <2> QED
    BY <1>3, <2>6, <2>7 DEF ShapeInv, OnlyRunsOut
<1> QED
  BY <1>4, <1>5

LEMMA WalkInstructionShape ==
    ASSUME BodiesInv, ShapeInv, WalkInstruction PROVE ShapeInv'
<1> SUFFICES ASSUME use = "bodies" PROVE ShapeInv'
  BY DEF WalkInstruction, ShapeInv
<1>1. /\ step = "in" /\ GoesOn /\ a \in Addr /\ ops' = Append(ops, a) /\ vars' = vars
      /\ use' = use /\ ents' = ents /\ e' = e /\ e \in Nat /\ ops \in Seq(Nat) /\ Lit(ops)
      /\ Bright(ops) => a \in insns
      /\ Ascending /\ InBody /\ InOrder /\ NoneLeftOut /\ Whole(code, a)
  BY DEF WalkInstruction, Decodable, ShapeInv, BodiesInv, WalkInv, InFunction
<1>2. a < NextOf(e)
  BY <1>1, EndFacts DEF GoesOn, InBody
<1>3. /\ ops' \in Seq(Nat) /\ ops' # <<>> /\ ops'[Len(ops')] = a /\ WalkOf(e, ops')
      /\ Padded(ops', NextAddr(code, a))
  <2>1. /\ WalkOf(e, ops) /\ Padded(ops, a) /\ (ops = <<>> => a = e)
        /\ ops # <<>> => a = NextAddr(code, ops[Len(ops)]) /\ ClassAt(ops[Len(ops)]) # "stop"
    BY <1>1 DEF InBody
  <2> QED
    BY <1>1, <1>2, <2>1, WalkAppend
<1>4. CASE Leaves
  <2>1. step' = "next" /\ walks' = Kept(ops') /\ ClassAt(a) = "stop"
    BY <1>4 DEF WalkInstruction, Leaves
  <2>2. WalkStep
    BY <1>1, <2>1 DEF WalkStep
  <2>3. a \in Nat
    BY <1>1, CodeIsImage DEF Addr, BodiesInv
  <2>4. Lit(ops')
    BY <1>1, <2>3, LitAppend
  <2>5. Trim(ops') \in Seq(Nat)
    BY <1>3, <2>4, LitTrim
  <2>6. /\ Trim(ops') # <<>> => BodyOf(e, Trim(ops'))
        /\ ~IsNop(e) => Trim(ops') # <<>>
    BY <1>1, <1>3, <2>1, <2>3, TrimIsBody
  <2> QED
    BY <1>1, <1>3, <2>1, <2>2, <2>5, <2>6, EndsShape
<1>5. CASE ~Leaves
  <2>1. /\ step' = step /\ a' = NextAddr(code, a) /\ walks' = walks /\ ClassAt(a) # "stop"
    BY <1>5 DEF WalkInstruction, Onward, Leaves
  <2>2. WalkStep
    BY <1>1, <2>1 DEF WalkStep
  <2>3. /\ Functions' = Functions /\ Addr' = Addr /\ code' = code
        /\ \A f, s : BodyOf(f, s)' = BodyOf(f, s) /\ WalkOf(f, s)' = WalkOf(f, s)
        /\ \A s, m : Padded(s, m)' = Padded(s, m)
        /\ \A x : IsNop(x)' = IsNop(x) /\ ClassAt(x)' = ClassAt(x)
    BY <2>2, SameMap, SameShape
  <2>4. Ascending'
    BY <1>1, <2>3 DEF Ascending
  <2>5. InBody'
    <3>1. WalkOf(e, ops)' = WalkOf(e, ops') /\ Padded(ops, a)' = Padded(ops', a')
      BY <1>1, <2>3, SameCode DEF vars, WalkOf, Padded, NextOf, ClassAt, IsNop
    <3>2. ClassAt(ops[Len(ops)])' = ClassAt(a)
      BY <1>1, <1>3 DEF ClassAt, vars
    <3>3. a' <= Len(code)
      BY <1>1, <2>1 DEF Whole, NextAddr
    <3> QED
      BY <1>1, <1>3, <2>1, <2>3, <3>1, <3>2, <3>3 DEF InBody
  <2>6. InOrder' /\ NoneLeftOut' /\ OnlyRunsOut'
    BY <1>1, <2>1, <2>3 DEF InOrder, NoneLeftOut, OnlyRunsOut, Walked, Ins
  <2> QED
    BY <2>4, <2>5, <2>6 DEF ShapeInv
<1> QED
  BY <1>4, <1>5

LEMMA FunctionEndsShape ==
    ASSUME BodiesInv, ShapeInv, FunctionEnds PROVE ShapeInv'
<1> SUFFICES ASSUME use = "bodies" PROVE ShapeInv'
  BY DEF FunctionEnds, ShapeInv
<1>1. /\ step = "in" /\ ~(a < End) /\ vars' = vars /\ step' = "next" /\ walks' = Kept(ops)
      /\ use' = use /\ ents' = ents /\ e \in Nat /\ a \in Nat /\ ops \in Seq(Nat) /\ Lit(ops)
      /\ InBody
  BY DEF FunctionEnds, GoesOn, ShapeInv, BodiesInv, WalkInv, InFunction
<1>2. WalkStep
  BY <1>1 DEF WalkStep
<1>3. End \in Nat /\ NextOf(e) <= End /\ (e \in Addr => e < End) /\ NextOf(e) \in Nat
  BY <1>1, EndFacts, NextOfFacts DEF InBody
<1>4. NextOf(e) <= a
  BY <1>1, <1>3
<1>5. WalkOf(e, ops) /\ Padded(ops, a) /\ (ops = <<>> => a = e)
  BY <1>1 DEF InBody
<1>6. /\ Trim(ops) # <<>> => BodyOf(e, Trim(ops))
      /\ ops # <<>> /\ ~IsNop(e) => Trim(ops) # <<>>
  BY <1>1, <1>4, <1>5, TrimIsBody
<1>7. e \in Addr => ops # <<>>
  BY <1>1, <1>3, <1>5
<1>8. Trim(ops) \in Seq(Nat)
  BY <1>1, LitTrim
<1> QED
  BY <1>1, <1>2, <1>6, <1>7, <1>8, EndsShape

LEMMA NextFunctionShape ==
    ASSUME BodiesInv, ShapeInv, NextFunction PROVE ShapeInv'
<1> SUFFICES ASSUME use = "bodies" PROVE ShapeInv'
  BY DEF NextFunction, ShapeInv
<1>1. /\ step = "next" /\ vars' = vars /\ use' = use /\ walks' = walks
      /\ Ascending /\ InOrder /\ NoneLeftOut /\ Functions \subseteq Nat /\ ents \subseteq Functions
  BY FunctionsAreMapped DEF NextFunction, ShapeInv, BodiesInv, WalkInv
<1>2. WalkStep
  BY <1>1 DEF NextFunction, WalkStep
<1>3. /\ Functions' = Functions /\ Addr' = Addr
      /\ \A f, s : BodyOf(f, s)' = BodyOf(f, s)
      /\ \A x : IsNop(x)' = IsNop(x)
  BY <1>2, SameMap, SameShape
<1>4. CASE ents = {}
  <2>1. step' = "done" /\ ents' = ents
    BY <1>1, <1>4 DEF NextFunction
  <2> QED
    BY <1>1, <1>3, <1>4, <2>1
       DEF ShapeInv, Ascending, InBody, InOrder, NoneLeftOut, OnlyRunsOut, Walked, Ins
<1>5. CASE ents # {}
  <2>1. step' = "in" /\ e' = Min(ents) /\ a' = Min(ents) /\ ops' = <<>> /\ ents' = ents \ {e'}
    BY <1>1, <1>5 DEF NextFunction
  <2>2. e' \in ents /\ (\A g \in ents : e' <= g) /\ ents \subseteq Nat
    BY <1>1, <1>5, <2>1, LeastExists
  <2>3. Ascending'
    <3> SUFFICES ASSUME NEW g \in ents', NEW h \in Functions, h > g PROVE h \in ents'
      BY <1>3 DEF Ascending
    <3>1. h \in ents /\ g \in ents /\ e' <= g
      BY <1>1, <2>1, <2>2 DEF Ascending
    <3>2. h # e'
      BY <2>2, <3>1
    <3> QED
      BY <2>1, <3>1, <3>2
  <2>4. InBody' /\ OnlyRunsOut'
    <3>1. ASSUME NEW h \in Functions, h > e' PROVE h \in ents'
      <4>1. h \in ents
        BY <1>1, <2>2, <3>1 DEF Ascending
      <4>2. h # e'
        BY <2>2, <3>1
      <4> QED
        BY <2>1, <4>1, <4>2
    <3>2. WalkOf(e, ops)' /\ Padded(ops, a)'
      BY <2>1 DEF WalkOf, Padded
    <3> QED
      BY <1>1, <1>3, <2>1, <2>2, <3>1, <3>2 DEF InBody, OnlyRunsOut
  <2>5. InOrder' /\ NoneLeftOut'
    BY <1>1, <1>3, <2>1, <2>2 DEF InOrder, NoneLeftOut, Walked, Ins
  <2> QED
    BY <2>3, <2>4, <2>5 DEF ShapeInv
<1> QED
  BY <1>4, <1>5

\* A body that goes on outside the image has run out of it: the next function lies
\* further outside.
LEMMA OutsideRunsOut ==
    ASSUME BodiesInv, InBody, step = "in", use = "bodies", GoesOn, a \notin Addr
    PROVE  RunsOut
<1>1. /\ Functions \subseteq Nat /\ Len(code) \in Nat /\ e \in Nat /\ a \in Nat
      /\ e + Cap \in Nat /\ ents \subseteq Functions /\ \A g \in ents : g > e
      /\ a < End
  BY FunctionsAreMapped, CodeIsImage, FunctionBodiesAssumption
     DEF BodiesInv, WalkInv, InFunction, GoesOn
<1>2. /\ a >= Len(code) /\ (a = e \/ a <= Len(code)) /\ e \in Functions
      /\ \A h \in Functions : h > e => h \in ents
  BY <1>1 DEF Addr, InBody
<1>3. a = (IF e \in Addr THEN Len(code) ELSE e)
  <2>1. CASE e \in Addr
    BY <1>1, <1>2, <2>1 DEF Addr
  <2>2. CASE e \notin Addr
    <3>1. ASSUME ops # <<>> PROVE FALSE
      <4>1. 1 \in DOMAIN ops
        BY <3>1 DEF BodiesInv, WalkInv, InFunction
      <4>2. ops[1] = e /\ ops[1] \in Addr
        BY <3>1, <4>1 DEF InBody, WalkOf
      <4> QED
        BY <2>2, <4>2
    <3> QED
      BY <2>2, <3>1 DEF InBody
  <2> QED
    BY <2>1, <2>2
<1> DEFINE b == IF ents = {} THEN Len(code) ELSE Min(ents)
<1>4. /\ b \in Nat /\ (ents = {} => b = Len(code))
      /\ \A g \in ents : b <= g
      /\ ents # {} => b \in ents
  BY <1>1, LeastExists
<1>5. End = Min({b, e + Cap})
  BY DEF End
<1> HIDE DEF b
<1>6. End \in Nat /\ End <= b /\ End <= e + Cap
  <2>1. /\ Min({b, e + Cap}) \in {b, e + Cap}
        /\ \A y \in {b, e + Cap} : Min({b, e + Cap}) <= y
    BY <1>1, <1>4, LeastExists
  <2> QED
    BY <1>1, <1>4, <1>5, <2>1
<1>7. a < e + Cap /\ a < b
  BY <1>1, <1>4, <1>6
<1>8. ents # {}
  BY <1>1, <1>2, <1>4, <1>7
<1>9. \E g \in Functions : g > e
  BY <1>1, <1>8
<1>10. ASSUME NEW g \in Functions, g > e PROVE g > a
  BY <1>1, <1>2, <1>4, <1>7, <1>10
<1> QED
  BY <1>3, <1>7, <1>9, <1>10 DEF RunsOut

\* The other steps begin, or leave what was walked as it is.
LEMMA OtherShape ==
    ASSUME BodiesInv, ShapeInv,
           Follow \/ WalkRaises \/ ([Next]_vars /\ UNCHANGED bodyVars)
    PROVE  ShapeInv'
<1>1. CASE Follow
  <2>1. /\ step' = "next" /\ ents' = Functions /\ vars' = vars /\ walks' = <<>>
    BY <1>1 DEF Follow, BodiesInv, WalkInv
  <2>2. Functions' = Functions
    BY <2>1, SameCode DEF vars, Functions, BodiesInv
  <2> QED
    BY <2>1, <2>2 DEF ShapeInv, Ascending, InBody, InOrder, NoneLeftOut, OnlyRunsOut
<1>2. CASE WalkRaises
  <2>1. /\ step = "in" /\ step' = "raised" /\ vars' = vars
        /\ use' = use /\ ents' = ents /\ e' = e /\ a' = a /\ walks' = walks
    BY <1>2 DEF WalkRaises
  <2>2. WalkStep
    BY <2>1 DEF WalkStep
  <2>3. /\ Functions' = Functions /\ Addr' = Addr
        /\ \A f, s : BodyOf(f, s)' = BodyOf(f, s)
        /\ \A x : IsNop(x)' = IsNop(x)
    BY <2>2, SameMap, SameShape
  <2>4. ASSUME use = "bodies" PROVE OnlyRunsOut'
    <3>0. code' = code
      BY <2>2, SameMap
    <3> SUFFICES ASSUME a \notin Addr PROVE RunsOut
      BY <2>1, <2>3, <2>4, <3>0 DEF OnlyRunsOut, RunsOut
    <3>1. InBody
      BY <2>1, <2>4 DEF ShapeInv
    <3> QED
      BY <1>2, <2>1, <2>4, <3>1, OutsideRunsOut DEF WalkRaises
  <2> QED
    BY <2>1, <2>3, <2>4 DEF ShapeInv, Ascending, InBody, InOrder, NoneLeftOut, Walked, Ins
<1>3. CASE [Next]_vars /\ UNCHANGED bodyVars
  <2>1. /\ use' = use /\ step' = step /\ ents' = ents /\ e' = e /\ a' = a
        /\ ops' = ops /\ walks' = walks
    BY <1>3 DEF bodyVars
  <2>2. CASE step = "follow"
    BY <2>1, <2>2 DEF ShapeInv
  <2>3. CASE step # "follow"
    <3>1. vars' = vars
      BY <1>3, <2>3, FollowedIsFollowed DEF BodiesInv, WalkInv
    <3>2. WalkStep
      BY <2>1, <2>3, <3>1 DEF WalkStep, BodiesInv, WalkInv
    <3>3. /\ Functions' = Functions /\ Addr' = Addr /\ code' = code
          /\ \A f, s : BodyOf(f, s)' = BodyOf(f, s)
          /\ \A x : IsNop(x)' = IsNop(x)
      BY <3>2, SameMap, SameShape
    <3>4. InBody => InBody'
      <4>1. WalkOf(e, ops)' = WalkOf(e, ops) /\ Padded(ops, a)' = Padded(ops, a)
            /\ ClassAt(ops[Len(ops)])' = ClassAt(ops[Len(ops)])
        BY <2>1, <3>1, SameCode DEF vars, WalkOf, Padded, NextOf, ClassAt, IsNop, Functions
      <4> QED
        BY <2>1, <3>3, <4>1 DEF InBody
    <3>5. OnlyRunsOut => OnlyRunsOut'
      BY <2>1, <3>3 DEF OnlyRunsOut, RunsOut
    <3> QED
      BY <2>1, <3>3, <3>4, <3>5 DEF ShapeInv, Ascending, InOrder, NoneLeftOut, Walked, Ins
  <2> QED
    BY <2>2, <2>3
<1> QED
  BY <1>1, <1>2, <1>3

\* What the invariant says of the bodies is what is wanted of them.
LEMMA BodiesRightByInv == BodiesInv /\ ShapeInv => BodiesAreRight
<1> SUFFICES ASSUME BodiesInv, ShapeInv, use = "bodies" PROVE BodiesAreRight
  BY DEF BodiesAreRight
<1>1. CASE step = "follow"
  BY <1>1 DEF BodiesInv, WalkInv, BodiesAreRight
<1>2. CASE step # "follow"
  <2>1. /\ InOrder /\ NoneLeftOut /\ walks \in Seq(Nat \X Seq(Nat)) /\ Functions \subseteq Nat
        /\ ents \subseteq Functions /\ FollowInv /\ pc = "done"
    BY <1>2, FunctionsAreMapped DEF ShapeInv, BodiesInv, WalkInv
  <2>2. ASSUME NEW z \in DOMAIN walks
        PROVE  /\ Walked(z) \in Functions /\ Walked(z) \in Nat
               /\ Ins(z) \in Seq(Nat) /\ BodyOf(Walked(z), Ins(z))
    BY <2>1 DEF InOrder, Walked, Ins
  <2>3. ASSUME NEW z \in DOMAIN walks
        PROVE  LET s == Ins(z) n == Len(s) IN
               /\ s[1] = Walked(z)
               /\ \A k \in 1 .. n - 1 : s[k + 1] = NextAddr(code, s[k]) /\ ClassAt(s[k]) # "stop"
               /\ \A k \in 1 .. n : s[k] < NextOf(Walked(z))
               /\ \/ ClassAt(s[n]) = "stop"
                  \/ \A b \in NextAddr(code, s[n]) .. NextOf(Walked(z)) - 1 : code[b + 1] = Nop
    <3> DEFINE s == Ins(z)
               n == Len(s)
    <3>1. s \in Seq(Nat) /\ BodyOf(Walked(z), s)
      BY <2>2
    <3> HIDE DEF s
    <3>2. n \in Nat /\ DOMAIN s = 1 .. n
      BY <3>1
    <3>3. \A k \in 1 .. n - 1 : k \in DOMAIN s /\ k + 1 \in DOMAIN s
      BY <3>2
    <3>4. s # <<>> /\ WalkOf(Walked(z), s)
      BY <3>1 DEF BodyOf
    <3>5. /\ s[1] = Walked(z)
          /\ \A k \in 1 .. n - 1 : s[k + 1] = NextAddr(code, s[k]) /\ ClassAt(s[k]) # "stop"
          /\ \A k \in 1 .. n : s[k] < NextOf(Walked(z))
      BY <3>2, <3>3, <3>4 DEF WalkOf
    <3>6. \/ ClassAt(s[n]) = "stop"
          \/ \A b \in NextAddr(code, s[n]) .. NextOf(Walked(z)) - 1 : code[b + 1] = Nop
      BY <3>1 DEF BodyOf, IsNop
    <3> QED
      BY <3>5, <3>6 DEF s
  <2>4. ASSUME NEW z \in DOMAIN walks, NEW k \in DOMAIN walks, z < k
        PROVE  Max(ToSet(Ins(z))) < Walked(k)
    <3> DEFINE s == Ins(z)
               f == Walked(z)
    <3>1. s \in Seq(Nat) /\ s # <<>> /\ WalkOf(f, s) /\ f \in Nat /\ Walked(k) \in Functions
      BY <2>2 DEF BodyOf
    <3>2. f < Walked(k)
      BY <2>1, <2>4 DEF InOrder
    <3>3. NextOf(f) \in Nat /\ NextOf(f) <= Walked(k) /\ Walked(k) \in Nat
      BY <1>2, <2>1, <3>1, <3>2, NextOfFacts
    <3> HIDE DEF s, f
    <3>4. ToSet(s) = {s[j] : j \in DOMAIN s}
      BY DEF ToSet
    <3>5. \A j \in DOMAIN s : s[j] \in Nat /\ s[j] < NextOf(f)
      BY <3>1 DEF WalkOf
    <3>6. 1 \in DOMAIN s
      BY <3>1
    <3>7. ToSet(s) \subseteq 0 .. NextOf(f) /\ ToSet(s) # {} /\ \A x \in ToSet(s) : x < NextOf(f)
      BY <3>3, <3>4, <3>5, <3>6
    <3>8. Max(ToSet(s)) \in ToSet(s)
      BY <3>3, <3>7, GreatestExists
    <3>9. Max(ToSet(s)) < NextOf(f) /\ Max(ToSet(s)) \in Nat
      BY <3>3, <3>7, <3>8
    <3>10. Max(ToSet(s)) < Walked(k)
      BY <3>3, <3>9
    <3> QED
      BY <3>10 DEF s
  <2>5. ASSUME step = "done", NEW f \in Functions \cap Addr, code[f + 1] # Nop
        PROVE  \E z \in DOMAIN walks : Walked(z) = f
    BY <2>1, <2>5 DEF NoneLeftOut, IsNop
  <2> QED
    BY <2>3, <2>4, <2>5 DEF BodiesAreRight
<1> QED
  BY <1>1, <1>2
-----------------------------------------------------------------------------
(* Theorems.                                                               *)

\* For any image, vectors, cap and bound: the map stays as follow left it, and what a
\* walk holds was reached by follow up to the first jump table or, for a body, jump.
THEOREM BodiesInvariant == BodiesSpec => []BodiesInv
<1>1. BodiesInit => BodiesInv
  BY FollowInit DEF BodiesInit, BodiesInv, WalkInv, InFunction, WalksAreLit, Lost
<1>2. BodiesInv /\ [BodiesNext]_<<vars, bodyVars>> => BodiesInv'
  BY FollowsKeeps, FollowKeeps, NextFunctionKeeps, WalkRaisesKeeps, WalkInstructionKeeps,
     FunctionEndsKeeps DEF BodiesNext
<1> QED
  BY <1>1, <1>2, PTL DEF BodiesSpec

\* The map is right while bodies and fingerprints are taken from it.
THEOREM MapStaysRight == BodiesSpec => []MapIsRight
<1>1. BodiesInv => MapIsRight
  BY MapIsRightByInv DEF BodiesInv
<1> QED
  BY <1>1, BodiesInvariant, PTL

\* A body, up to its first jump, and a fingerprint, up to its first jump table, hold
\* code that follow reached.
THEOREM WalksWereReached == BodiesSpec => []WalksAreReachable
<1>1. BodiesInv => WalksAreReachable
  BY DEF BodiesInv, WalkInv, WalksAreLit, Lit, WalksAreReachable
<1> QED
  BY <1>1, BodiesInvariant, PTL

\* The shape of the bodies, for any image, cap and number of functions.
THEOREM ShapeInvariant == BodiesSpec => []ShapeInv
<1>1. BodiesInit => ShapeInv
  BY DEF BodiesInit, ShapeInv
<1>2. BodiesInv /\ ShapeInv /\ [BodiesNext]_<<vars, bodyVars>> => ShapeInv'
  <2> SUFFICES ASSUME BodiesInv, ShapeInv, [BodiesNext]_<<vars, bodyVars>> PROVE ShapeInv'
    OBVIOUS
  <2>1. CASE Follow \/ WalkRaises \/ ([Next]_vars /\ UNCHANGED bodyVars)
    BY <2>1, OtherShape
  <2>2. CASE NextFunction \/ WalkInstruction \/ FunctionEnds
    BY <2>2, NextFunctionShape, WalkInstructionShape, FunctionEndsShape
  <2> QED
    BY <2>1, <2>2 DEF BodiesNext
<1> QED
  BY <1>1, <1>2, BodiesInvariant, PTL DEF BodiesSpec

\* The map is lost only by an instruction cut off by the end of the image; bodies and
\* fingerprints by such an instruction that follow did not reach, and bodies by one
\* that runs out of the image because the next function lies outside.
THEOREM BodiesLostOnlyBy == BodiesSpec => []LostOnlyBy
<1>1. BodiesInv /\ ShapeInv => LostOnlyBy
  <2> SUFFICES ASSUME BodiesInv, ShapeInv PROVE LostOnlyBy
    OBVIOUS
  <2>1. RaisesOnlyAtEnd
    BY RaisesRightByInv DEF BodiesInv
  <2>2. step = "raised" => CutOff \/ RunsOut
    BY DEF BodiesInv, WalkInv, Lost, ShapeInv, OnlyRunsOut
  <2> QED
    BY <2>1, <2>2 DEF LostOnlyBy
<1> QED
  BY <1>1, BodiesInvariant, ShapeInvariant, PTL

\* A body goes on instruction by instruction from its function to its first return, the
\* next function, the cap or the padding; the bodies are disjoint and in ascending order,
\* and no function that begins with an instruction is left out (trace.function_bodies).
THEOREM BodiesAreTheFunctions == BodiesSpec => []BodiesAreRight
<1>1. BodiesInv /\ ShapeInv => BodiesAreRight
  BY BodiesRightByInv
<1> QED
  BY <1>1, BodiesInvariant, ShapeInvariant, PTL
-----------------------------------------------------------------------------
(* The report on an image.                                                 *)

Kinds == {"none", "erased", "zero", "data"}
ImageTypeOK ==
    /\ blob \in Seq(Byte)
    /\ phase \in {"header", "sections", "vectors", "entry", "strings", "done", "raised"}
    /\ off \in Nat /\ start \in Nat /\ kind \in Kinds
    /\ sections \in Seq([start : Nat, end : Nat, kind : Kinds])
    /\ pos \in Nat /\ left \in Nat /\ i \in Nat

\* Sections that lie one behind the other from 0 on, each of its kind and none of the
\* kind of the one before it.
OfKind(from, to, k) == k \in {"erased", "zero"} => Bytes(from, to) = Holds[k]
Chain(ss) ==
    /\ \A k \in DOMAIN ss : /\ ss[k].start < ss[k].end
                            /\ OfKind(ss[k].start, ss[k].end, ss[k].kind)
    /\ \A k \in DOMAIN ss : k > 1 => ss[k - 1].end = ss[k].start /\ ss[k - 1].kind # ss[k].kind
    /\ ss # <<>> => ss[1].start = 0

\* What begins at s and is of kind k goes on where the sections end.
Adjoins(ss, s, k) ==
    IF ss = <<>> THEN s = 0 ELSE ss[Len(ss)].end = s /\ ss[Len(ss)].kind # k

\* The section in the making is of its kind as far as the blocks were taken.
Mapped ==
    /\ Chain(sections)
    /\ phase = "header" => off = 0
    /\ phase \in {"header", "sections"} =>
          \/ off = 0 /\ start = 0 /\ kind = "none" /\ sections = <<>>
          \/ /\ start < off /\ start < Size /\ kind # "none"
             /\ OfKind(start, Least(off, Size), kind)
             /\ Adjoins(sections, start, kind)
    /\ phase \in {"vectors", "entry", "strings", "done"} =>
          sections # <<>> /\ sections[Len(sections)].end = Size

\* The first instruction was decoded before its target is asked for.
Listed ==
    /\ phase \notin {"header", "raised"} => Size >= 8
    /\ phase \in {"header", "sections"} => pos = 0 /\ left = 10
    /\ phase = "vectors" => (pos = 0 /\ left = 10) \/ (Code # <<>> /\ Whole(Code, 0))

\* Every string before i was found.
Scanned ==
    /\ phase \notin {"strings", "done"} => i = 0
    /\ strings = {u \in 0 .. Size - 4 : IsString(u) /\ u < i}
    /\ phase = "done" => i >= Size - 2

ImageInv == ImageTypeOK /\ Mapped /\ Listed /\ Scanned /\ LostOnlyByCode
-----------------------------------------------------------------------------
\* The image stays as it is, and so does what is defined by it alone.
LEMMA SameBlob ==
    ASSUME blob' = blob
    PROVE  /\ Size' = Size /\ CodeStart' = CodeStart /\ Code' = Code
           /\ \A x : At(x)' = At(x) /\ IsString(x)' = IsString(x)
           /\ \A x, y : Bytes(x, y)' = Bytes(x, y)
           /\ \A x, y, k : OfKind(x, y, k)' = OfKind(x, y, k)
           /\ \A ss : Chain(ss)' = Chain(ss)
<1>1. Size' = Size /\ \A x : At(x)' = At(x)
  BY DEF Size, At
<1>2. CodeStart' = CodeStart /\ Code' = Code
  BY <1>1 DEF CodeStart, Code
<1>3. \A x : IsString(x)' = IsString(x)
  BY <1>1 DEF IsString
<1>4. \A x, y : Bytes(x, y)' = Bytes(x, y)
  BY <1>1 DEF Bytes
<1>5. \A x, y, k : OfKind(x, y, k)' = OfKind(x, y, k)
  BY <1>4 DEF OfKind
<1>6. \A ss : Chain(ss)' = Chain(ss)
  BY <1>5 DEF Chain
<1> QED
  BY <1>1, <1>2, <1>3, <1>4, <1>5, <1>6

\* A byte of the image.
LEMMA AtIsByte ==
    ASSUME blob \in Seq(Byte), NEW x \in Nat, x < Size
    PROVE  At(x) \in 0 .. 255
<1>1. x + 1 \in Nat /\ 1 <= x + 1 /\ x + 1 <= Len(blob)
  BY DEF Size
<1> QED
  BY <1>1, ByteAt DEF At

\* The code is a part of the image, and nothing when it would begin behind its end.
LEMMA CodeIsBytes ==
    ASSUME blob \in Seq(Byte), Size >= 8
    PROVE  /\ CodeStart \in Nat /\ Code \in Seq(Byte) /\ Len(Code) \in Nat
           /\ Code = <<>> => CodeStart >= Size
<1>1. Size \in Nat /\ Size = Len(blob)
  BY DEF Size
<1>2. At(4) \in 0 .. 255 /\ At(5) \in 0 .. 255
  <2>1. 4 \in Nat /\ 4 < Size /\ 5 \in Nat /\ 5 < Size
    BY <1>1
  <2> QED
    BY <2>1, AtIsByte
<1>3. CodeStart \in Nat
  <2>1. \A x, y \in 0 .. 255 : x + 256 * y \in Nat
    OBVIOUS
  <2>2. At(4) + 256 * At(5) \in Nat
    BY <1>2, <2>1
  <2>3. Page \in Nat
    BY FirmwareImageAssumption
  <2>4. \A m, p \in Nat : m * p \in Nat
    OBVIOUS
  <2> QED
    BY <2>2, <2>3, <2>4 DEF CodeStart
<1>4. Code \in Seq(Byte)
  <2>1. \A x \in CodeStart + 1 .. Size : blob[x] \in Byte
    BY <1>1, <1>3
  <2> QED
    BY <1>1, <1>3, <2>1 DEF Code
<1>5. Code = <<>> => CodeStart >= Size
  <2> SUFFICES ASSUME CodeStart < Size PROVE Code # <<>>
    BY <1>1, <1>3
  <2>1. Len(Code) = Size - CodeStart
    BY <1>1, <1>3 DEF Code
  <2> QED
    BY <1>1, <1>3, <2>1
<1> QED
  BY <1>3, <1>4, <1>5

\* A string has four bytes at least and lies within the image.
LEMMA StringFits ==
    ASSUME blob \in Seq(Byte), NEW u \in Nat, IsString(u)
    PROVE  /\ \E k \in 2 .. 32 : At(u) = 2 * k /\ At(u) \div 2 = k
           /\ At(u) \in Nat /\ At(u) >= 4 /\ u + At(u) <= Size /\ u \in 0 .. Size - 4
<1>1. PICK k \in 2 .. 32 : At(u) = 2 * k
  BY DEF IsString
<1>2. (2 * k) \div 2 = k
  OBVIOUS
<1>3. u + At(u) <= Size /\ Size \in Nat
  BY DEF IsString, Size
<1> QED
  BY <1>1, <1>2, <1>3

\* No string begins inside another: its second byte would be a character or a zero, or
\* its first byte a zero.
LEMMA NoneInside ==
    ASSUME blob \in Seq(Byte), NEW u \in Nat, IsString(u), NEW v \in Nat, u < v, v < u + At(u)
    PROVE  ~IsString(v)
<1>1. PICK k \in 2 .. 32 : At(u) = 2 * k /\ At(u) \div 2 = k
  BY StringFits
<1>2. \A m \in 1 .. k - 1 : At(u + 2 * m) \in 32 .. 126 /\ At(u + 2 * m + 1) = 0
  BY <1>1 DEF IsString
<1>3. PICK m \in 0 .. k - 1 : (v = u + 2 * m /\ m >= 1) \/ v = u + 2 * m + 1
  <2>1. v - u \in 1 .. 2 * k - 1
    BY <1>1
  <2>2. \A d \in 1 .. 2 * k - 1 : /\ d \div 2 \in 0 .. k - 1
                                  /\ (d = 2 * (d \div 2) /\ d \div 2 >= 1) \/ d = 2 * (d \div 2) + 1
    BY <1>1
  <2>3. /\ (v - u) \div 2 \in 0 .. k - 1
        /\ \/ v - u = 2 * ((v - u) \div 2) /\ (v - u) \div 2 >= 1
           \/ v - u = 2 * ((v - u) \div 2) + 1
    BY <2>1, <2>2
  <2> QED
    BY <2>3
<1>4. CASE v = u + 2 * m /\ m >= 1
  <2>1. v + 1 = u + 2 * m + 1 /\ m \in 1 .. k - 1
    BY <1>4
  <2>2. At(v + 1) = 0
    BY <1>2, <2>1
  <2> QED
    BY <2>2 DEF IsString
<1>5. CASE v = u + 2 * m + 1 /\ m >= 1
  <2>1. At(v) = 0
    BY <1>2, <1>5
  <2> QED
    BY <2>1 DEF IsString
<1>6. CASE v = u + 2 * m + 1 /\ m = 0
  <2>1. v + 1 = u + 2 * 1 /\ 1 \in 1 .. k - 1
    BY <1>1, <1>6
  <2>2. At(v + 1) \in 32 .. 126
    BY <1>2, <2>1
  <2>3. \A x \in 32 .. 126 : x # 3
    OBVIOUS
  <2>4. At(v + 1) # 3
    BY <2>2, <2>3
  <2> QED
    BY <2>4 DEF IsString
<1> QED
  BY <1>3, <1>4, <1>5, <1>6

\* What two stretches hold together.
LEMMA BytesJoin ==
    ASSUME NEW x \in Nat, NEW y \in Nat, NEW z \in Nat, x <= y, y <= z
    PROVE  Bytes(x, z) = Bytes(x, y) \cup Bytes(y, z)
<1>1. x .. z - 1 = (x .. y - 1) \cup (y .. z - 1)
  OBVIOUS
<1> QED
  BY <1>1 DEF Bytes

\* What a block is, it holds.
LEMMA BlockOfKind ==
    KindOf(off) \in Kinds \ {"none"} /\ OfKind(off, Least(off + Block, Size), KindOf(off))
BY DEF KindOf, OfKind, Holds, Kinds

\* Sections with one more at their end.
LEMMA ChainGrows ==
    ASSUME NEW ss \in Seq([start : Nat, end : Nat, kind : Kinds]), Chain(ss),
           NEW s \in Nat, NEW t \in Nat, NEW k \in Kinds, s < t, OfKind(s, t, k), Adjoins(ss, s, k)
    PROVE  LET tt == Append(ss, Section(s, t, k)) IN
           /\ tt \in Seq([start : Nat, end : Nat, kind : Kinds]) /\ Chain(tt)
           /\ tt # <<>> /\ tt[Len(tt)] = Section(s, t, k)
<1> SUFFICES ASSUME NEW tt, tt = Append(ss, Section(s, t, k))
             PROVE  /\ tt \in Seq([start : Nat, end : Nat, kind : Kinds]) /\ Chain(tt)
                    /\ tt # <<>> /\ tt[Len(tt)] = Section(s, t, k)
  OBVIOUS
<1> DEFINE c == Section(s, t, k)
<1>1. c \in [start : Nat, end : Nat, kind : Kinds] /\ c.start = s /\ c.end = t /\ c.kind = k
  BY DEF Section
<1> HIDE DEF c
<1>2. /\ tt \in Seq([start : Nat, end : Nat, kind : Kinds]) /\ Len(tt) = Len(ss) + 1
      /\ Len(ss) \in Nat /\ tt[Len(ss) + 1] = c
      /\ \A j \in 1 .. Len(ss) : tt[j] = ss[j]
  BY <1>1 DEF c
<1>3. ASSUME NEW j \in DOMAIN tt PROVE tt[j].start < tt[j].end /\ OfKind(tt[j].start, tt[j].end, tt[j].kind)
  <2>1. CASE j = Len(ss) + 1
    BY <1>1, <1>2, <2>1
  <2>2. CASE j \in 1 .. Len(ss)
    BY <1>2, <2>2 DEF Chain
  <2> QED
    BY <1>2, <2>1, <2>2
<1>4. ASSUME NEW j \in DOMAIN tt, j > 1
      PROVE  tt[j - 1].end = tt[j].start /\ tt[j - 1].kind # tt[j].kind
  <2>1. CASE j = Len(ss) + 1
    <3>1. ss # <<>> /\ j - 1 = Len(ss) /\ tt[j - 1] = ss[Len(ss)]
      BY <1>2, <1>4, <2>1
    <3> QED
      BY <1>1, <1>2, <2>1, <3>1 DEF Adjoins
  <2>2. CASE j \in 1 .. Len(ss)
    <3>1. j - 1 \in 1 .. Len(ss) /\ tt[j] = ss[j] /\ tt[j - 1] = ss[j - 1]
      BY <1>2, <1>4, <2>2
    <3> QED
      BY <1>4, <2>2, <3>1 DEF Chain
  <2>3. j = Len(ss) + 1 \/ j \in 1 .. Len(ss)
    BY <1>2
  <2> QED
    BY <2>1, <2>2, <2>3
<1>5. tt[1].start = 0
  <2>1. CASE ss = <<>>
    BY <1>1, <1>2, <2>1 DEF Adjoins
  <2>2. CASE ss # <<>>
    <3>1. 1 \in 1 .. Len(ss)
      BY <1>2, <2>2
    <3> QED
      BY <1>2, <2>2, <3>1 DEF Chain
  <2> QED
    BY <2>1, <2>2
<1>6. tt # <<>> /\ tt[Len(tt)] = c
  BY <1>2
<1> QED
  BY <1>2, <1>3, <1>4, <1>5, <1>6 DEF Chain, c

-----------------------------------------------------------------------------
\* The first state.
LEMMA InitImage == ImageInit => ImageInv
<1> SUFFICES ASSUME ImageInit PROVE ImageInv
  OBVIOUS
<1> USE DEF ImageInit
<1>1. ImageTypeOK
  BY FirmwareImageAssumption DEF ImageTypeOK, Kinds
<1>2. Mapped
  BY DEF Mapped, Chain
<1>3. Listed
  BY DEF Listed
<1>4. Scanned
  <2>1. \A x \in 0 .. Size - 4 : ~(x < 0)
    BY DEF Size
  <2> QED
    BY <2>1 DEF Scanned
<1>5. LostOnlyByCode
  BY DEF LostOnlyByCode
<1> QED
  BY <1>1, <1>2, <1>3, <1>4, <1>5 DEF ImageInv

\* The strings found so far stay those that begin before i while neither moves.
LEMMA ScanWaits ==
    ASSUME Scanned, blob' = blob, UNCHANGED scan, phase' # "done",
           phase' \in {"strings"} \/ phase \notin {"strings", "done"}
    PROVE  Scanned'
<1>1. \A x : Size' = Size /\ IsString(x)' = IsString(x)
  BY SameBlob
<1>2. strings' = {x \in 0 .. Size' - 4 : IsString(x)' /\ x < i'}
  BY <1>1 DEF Scanned, scan
<1> QED
  BY <1>2 DEF Scanned, scan

\* The header.
LEMMA ReadHeaderKeeps == ImageInv /\ ReadHeader => ImageInv'
<1> SUFFICES ASSUME ImageInv, ReadHeader PROVE ImageInv'
  OBVIOUS
<1> USE DEF ImageInv
<1>1. /\ phase = "header" /\ phase' = IF Size < 8 THEN "raised" ELSE "sections"
      /\ blob' = blob /\ UNCHANGED secs /\ UNCHANGED walk /\ UNCHANGED scan
  BY DEF ReadHeader
<1>2. Size \in Nat /\ Size' = Size /\ off' = off /\ start' = start /\ kind' = kind /\ sections' = sections
  BY <1>1 DEF Size, secs, ImageTypeOK
<1>3. ImageTypeOK'
  BY <1>1 DEF ImageTypeOK, secs, walk, scan
<1>4. Mapped'
  <2>1. Chain(sections)'
    BY <1>1, <1>2, SameBlob DEF Mapped, Chain
  <2>2. off = 0 /\ start = 0 /\ kind = "none" /\ sections = <<>>
    BY <1>1 DEF Mapped, ImageTypeOK
  <2> QED
    BY <1>1, <1>2, <2>1, <2>2 DEF Mapped
<1>5. Listed'
  BY <1>1, <1>2 DEF Listed, walk
<1>6. Scanned'
  BY <1>1, ScanWaits
<1>7. LostOnlyByCode'
  BY <1>1, <1>2 DEF LostOnlyByCode
<1> QED
  BY <1>3, <1>4, <1>5, <1>6, <1>7

\* What the section in the making holds when it goes on over the next block.
LEMMA TakeBlockKeeps ==
    ASSUME ImageTypeOK, Mapped, phase = "sections", off < Size, TakeBlock, phase' = phase, blob' = blob
    PROVE  /\ off' \in Nat /\ start' \in Nat /\ kind' \in Kinds
           /\ sections' \in Seq([start : Nat, end : Nat, kind : Kinds])
           /\ Mapped'
<1> DEFINE up == off + Block
<1>1. Block \in Nat \ {0} /\ Size \in Nat /\ off \in Nat /\ start \in Nat /\ up \in Nat /\ off < up
  BY FirmwareImageAssumption DEF Size, ImageTypeOK
<1>2. KindOf(off) \in Kinds \ {"none"} /\ OfKind(off, Least(up, Size), KindOf(off))
  BY BlockOfKind
<1>3. off' = up
  BY DEF TakeBlock
<1> HIDE DEF up
<1>4. /\ Size' = Size /\ Least(off, Size)' = Least(up, Size)
      /\ \A x, y, k : OfKind(x, y, k)' = OfKind(x, y, k)
      /\ \A ss : Chain(ss)' = Chain(ss)
  BY <1>3, SameBlob DEF Least
<1>5. /\ start' \in Nat /\ kind' \in Kinds
      /\ sections' \in Seq([start : Nat, end : Nat, kind : Kinds]) /\ Chain(sections')
      /\ start' < up /\ start' < Size /\ kind' # "none"
      /\ OfKind(start', Least(up, Size), kind') /\ Adjoins(sections', start', kind')
  <2>1. CASE off = 0 /\ start = 0 /\ kind = "none" /\ sections = <<>>
    <3>1. start' = off /\ kind' = KindOf(off) /\ sections' = sections
      BY <1>2, <2>1 DEF TakeBlock
    <3> QED
      BY <1>1, <1>2, <2>1, <3>1 DEF Mapped, Adjoins, ImageTypeOK
  <2>2. CASE /\ start < off /\ start < Size /\ kind # "none"
             /\ OfKind(start, Least(off, Size), kind)
             /\ Adjoins(sections, start, kind)
    <3>1. Least(off, Size) = off
      BY <1>1 DEF Least
    <3>2. CASE KindOf(off) = kind
      <4>1. start' = start /\ kind' = kind /\ sections' = sections
        BY <3>2 DEF TakeBlock
      <4>2. OfKind(start, Least(up, Size), kind)
        <5>1. Least(up, Size) \in Nat /\ off <= Least(up, Size)
          BY <1>1 DEF Least
        <5>2. Bytes(start, Least(up, Size)) = Bytes(start, off) \cup Bytes(off, Least(up, Size))
          BY <1>1, <2>2, <5>1, BytesJoin
        <5>3. kind \in {"erased", "zero"} =>
                 Bytes(start, off) = Holds[kind] /\ Bytes(off, Least(up, Size)) = Holds[kind]
          BY <1>2, <2>2, <3>1, <3>2 DEF OfKind
        <5> QED
          BY <5>2, <5>3 DEF OfKind
      <4> QED
        BY <1>1, <2>2, <4>1, <4>2 DEF Mapped, ImageTypeOK
    <3>3. CASE KindOf(off) # kind
      <4>1. start' = off /\ kind' = KindOf(off) /\ sections' = Append(sections, Section(start, off, kind))
        BY <2>2, <3>3 DEF TakeBlock
      <4>2. /\ sections \in Seq([start : Nat, end : Nat, kind : Kinds]) /\ Chain(sections) /\ kind \in Kinds
        BY DEF Mapped, ImageTypeOK
      <4>3. OfKind(start, off, kind)
        BY <2>2, <3>1
      <4>4. /\ sections' \in Seq([start : Nat, end : Nat, kind : Kinds]) /\ Chain(sections')
            /\ sections' # <<>> /\ sections'[Len(sections')] = Section(start, off, kind)
        <5>1. start \in Nat /\ off \in Nat /\ start < off /\ Adjoins(sections, start, kind)
          BY <1>1, <2>2
        <5> QED
          BY <4>1, <4>2, <4>3, <5>1, ChainGrows
      <4>5. Adjoins(sections', start', kind')
        BY <3>3, <4>1, <4>4 DEF Adjoins, Section
      <4> QED
        BY <1>1, <1>2, <4>1, <4>4, <4>5
    <3> QED
      BY <3>2, <3>3
  <2> QED
    BY <2>1, <2>2 DEF Mapped
<1>6. Chain(sections)'
  BY <1>4, <1>5 DEF Chain
<1>7. Adjoins(sections, start, kind)' /\ OfKind(start, Least(off, Size), kind)'
  BY <1>3, <1>4, <1>5 DEF Adjoins, OfKind
<1> QED
  BY <1>1, <1>3, <1>4, <1>5, <1>6, <1>7 DEF Mapped

\* The end of the image ends the last section.
LEMMA LastSectionKeeps ==
    ASSUME ImageTypeOK, Mapped, phase = "sections", off >= Size, Size >= 8, phase' = "vectors",
           sections' = Append(sections, Section(start, Size, kind)), blob' = blob,
           UNCHANGED <<off, start, kind>>
    PROVE  sections' \in Seq([start : Nat, end : Nat, kind : Kinds]) /\ Mapped'
<1>1. Size \in Nat /\ off \in Nat /\ start \in Nat /\ kind \in Kinds
      /\ sections \in Seq([start : Nat, end : Nat, kind : Kinds]) /\ Chain(sections)
  BY DEF Size, ImageTypeOK, Mapped
<1>2. /\ start < Size /\ OfKind(start, Least(off, Size), kind) /\ Adjoins(sections, start, kind)
  BY <1>1 DEF Mapped
<1>3. Least(off, Size) = Size
  BY <1>1 DEF Least
<1>4. /\ sections' \in Seq([start : Nat, end : Nat, kind : Kinds]) /\ Chain(sections')
      /\ sections' # <<>> /\ sections'[Len(sections')] = Section(start, Size, kind)
  BY <1>1, <1>2, <1>3, ChainGrows
<1>5. Size' = Size /\ \A ss : Chain(ss)' = Chain(ss)
  BY SameBlob
<1>6. Chain(sections)'
  BY <1>4, <1>5, SameBlob DEF Chain
<1>7. sections'[Len(sections')].end = Size'
  BY <1>4, <1>5 DEF Section
<1> QED
  BY <1>4, <1>6, <1>7 DEF Mapped

\* The section map, a block at a time.
LEMMA MapSectionsKeeps == ImageInv /\ MapSections => ImageInv'
<1> SUFFICES ASSUME ImageInv, MapSections PROVE ImageInv'
  OBVIOUS
<1> USE DEF ImageInv
<1>1. /\ phase = "sections" /\ blob' = blob /\ UNCHANGED walk /\ UNCHANGED scan
      /\ phase' \in {"sections", "vectors"}
  BY DEF MapSections
<1>2. Size \in Nat /\ Size' = Size /\ Size >= 8 /\ off \in Nat
  BY <1>1 DEF Size, ImageTypeOK, Listed
<1>3. /\ off' \in Nat /\ start' \in Nat /\ kind' \in Kinds
      /\ sections' \in Seq([start : Nat, end : Nat, kind : Kinds])
      /\ Mapped'
  <2>1. CASE off < Size
    <3>1. TakeBlock /\ phase' = phase
      BY <2>1 DEF MapSections
    <3> QED
      BY <1>1, <2>1, <3>1, TakeBlockKeeps
  <2>2. CASE ~(off < Size)
    <3>1. /\ off >= Size /\ phase' = "vectors" /\ UNCHANGED <<off, start, kind>>
          /\ sections' = Append(sections, Section(start, Size, kind))
      BY <1>2, <2>2 DEF MapSections
    <3> QED
      BY <1>1, <1>2, <3>1, LastSectionKeeps DEF ImageTypeOK
  <2> QED
    BY <2>1, <2>2
<1>4. ImageTypeOK'
  BY <1>1, <1>3 DEF ImageTypeOK, walk, scan
<1>5. Listed'
  BY <1>1, <1>2 DEF Listed, walk
<1>6. Scanned'
  BY <1>1, ScanWaits
<1>7. LostOnlyByCode'
  BY <1>1 DEF LostOnlyByCode
<1> QED
  BY <1>3, <1>4, <1>5, <1>6, <1>7

\* What the first instruction of the code jumps to, and the address behind any, is an address.
LEMMA CodeTargets ==
    ASSUME blob \in Seq(Byte), Size >= 8
    PROVE  /\ \A x \in Nat : x < Len(Code) => NextAddr(Code, x) \in Nat
           /\ Code # <<>> /\ Whole(Code, 0) /\ Class[Code[1]] \in {"jump", "call", "branch"} =>
                 Target0 \in Nat
<1>1. Code \in Seq(Byte) /\ Len(Code) \in Nat
  BY CodeIsBytes
<1>2. \A x \in Nat : x < Len(Code) => NextAddr(Code, x) \in Nat
  BY <1>1, NextIsNat
<1>3. ASSUME Code # <<>>, Whole(Code, 0), Class[Code[1]] \in {"jump", "call", "branch"}
      PROVE  Target0 \in Nat
  <2> DEFINE image == Code
  <2>1. image \in Seq(Byte) /\ 0 < Len(image) /\ image # <<>> /\ 0 \in Nat
    BY <1>1, <1>3
  <2>2. Whole(image, 0) /\ image[0 + 1] = Code[1] /\ Class[image[0 + 1]] \in {"jump", "call", "branch"}
    BY <1>3
  <2> HIDE DEF image
  <2>3. Target(image, 0) \in Nat
    BY <2>1, <2>2, TargetIsNat
  <2> QED
    BY <2>3 DEF Target0, image
<1> QED
  BY <1>2, <1>3

\* The instructions shown.
LEMMA DisassembleKeeps == ImageInv /\ Disassemble => ImageInv'
<1> SUFFICES ASSUME ImageInv, Disassemble PROVE ImageInv'
  OBVIOUS
<1> USE DEF ImageInv
<1>1. /\ phase \in {"vectors", "entry"} /\ blob' = blob /\ UNCHANGED secs /\ UNCHANGED scan
      /\ blob \in Seq(Byte) /\ Size >= 8 /\ pos \in Nat /\ left \in Nat
  BY DEF Disassemble, ImageTypeOK, Listed
<1>2. /\ Size' = Size /\ Code' = Code /\ CodeStart' = CodeStart
      /\ Chain(sections)' /\ off' = off /\ start' = start /\ kind' = kind /\ sections' = sections
  BY <1>1, SameBlob DEF secs, Mapped, Chain
<1>3. Size \in Nat /\ CodeStart \in Nat /\ Code \in Seq(Byte) /\ Len(Code) \in Nat
      /\ (Code = <<>> => CodeStart >= Size)
  BY <1>1, CodeIsBytes DEF Size
<1>4. phase' \in {"vectors", "entry", "strings", "raised"} => Mapped'
  <2>1. sections # <<>> /\ sections[Len(sections)].end = Size
    BY <1>1 DEF Mapped
  <2> QED
    BY <1>2, <2>1 DEF Mapped
<1>5. phase' \in {"vectors", "entry", "strings", "raised"} => Scanned'
  BY <1>1, ScanWaits
<1>6. Code # <<>> => Len(Code) > 0
  BY <1>3
<1>7. /\ phase' \in {"vectors", "entry", "strings", "raised"}
      /\ pos' \in Nat /\ left' \in Nat /\ Listed' /\ LostOnlyByCode'
  <2>1. CASE pos < Len(Code) /\ left > 0 /\ Whole(Code, pos)
    <3>1. pos' = NextAddr(Code, pos) /\ left' = left - 1 /\ phase' = phase
      BY <2>1 DEF Disassemble
    <3>2. pos' \in Nat /\ left' \in Nat
      BY <1>1, <2>1, <3>1, CodeTargets
    <3>3. phase = "vectors" => Code # <<>> /\ Whole(Code, 0)
      BY <1>3, <2>1 DEF Listed
    <3>4. (Code # <<>> /\ Whole(Code, 0))' <=> Code # <<>> /\ Whole(Code, 0)
      BY <1>2 DEF Whole
    <3>5. Listed'
      BY <1>1, <1>2, <3>1, <3>3, <3>4 DEF Listed
    <3> QED
      BY <1>1, <3>1, <3>2, <3>5 DEF LostOnlyByCode
  <2>2. CASE pos < Len(Code) /\ left > 0 /\ ~Whole(Code, pos)
    <3>1. phase' = "raised" /\ pos' = pos /\ left' = left
      BY <2>2 DEF Disassemble, walk
    <3>2. NextAddr(Code, pos) > Len(Code)
      <4>1. pos \in Nat /\ pos + 1 \in 1 .. Len(Code)
        BY <1>1, <1>3, <2>2
      <4>2. Code[pos + 1] \in Byte
        BY <1>3, <4>1
      <4>3. Length[Code[pos + 1]] \in 1 .. 3
        BY <4>2, Lengths
      <4> QED
        BY <1>3, <2>2, <4>1, <4>3 DEF Whole, NextAddr
    <3>3. (pos < Len(Code) /\ NextAddr(Code, pos) > Len(Code))'
      BY <1>2, <2>2, <3>1, <3>2 DEF NextAddr
    <3>4. Listed'
      BY <3>1 DEF Listed
    <3>5. LostOnlyByCode'
      BY <3>3 DEF LostOnlyByCode
    <3> QED
      BY <1>1, <3>1, <3>4, <3>5
  <2>3. CASE ~(pos < Len(Code) /\ left > 0) /\ phase = "vectors"
    <3>1. VectorsDone
      BY <2>3 DEF Disassemble
    <3>2. CASE Code = <<>>
      <4>1. phase' = "raised" /\ pos' = pos /\ left' = left
        BY <3>1, <3>2 DEF VectorsDone, walk
      <4>2. (CodeStart >= Size)'
        BY <1>2, <1>3, <3>2
      <4>3. Listed'
        BY <4>1 DEF Listed
      <4>4. LostOnlyByCode'
        BY <4>2 DEF LostOnlyByCode
      <4> QED
        BY <1>1, <4>1, <4>3, <4>4
    <3>3. CASE Code # <<>> /\ Class[Code[1]] \in {"jump", "call", "branch"} /\ Target0 < Len(Code)
      <4>1. phase' = "entry" /\ pos' = Target0 /\ left' = 14
        BY <3>1, <3>3 DEF VectorsDone
      <4>2. Whole(Code, 0)
        BY <1>6, <2>3, <3>3 DEF Listed
      <4>3. Target0 \in Nat
        BY <1>1, <3>3, <4>2, CodeTargets
      <4>4. Listed' /\ LostOnlyByCode'
        BY <1>1, <1>2, <4>1 DEF Listed, LostOnlyByCode
      <4> QED
        BY <4>1, <4>3, <4>4
    <3>4. CASE Code # <<>> /\ ~(Class[Code[1]] \in {"jump", "call", "branch"} /\ Target0 < Len(Code))
      <4>1. phase' = "strings" /\ pos' = pos /\ left' = left
        BY <3>1, <3>4 DEF VectorsDone, walk
      <4>2. Listed' /\ LostOnlyByCode'
        BY <1>1, <1>2, <4>1 DEF Listed, LostOnlyByCode
      <4> QED
        BY <1>1, <4>1, <4>2
    <3> QED
      BY <3>2, <3>3, <3>4
  <2>4. CASE ~(pos < Len(Code) /\ left > 0) /\ phase # "vectors"
    <3>1. phase' = "strings" /\ pos' = pos /\ left' = left
      BY <2>4 DEF Disassemble, walk
    <3>2. Listed' /\ LostOnlyByCode'
      BY <1>1, <1>2, <3>1 DEF Listed, LostOnlyByCode
    <3> QED
      BY <1>1, <3>1, <3>2
  <2> QED
    BY <2>1, <2>2, <2>3, <2>4
<1>8. ImageTypeOK'
  BY <1>1, <1>2, <1>7 DEF ImageTypeOK, scan
<1> QED
  BY <1>4, <1>5, <1>7, <1>8

\* A turn of the scan: what begins before the new i and was not known yet is the string at i.
LEMMA ScanGoesOn ==
    ASSUME blob \in Seq(Byte), i \in Nat, NEW x \in Nat, x < StepFrom(i), IsString(x)
    PROVE  x < i \/ x = i
<1>1. CASE IsString(i)
  <2>1. StepFrom(i) = i + At(i)
    BY <1>1 DEF StepFrom
  <2>2. ~(i < x)
    BY <1>1, <2>1, NoneInside
  <2> QED
    BY <2>2
<1>2. CASE ~IsString(i)
  <2>1. StepFrom(i) = i + 1
    BY <1>2 DEF StepFrom
  <2> QED
    BY <2>1
<1> QED
  BY <1>1, <1>2

\* The strings.
LEMMA FindStringKeeps == ImageInv /\ FindString => ImageInv'
<1> SUFFICES ASSUME ImageInv, FindString PROVE ImageInv'
  OBVIOUS
<1> USE DEF ImageInv
<1>1. /\ phase = "strings" /\ blob' = blob /\ UNCHANGED secs /\ UNCHANGED walk
      /\ blob \in Seq(Byte) /\ Size >= 8 /\ Size \in Nat /\ i \in Nat
      /\ phase' \in {"strings", "done"}
  BY DEF FindString, ImageTypeOK, Listed, Size
<1>2. /\ Size' = Size /\ \A x : IsString(x)' = IsString(x)
      /\ Chain(sections)' /\ sections' = sections
  BY <1>1, SameBlob DEF secs, Mapped, Chain
<1>3. i' \in Nat /\ Scanned'
  <2>1. CASE i < Size - 2
    <3>1. /\ strings' = IF IsString(i) THEN strings \cup {i} ELSE strings
          /\ i' = StepFrom(i) /\ phase' = phase
      BY <2>1 DEF FindString
    <3>2. i' \in Nat /\ i < i'
      BY <1>1, <3>1, StringFits DEF StepFrom
    <3>3. strings = {x \in 0 .. Size - 4 : IsString(x) /\ x < i}
      BY DEF Scanned
    <3>4. ASSUME NEW x PROVE x \in strings' <=> x \in 0 .. Size - 4 /\ IsString(x) /\ x < i'
      <4>1. x \in strings' <=> (x \in 0 .. Size - 4 /\ IsString(x) /\ x < i) \/ (x = i /\ IsString(i))
        BY <3>1, <3>3
      <4>2. IsString(i) => i \in 0 .. Size - 4
        BY <1>1, StringFits
      <4>3. x \in 0 .. Size - 4 /\ IsString(x) /\ x < i' => x < i \/ x = i
        BY <1>1, <3>1, ScanGoesOn
      <4>4. x \in 0 .. Size - 4 /\ x < i => x < i'
        BY <1>1, <3>2
      <4> QED
        BY <3>2, <4>1, <4>2, <4>3, <4>4
    <3>5. strings' = {x \in 0 .. Size - 4 : IsString(x) /\ x < i'}
      BY <3>4
    <3>6. strings' = {x \in 0 .. Size' - 4 : IsString(x)' /\ x < i'}
      BY <1>2, <3>5
    <3> QED
      BY <1>1, <3>1, <3>2, <3>6 DEF Scanned
  <2>2. CASE ~(i < Size - 2)
    <3>1. phase' = "done" /\ strings' = strings /\ i' = i
      BY <2>2 DEF FindString, scan
    <3>2. strings = {x \in 0 .. Size - 4 : IsString(x) /\ x < i} /\ i >= Size - 2
      BY <1>1, <2>2 DEF Scanned
    <3>3. strings' = {x \in 0 .. Size' - 4 : IsString(x)' /\ x < i'} /\ i' >= Size' - 2
      BY <1>2, <3>1, <3>2
    <3> QED
      BY <1>1, <3>1, <3>3 DEF Scanned
  <2> QED
    BY <2>1, <2>2
<1>4. ImageTypeOK'
  BY <1>1, <1>3 DEF ImageTypeOK, secs, walk
<1>5. Mapped'
  <2>1. sections # <<>> /\ sections[Len(sections)].end = Size
    BY <1>1 DEF Mapped
  <2> QED
    BY <1>1, <1>2, <2>1 DEF Mapped
<1>6. Listed' /\ LostOnlyByCode'
  BY <1>1, <1>2 DEF Listed, LostOnlyByCode
<1> QED
  BY <1>3, <1>4, <1>5, <1>6

\* A step that changes nothing.
LEMMA ImageStays == ImageInv /\ UNCHANGED imageVars => ImageInv'
<1> SUFFICES ASSUME ImageInv, UNCHANGED imageVars PROVE ImageInv'
  OBVIOUS
<1> USE DEF ImageInv, imageVars
<1>1. /\ blob' = blob /\ phase' = phase /\ off' = off /\ start' = start /\ kind' = kind
      /\ sections' = sections /\ pos' = pos /\ left' = left /\ i' = i /\ strings' = strings
  OBVIOUS
<1>2. /\ Size' = Size /\ Code' = Code /\ CodeStart' = CodeStart
      /\ (\A x : IsString(x)' = IsString(x)) /\ (\A x, y, k : OfKind(x, y, k)' = OfKind(x, y, k))
      /\ Chain(sections)'
  BY <1>1, SameBlob DEF Mapped, Chain
<1>3. ImageTypeOK'
  BY <1>1 DEF ImageTypeOK
<1>4. Mapped'
  <2>1. Adjoins(sections, start, kind)' <=> Adjoins(sections, start, kind)
    BY <1>1 DEF Adjoins
  <2>2. OfKind(start, Least(off, Size), kind)' <=> OfKind(start, Least(off, Size), kind)
    BY <1>1, <1>2 DEF OfKind, Least, Bytes, At
  <2> QED
    BY <1>1, <1>2, <2>1, <2>2 DEF Mapped
<1>5. Listed'
  BY <1>1, <1>2 DEF Listed, Whole
<1>6. Scanned'
  <2>1. strings' = {x \in 0 .. Size' - 4 : IsString(x)' /\ x < i'}
    BY <1>1, <1>2 DEF Scanned
  <2> QED
    BY <1>1, <1>2, <2>1 DEF Scanned
<1>7. LostOnlyByCode'
  BY <1>1, <1>2 DEF LostOnlyByCode, NextAddr
<1> QED
  BY <1>3, <1>4, <1>5, <1>6, <1>7

\* The inductive invariant of the report on an image.
THEOREM ImageInvariant == ImageSpec => []ImageInv
<1>1. ImageInv /\ [ImageNext]_imageVars => ImageInv'
  BY ReadHeaderKeeps, MapSectionsKeeps, DisassembleKeeps, FindStringKeeps, ImageStays DEF ImageNext
<1> QED
  BY InitImage, <1>1, PTL DEF ImageSpec

\* fw.py:47: for every image and every size of block, the section map is a partition of
\* the image into stretches of one kind, and neighbours differ in kind.
THEOREM SectionsArePartition == ImageSpec => []SectionsPartition
<1>1. ImageInv => SectionsPartition
  <2> SUFFICES ASSUME ImageInv, phase = "done" PROVE
        /\ sections[1].start = 0 /\ sections[Len(sections)].end = Size
        /\ \A k \in DOMAIN sections :
              LET s == sections[k] IN
              /\ s.start < s.end
              /\ s.kind \in DOMAIN Holds => Bytes(s.start, s.end) = Holds[s.kind]
              /\ k > 1 => sections[k - 1].end = s.start /\ sections[k - 1].kind # s.kind
    BY DEF SectionsPartition
  <2>1. Chain(sections) /\ sections # <<>> /\ sections[Len(sections)].end = Size
    BY DEF ImageInv, Mapped
  <2>2. DOMAIN Holds = {"erased", "zero"}
    BY DEF Holds
  <2>3. ASSUME NEW k \in DOMAIN sections
        PROVE  LET s == sections[k] IN
               /\ s.start < s.end
               /\ s.kind \in DOMAIN Holds => Bytes(s.start, s.end) = Holds[s.kind]
               /\ k > 1 => sections[k - 1].end = s.start /\ sections[k - 1].kind # s.kind
    BY <2>1, <2>2, <2>3 DEF Chain, OfKind
  <2> QED
    BY <2>1, <2>3 DEF Chain
<1> QED
  BY ImageInvariant, <1>1, PTL

\* fw.py:106: in every image every string descriptor is found, and none of those found
\* overlaps another; fw.py:94: every device descriptor is found but one that ends with
\* the image.
THEOREM ScansMissNothing == ImageSpec => []ScansFindAll
<1>1. ImageInv => ScansFindAll
  <2> SUFFICES ASSUME ImageInv, phase = "done" PROVE
        /\ strings = {u \in 0 .. Size - 4 : IsString(u)}
        /\ \A u, v \in strings : u < v => u + At(u) <= v
        /\ {o \in 0 .. Size - 18 : IsDevice(o)} \ Descriptors \subseteq {Size - 18}
    BY DEF ScansFindAll
  <2>1. /\ strings = {u \in 0 .. Size - 4 : IsString(u) /\ u < i} /\ i >= Size - 2
        /\ blob \in Seq(Byte) /\ i \in Nat /\ Size \in Nat
    BY DEF ImageInv, Scanned, ImageTypeOK, Size
  <2>2. strings = {u \in 0 .. Size - 4 : IsString(u)}
    <3>1. \A u \in 0 .. Size - 4 : u < i
      BY <2>1
    <3> QED
      BY <2>1, <3>1
  <2>3. ASSUME NEW u \in strings, NEW v \in strings, u < v PROVE u + At(u) <= v
    <3>1. u \in Nat /\ v \in Nat /\ IsString(u) /\ IsString(v)
      BY <2>1, <2>2
    <3>2. ~(v < u + At(u)) /\ At(u) \in Nat
      BY <2>1, <2>3, <3>1, NoneInside, StringFits
    <3> QED
      BY <3>1, <3>2
  <2>4. {o \in 0 .. Size - 18 : IsDevice(o)} \ Descriptors \subseteq {Size - 18}
    BY <2>1 DEF Descriptors
  <2> QED
    BY <2>2, <2>3, <2>4
<1> QED
  BY ImageInvariant, <1>1, PTL

\* For every image, the report is lost only for want of a header or of code, or to an
\* instruction that the image ends in.
THEOREM ReportLostOnlyByCode == ImageSpec => []LostOnlyByCode
BY ImageInvariant, PTL DEF ImageInv
=============================================================================
