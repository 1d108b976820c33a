----------------------------- MODULE CodeTrace -----------------------------
(***************************************************************************)
(* trace.follow: the recursive descent through an 8051 image, one pass of  *)
(* its inner loop per step.  It starts at the jumps of the vector table    *)
(* and takes both edges of a branch, keeping the second for later on a     *)
(* stack.  The map it returns is meant to be the reachable code.           *)
(***************************************************************************)
EXTENDS I8051

CONSTANTS
    Images,     \* the images followed
    Vectors     \* the vector table, ascending

ASSUME ImagesAssumption == Images \subseteq Seq(Byte)
ASSUME VectorsAssumption ==
    /\ Vectors \in Seq(Nat)
    /\ \A i, k \in DOMAIN Vectors : i < k => Vectors[i] < Vectors[k]

VARIABLES
    code,       \* the image
    pc,         \* "vectors", "pop", "walk", "done" or "raised"
    vec,        \* entry_points: the vectors read
    work,       \* the stack of addresses still to visit
    cur,        \* a: the address visited
    insns,      \* the addresses decoded as instructions
    funcs,      \* the targets of calls
    indirect    \* the jump tables met, in order

vars == <<code, pc, vec, work, cur, insns, funcs, indirect>>

Addr == 0 .. Len(code) - 1
ClassAt(a) == Class[code[a + 1]]

Init ==
    /\ code \in Images
    /\ pc = "vectors" /\ vec = 0
    /\ work = <<>> /\ cur = 0
    /\ insns = {} /\ funcs = {} /\ indirect = <<>>

\* entry_points: the vectors that lie in the image with three bytes, up to the
\* first that does not; those that hold a jump give an entry.
InImage(v) == v + 2 < Len(code)

ReadVector ==
    /\ pc = "vectors" /\ vec < Len(Vectors)
    /\ LET v == Vectors[vec + 1] IN
       /\ InImage(v)
       /\ work' = IF ClassAt(v) = "jump" THEN Append(work, Target(code, v)) ELSE work
    /\ vec' = vec + 1
    /\ UNCHANGED <<code, pc, cur, insns, funcs, indirect>>

VectorsRead ==
    /\ pc = "vectors"
    /\ vec < Len(Vectors) => ~InImage(Vectors[vec + 1])
    /\ pc' = "pop"
    /\ UNCHANGED <<code, vec, work, cur, insns, funcs, indirect>>

Pop ==
    /\ pc = "pop"
    /\ IF work = <<>> THEN pc' = "done" /\ UNCHANGED <<work, cur>>
       ELSE /\ pc' = "walk"
            /\ cur' = work[Len(work)]
            /\ work' = SubSeq(work, 1, Len(work) - 1)
    /\ UNCHANGED <<code, vec, insns, funcs, indirect>>

\* Mutant: a jump met again is followed again.
FreshOrJump == cur \in Addr /\ (cur \notin insns \/ ClassAt(cur) = "jump")

\* The condition of the inner loop.
Fresh == cur \in Addr /\ cur \notin insns

LeaveWalk ==
    /\ pc = "walk" /\ ~Fresh
    /\ pc' = "pop"
    /\ UNCHANGED <<code, vec, work, cur, insns, funcs, indirect>>

\* decode_one raises IndexError at the end of the image.
DecodeRaises ==
    /\ pc = "walk" /\ Fresh /\ ~Whole(code, cur)
    /\ pc' = "raised"
    /\ UNCHANGED <<code, vec, work, cur, insns, funcs, indirect>>

Decode ==
    /\ pc = "walk" /\ Fresh /\ Whole(code, cur)
    /\ insns' = insns \cup {cur}
    /\ UNCHANGED <<code, vec>>

Stop ==
    /\ Decode /\ ClassAt(cur) \in {"stop", "table"}
    /\ pc' = "pop"
    /\ indirect' = IF ClassAt(cur) = "table" THEN Append(indirect, cur) ELSE indirect
    /\ UNCHANGED <<work, cur, funcs>>

Jump ==
    /\ Decode /\ ClassAt(cur) = "jump"
    /\ cur' = Target(code, cur)
    /\ UNCHANGED <<pc, work, funcs, indirect>>

\* Mutant: a conditional branch is followed along its target only.
BranchTaken ==
    /\ Decode /\ ClassAt(cur) \in {"call", "branch"}
    /\ cur' = IF ClassAt(cur) = "branch" THEN Target(code, cur) ELSE NextAddr(code, cur)
    /\ work' = IF ClassAt(cur) = "call" THEN Append(work, Target(code, cur)) ELSE work
    /\ funcs' = IF ClassAt(cur) = "call" THEN funcs \cup {Target(code, cur)} ELSE funcs
    /\ UNCHANGED <<pc, indirect>>

\* A call or a conditional branch: the target is kept for later.
Branch ==
    /\ Decode /\ ClassAt(cur) \in {"call", "branch"}
    /\ cur' = NextAddr(code, cur)
    /\ work' = Append(work, Target(code, cur))
    /\ funcs' = IF ClassAt(cur) = "call" THEN funcs \cup {Target(code, cur)} ELSE funcs
    /\ UNCHANGED <<pc, indirect>>

FallThrough ==
    /\ Decode /\ ClassAt(cur) = "plain"
    /\ cur' = NextAddr(code, cur)
    /\ UNCHANGED <<pc, work, funcs, indirect>>

Next ==
    \/ ReadVector \/ VectorsRead \/ Pop \/ LeaveWalk \/ DecodeRaises
    \/ Stop \/ Jump \/ Branch \/ FallThrough

Spec == Init /\ [][Next]_vars /\ WF_vars(Next)
----------------------------------------------------------------------------
(* Properties.                                                             *)

\* Types; the jump tables recorded are decoded instructions.
TypeOK ==
    /\ pc \in {"vectors", "pop", "walk", "done", "raised"}
    /\ vec \in 0 .. Len(Vectors)
    /\ work \in Seq(Nat)
    /\ cur \in Nat
    /\ insns \subseteq Addr
    /\ funcs \subseteq Nat
    /\ indirect \in Seq(insns)

\* Where control can go from an instruction that the image holds in full, unless
\* a jump table hides it.
Succ(a) ==
    (IF ClassAt(a) \in {"jump", "call", "branch"} THEN {Target(code, a)} ELSE {})
        \cup (IF ClassAt(a) \in {"plain", "call", "branch"} THEN {NextAddr(code, a)} ELSE {})

\* A set of addresses that holds the entries and is closed under Succ, inside
\* the image.  The reachable code is the least such set.
EntryVectors == {v \in {Vectors[i] : i \in DOMAIN Vectors} : InImage(v) /\ ClassAt(v) = "jump"}
Entries == {Target(code, v) : v \in EntryVectors}
Closed(S) ==
    /\ Entries \cap Addr \subseteq S
    /\ \A a \in S : Whole(code, a) => Succ(a) \cap Addr \subseteq S

\* Nothing is decoded that is not reachable: data between the functions is never
\* taken for code.
OnlyReachable ==
    pc \in {"done", "raised"} => \A S \in SUBSET Addr : Closed(S) => insns \subseteq S

\* Nothing reachable is missed, whatever order the stack gives the walk.
AllReachable == pc = "done" => Closed(insns)

\* The functions are the targets of the calls decoded, and the jump tables are
\* recorded once each, so that their number is right.
FunctionsAreCalled ==
    /\ funcs = {Target(code, a) : a \in {b \in insns : ClassAt(b) = "call"}}
    /\ {indirect[i] : i \in DOMAIN indirect} = {a \in insns : ClassAt(a) = "table"}
    /\ \A i, k \in DOMAIN indirect : indirect[i] = indirect[k] => i = k

\* trace.py:2: the map is the reachable code, with the functions called in it.
MapIsRight == OnlyReachable /\ AllReachable /\ FunctionsAreCalled

\* The only error is an instruction the end of the image cuts off, on a path the
\* code really has.
RaisesOnlyAtEnd ==
    pc = "raised" =>
        /\ cur \in Addr /\ cur + 3 > Len(code)
        /\ \A S \in SUBSET Addr : Closed(S) => cur \in S

\* The inductive invariant.  Covered is what was decoded or will be: the entries
\* read and the successors of all that was decoded are in it, and nothing else.
OnStack(w) == {w[i] : i \in DOMAIN w}
Pending == OnStack(work) \cup (IF pc \in {"walk", "raised"} THEN {cur} ELSE {})
Covered == insns \cup Pending

EntriesCovered ==
    /\ \A i \in 1 .. vec :
          /\ InImage(Vectors[i])
          /\ ClassAt(Vectors[i]) = "jump" /\ Target(code, Vectors[i]) \in Addr
                => Target(code, Vectors[i]) \in Covered
    /\ pc # "vectors" => Entries \cap Addr \subseteq Covered

SuccessorsCovered ==
    \A a \in insns : Whole(code, a) /\ Succ(a) \cap Addr \subseteq Covered

OnlyReachableCovered ==
    \A S \in SUBSET Addr : Closed(S) => Covered \cap Addr \subseteq S

EndsRight ==
    /\ pc = "done" => work = <<>>
    /\ pc = "raised" => cur \in Addr /\ ~Whole(code, cur)

FollowInv ==
    /\ code \in Images /\ TypeOK
    /\ EntriesCovered /\ SuccessorsCovered /\ OnlyReachableCovered
    /\ EndsRight /\ FunctionsAreCalled
=============================================================================
