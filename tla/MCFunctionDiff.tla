--------------------------- MODULE MCFunctionDiff ---------------------------
(* Bodies alike in every way: the same but for an operand, for the encoding of  *)
(* a jump, for a branch target, for the order, for one more instruction.        *)
EXTENDS FunctionDiff, SequencesExt, FiniteSetsExt

I(op, arg, target) == [op |-> op, arg |-> arg, target |-> target]
Mov(arg) == I("mov", arg, "")
Jump(op, target) == I(op, "", target)
Cjne(arg, target) == I("cjne", arg, target)
x == Mov("1")
MCBodies == {<<x>>, <<x, Jump("ajmp", "1")>>, <<x, Jump("ljmp", "2")>>, <<Jump("ajmp", "2"), x>>,
             <<Mov("2"), Jump("ajmp", "1")>>, <<x, Cjne("r0,1", "1"), Jump("ajmp", "1")>>,
             <<Mov("2"), Cjne("r0,1", "2"), Jump("ajmp", "3")>>,
             <<Mov("2"), Cjne("r0,2", "2"), Jump("ljmp", "3")>>}

\* The tokens in common, in any order.
Count(t, s) == Cardinality({i \in DOMAIN s : s[i] = t})
MCQuickRatio(s, t) ==
    <<2 * MapThenSumSet(LAMBDA k : Min({Count(k, s), Count(k, t)}), ToSet(s)), Len(s) + Len(t)>>

\* The longest common piece, the first in s and then in t, and the same on both
\* sides of it.
RECURSIVE Matches(_, _)
Matches(s, t) ==
    LET Piece(i, k, m) == /\ i + m <= Len(s) + 1 /\ k + m <= Len(t) + 1
                          /\ SubSeq(s, i, i + m - 1) = SubSeq(t, k, k + m - 1)
        pieces == {p \in (DOMAIN s) \X (DOMAIN t) \X (DOMAIN s) : Piece(p[1], p[2], p[3])}
    IN  IF pieces = {} THEN 0
        ELSE LET p == CHOOSE a \in pieces : \A b \in pieces :
                        \/ a[3] > b[3]
                        \/ a[3] = b[3] /\ (a[1] < b[1] \/ (a[1] = b[1] /\ a[2] <= b[2]))
             IN  p[3] + Matches(SubSeq(s, 1, p[1] - 1), SubSeq(t, 1, p[2] - 1))
                      + Matches(SubSeq(s, p[1] + p[3], Len(s)), SubSeq(t, p[2] + p[3], Len(t)))
MCRatio(s, t) == <<2 * Matches(s, t), Len(s) + Len(t)>>

MCBuildsA == BoundedSeq(MCBodies, 2)
MCBuildsB == BoundedSeq(MCBodies, 3)
=============================================================================
