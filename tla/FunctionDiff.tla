---------------------------- MODULE FunctionDiff ----------------------------
(***************************************************************************)
(* trace.diff_functions: the functions of two builds of a firmware are     *)
(* paired, first those with equal tokens, then by likeness, one function   *)
(* of A per step.  A function is known by its place in its build, its body *)
(* is a sequence of instructions.                                          *)
(***************************************************************************)
EXTENDS Integers, Sequences

CONSTANTS
    Bodies,     \* the bodies of functions
    BuildsA, BuildsB,   \* the builds compared: sequences of bodies
    Thresh,     \* thresh, in hundredths (62)
    QuickRatio(_, _), Ratio(_, _)   \* of difflib.SequenceMatcher, as fractions

\* An opcode, what it works on but for a target, and the target if it has one.
Instruction == [op : STRING, arg : STRING, target : STRING]
ASSUME FunctionDiffAssumption ==
    /\ \A b \in Bodies : b # <<>> /\ \A i \in DOMAIN b : b[i] \in Instruction
    /\ BuildsA \cup BuildsB \subseteq Seq(Bodies)
    /\ Thresh \in 0 .. 100

VARIABLES
    fa, fb,     \* A and B
    pass,       \* "equal", "fuzzy" or "done"
    n,          \* the function of A looked at
    identical, operandOnly, structural,     \* pairs of functions
    added,      \* the functions of A without a partner
    remB        \* the functions of B without one

vars == <<fa, fb, pass, n, identical, operandOnly, structural, added, remB>>
classes == <<identical, operandOnly, structural, added>>

A == DOMAIN fa
B == DOMAIN fb
FirstOf(p) == {x[1] : x \in p}
SecondOf(p) == {x[2] : x \in p}
Paired == identical \cup operandOnly \cup structural
----------------------------------------------------------------------------
(* Tokens                                                                  *)

\* _norm_token: jumps are alike, and so are calls; any other instruction keeps what it
\* works on, a conditional branch with it but without its target.
Norm(i) ==
    IF i.op \in {"ajmp", "ljmp", "sjmp"} THEN <<"JMP", "">>
    ELSE IF i.op \in {"acall", "lcall"} THEN <<"CALL", "">>
    ELSE <<i.op, i.arg>>
Toks(b) == [i \in DOMAIN b |-> Norm(b[i])]
Ops(b) == [i \in DOMAIN b |-> b[i].op]

\* What difflib says of its ratios: the quick one is an upper bound.  No body is empty,
\* so no denominator is zero.
ASSUME RatioAssumption ==
    \A s, t \in Bodies :
        LET q == QuickRatio(Toks(s), Toks(t))
            r == Ratio(Toks(s), Toks(t))
        IN  /\ q \in Nat \X (Nat \ {0}) /\ r \in Nat \X (Nat \ {0})
            /\ r[1] * q[2] <= q[1] * r[2]

\* A likeness is a numerator and a denominator, compared as fractions.
Above(p, q) == p[1] * q[2] > q[1] * p[2]
Alike(s, t) == 100 * Ratio(Toks(s), Toks(t))[1] >= Thresh * Ratio(Toks(s), Toks(t))[2]

----------------------------------------------------------------------------
Init ==
    /\ fa \in BuildsA /\ fb \in BuildsB
    /\ pass = "equal" /\ n = 1
    /\ identical = {} /\ operandOnly = {} /\ structural = {}
    /\ added = {} /\ remB = DOMAIN fb

\* Mutant: a function of B can be the partner of several.
UsedAgain == {b \in B : Toks(fb[b]) = Toks(fa[n])}

\* The functions of B with the tokens of the function looked at, not used yet.
Candidates == {b \in remB : Toks(fb[b]) = Toks(fa[n])}

MatchEqual ==
    /\ pass = "equal" /\ n \in A
    /\ n' = n + 1
    /\ UNCHANGED <<fa, fb, pass, operandOnly, structural, added>>
    /\ \/ Candidates = {} /\ UNCHANGED <<identical, remB>>
       \/ \E b \in Candidates :
             /\ \A c \in Candidates : b <= c
             /\ identical' = identical \cup {<<n, b>>} /\ remB' = remB \ {b}

PassEnds ==
    /\ pass # "done" /\ n \notin A
    /\ pass' = (IF pass = "equal" THEN "fuzzy" ELSE "done") /\ n' = 1
    /\ UNCHANGED <<fa, fb, classes, remB>>

Likeness(b) == QuickRatio(Toks(fa[n]), Toks(fb[b]))
Like == {b \in remB : Likeness(b)[1] > 0}

\* Mutant: the first that has a token in common is taken.
FirstLike(b) == \A c \in Like : b <= c

\* The first of the greatest likeness by the quick ratio, of those that have one.
Best(b) == \A c \in Like \ {b} :
    Above(Likeness(b), Likeness(c)) \/ (~Above(Likeness(c), Likeness(b)) /\ b < c)

\* Mutant: the tokens are compared in place of the opcodes.
SameTokens(a, b) == Toks(fa[a]) = Toks(fb[b])

SameOps(a, b) == Ops(fa[a]) = Ops(fb[b])

Unmatched ==
    /\ Like = {} \/ \E b \in Like : Best(b) /\ ~Alike(fa[n], fb[b])
    /\ added' = added \cup {n}
    /\ UNCHANGED <<operandOnly, structural, remB>>

Matched ==
    \E b \in Like :
        /\ Best(b) /\ Alike(fa[n], fb[b])
        /\ remB' = remB \ {b}
        /\ IF SameOps(n, b)
           THEN operandOnly' = operandOnly \cup {<<n, b>>} /\ UNCHANGED structural
           ELSE structural' = structural \cup {<<n, b>>} /\ UNCHANGED operandOnly
        /\ UNCHANGED added

MatchFuzzy ==
    /\ pass = "fuzzy" /\ n \in A \ FirstOf(identical)
    /\ Matched \/ Unmatched
    /\ n' = n + 1
    /\ UNCHANGED <<fa, fb, pass, identical>>

SkipIdentical ==
    /\ pass = "fuzzy" /\ n \in FirstOf(identical)
    /\ n' = n + 1
    /\ UNCHANGED <<fa, fb, pass, classes, remB>>

Next == MatchEqual \/ PassEnds \/ MatchFuzzy \/ SkipIdentical
Spec == Init /\ [][Next]_vars
----------------------------------------------------------------------------
(* Properties.                                                             *)

\* trace.py:153: the classes are a partition of the functions of each side, and no
\* function is the partner of two.
ClassesPartition ==
    pass = "done" =>
        /\ FirstOf(Paired) \cup added = A /\ FirstOf(Paired) \cap added = {}
        /\ SecondOf(Paired) \cup remB = B /\ SecondOf(Paired) \cap remB = {}
        /\ \A p, q \in Paired : p # q => p[1] # q[1] /\ p[2] # q[2]
        /\ identical \cap operandOnly = {} /\ identical \cap structural = {}
        /\ operandOnly \cap structural = {}

\* trace.py:155: the classes mean what they say: as many functions are identical as
\* can be, operand-only and structural are alike but differ in no opcode, or in one.
ClassesAreRight ==
    pass = "done" =>
        /\ \A p \in identical : Toks(fa[p[1]]) = Toks(fb[p[2]])
        /\ \A a \in A \ FirstOf(identical) : \A b \in B \ SecondOf(identical) :
              Toks(fa[a]) # Toks(fb[b])
        /\ \A p \in operandOnly \cup structural :
              /\ Alike(fa[p[1]], fb[p[2]])
              /\ p \in operandOnly <=> Ops(fa[p[1]]) = Ops(fb[p[2]])

\* What is called added although a removed function is like it has met one that
\* seemed more like it by its tokens in any order, and was not.  The quick ratio
\* is an upper bound of the ratio, which is why nothing else is missed.
Seemed(a, b) == QuickRatio(Toks(fa[a]), Toks(fb[b]))
MissesByQuickRatio ==
    pass = "done" =>
        \A a \in added : \A b \in remB : Alike(fa[a], fb[b]) =>
            \E c \in B \ {b} : /\ ~Above(Seemed(a, b), Seemed(a, c))
                               /\ ~Alike(fa[a], fb[c])
=============================================================================
