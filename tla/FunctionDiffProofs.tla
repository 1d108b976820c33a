------------------------- MODULE FunctionDiffProofs -------------------------
(***************************************************************************)
(* Proofs about diff_functions, for any bodies, builds and threshold and   *)
(* whatever difflib's ratios are: the classes are a partition of both      *)
(* sides, and mean what they say.  That the quick ratio is a bound of the  *)
(* ratio is used for one thing only, what diff_functions may miss.         *)
(***************************************************************************)
EXTENDS FunctionDiff, TLAPS

\* The pairs are one-to-one, each in one class, and what is left of either side has
\* no partner.
OneToOne ==
    /\ Paired \subseteq A \X B
    /\ remB = B \ SecondOf(Paired)
    /\ \A p, q \in Paired : p # q => p[1] # q[1] /\ p[2] # q[2]
    /\ added \subseteq A /\ FirstOf(Paired) \cap added = {}
    /\ identical \cap operandOnly = {} /\ identical \cap structural = {}
    /\ operandOnly \cap structural = {}

\* A pass has dealt with the functions of A before n: in the first pass those left
\* have no equal that is left, in the second none is left.
EqualsTaken(a) ==
    a \in FirstOf(identical) \/ \A b \in B \ SecondOf(identical) : Toks(fa[a]) # Toks(fb[b])
Passed ==
    /\ pass = "equal" =>
          /\ operandOnly = {} /\ structural = {} /\ added = {}
          /\ \A a \in FirstOf(identical) : a < n
          /\ \A a \in A : a < n => EqualsTaken(a)
    /\ pass # "equal" => \A a \in A : EqualsTaken(a)
    /\ pass = "fuzzy" =>
          /\ \A a \in FirstOf(operandOnly \cup structural) \cup added : a < n
          /\ \A a \in A : a < n => a \in FirstOf(Paired) \cup added
    /\ pass = "done" => A \subseteq FirstOf(Paired) \cup added

\* The classes of the pairs.
Classified ==
    /\ \A p \in identical : Toks(fa[p[1]]) = Toks(fb[p[2]])
    /\ \A p \in operandOnly \cup structural : Alike(fa[p[1]], fb[p[2]])
    /\ \A p \in operandOnly : SameOps(p[1], p[2])
    /\ \A p \in structural : ~SameOps(p[1], p[2])

DiffInv ==
    /\ fa \in Seq(Bodies) /\ fb \in Seq(Bodies)
    /\ pass \in {"equal", "fuzzy", "done"} /\ n \in Nat \ {0}
    /\ OneToOne /\ Passed /\ Classified
-----------------------------------------------------------------------------
\* Functions are numbered from 1 on.
LEMMA Numbered ==
    ASSUME DiffInv PROVE A = 1 .. Len(fa) /\ Len(fa) \in Nat /\ A \subseteq Nat
BY DEF DiffInv, A

\* When n is behind the last function, all are before it.
LEMMA AllBefore ==
    ASSUME DiffInv, n \notin A PROVE \A a \in A : a < n
BY Numbered DEF DiffInv

\* What is before n, and n itself, is before the next.
LEMMA Later ==
    ASSUME NEW S, NEW T, S \subseteq T, T \subseteq Nat, NEW m \in Nat, \A a \in S : a < m
    PROVE  \A a \in S \cup {m} : a < m + 1
<1>1. \A a \in S : a \in Nat
  OBVIOUS
<1>2. \A a \in Nat : a < m => a < m + 1
  OBVIOUS
<1> QED
  BY <1>1, <1>2

LEMMA Projections ==
    ASSUME NEW S, NEW p
    PROVE  /\ FirstOf(S \cup {p}) = FirstOf(S) \cup {p[1]}
           /\ SecondOf(S \cup {p}) = SecondOf(S) \cup {p[2]}
           /\ FirstOf({}) = {} /\ SecondOf({}) = {}
BY DEF FirstOf, SecondOf

LEMMA SubsetProjections ==
    ASSUME NEW S, NEW T, S \subseteq T
    PROVE  FirstOf(S) \subseteq FirstOf(T) /\ SecondOf(S) \subseteq SecondOf(T)
BY DEF FirstOf, SecondOf

\* A new pair of two functions without a partner, in any one class.
LEMMA PairKeeps ==
    ASSUME OneToOne, n \in A, n \notin FirstOf(Paired), n \notin added, NEW b \in remB,
           fa' = fa, fb' = fb, added' = added, remB' = remB \ {b},
           \/ /\ identical' = identical \cup {<<n, b>>}
              /\ operandOnly' = operandOnly /\ structural' = structural
           \/ /\ operandOnly' = operandOnly \cup {<<n, b>>}
              /\ identical' = identical /\ structural' = structural
           \/ /\ structural' = structural \cup {<<n, b>>}
              /\ identical' = identical /\ operandOnly' = operandOnly
    PROVE  OneToOne' /\ Paired' = Paired \cup {<<n, b>>}
<1> DEFINE x == <<n, b>>
<1>1. x[1] = n /\ x[2] = b /\ x \notin Paired /\ b \in B /\ b \notin SecondOf(Paired)
  BY DEF OneToOne, FirstOf
<1>2. Paired' = Paired \cup {x} /\ A' = A /\ B' = B
  BY DEF Paired, A, B
<1>3. Paired' \subseteq A \X B
  BY <1>1, <1>2 DEF OneToOne
<1>4. FirstOf(Paired)' = FirstOf(Paired) \cup {n} /\ SecondOf(Paired)' = SecondOf(Paired) \cup {b}
  BY <1>1, <1>2 DEF FirstOf, SecondOf
<1>5. ASSUME NEW p \in Paired', NEW q \in Paired', p # q PROVE p[1] # q[1] /\ p[2] # q[2]
  <2>1. ASSUME NEW y \in Paired PROVE y[1] # n /\ y[2] # b
    BY <1>1 DEF FirstOf, SecondOf
  <2>2. CASE p \in Paired /\ q \in Paired
    BY <1>5, <2>2 DEF OneToOne
  <2>3. CASE p = x \/ q = x
    BY <1>1, <1>2, <1>5, <2>1, <2>3
  <2> QED
    BY <1>2, <2>2, <2>3
<1>6. /\ identical' \cap operandOnly' = {} /\ identical' \cap structural' = {}
      /\ operandOnly' \cap structural' = {}
  BY <1>1 DEF OneToOne, Paired
<1>7. remB' = B \ (SecondOf(Paired) \cup {b})
  BY DEF OneToOne
<1>8. added \subseteq A /\ (FirstOf(Paired) \cup {n}) \cap added = {}
  BY DEF OneToOne
<1> QED
  BY <1>2, <1>3, <1>4, <1>5, <1>6, <1>7, <1>8 DEF OneToOne
-----------------------------------------------------------------------------
LEMMA InitIsRight == Init => DiffInv
<1> SUFFICES ASSUME Init PROVE DiffInv
  OBVIOUS
<1>1. fa \in Seq(Bodies) /\ fb \in Seq(Bodies)
  BY FunctionDiffAssumption DEF Init
<1>2. Paired = {} /\ FirstOf(Paired) = {} /\ SecondOf(Paired) = {}
  BY Projections DEF Init, Paired
<1>3. OneToOne
  BY <1>2 DEF Init, OneToOne, B
<1>4. Passed
  <2>1. \A a \in A : ~(a < n)
    BY <1>1 DEF Init, A
  <2> QED
    BY <2>1, Projections DEF Init, Passed
<1>5. Classified
  BY DEF Init, Classified
<1> QED
  BY <1>1, <1>3, <1>4, <1>5 DEF Init, DiffInv

LEMMA MatchEqualKeeps == ASSUME DiffInv, MatchEqual PROVE DiffInv'
<1>1. /\ pass = "equal" /\ n \in A /\ n' = n + 1 /\ fa' = fa /\ fb' = fb /\ pass' = pass
      /\ operandOnly' = operandOnly /\ structural' = structural /\ added' = added
  BY DEF MatchEqual
<1>2. /\ OneToOne /\ Passed /\ Classified /\ operandOnly = {} /\ structural = {} /\ added = {}
      /\ n \in Nat \ {0} /\ A \subseteq Nat /\ Paired = identical
      /\ \A a \in FirstOf(identical) : a < n
      /\ \A a \in A : a < n => EqualsTaken(a)
  BY <1>1, Numbered DEF DiffInv, Passed, Paired
<1>3. A' = A /\ B' = B /\ n' \in Nat \ {0}
  BY <1>1, <1>2 DEF A, B
<1>4. remB = B \ SecondOf(identical)
  BY <1>2 DEF OneToOne
<1>5. CASE Candidates = {} /\ UNCHANGED <<identical, remB>>
  <2>1. EqualsTaken(n)
    BY <1>4, <1>5 DEF Candidates, EqualsTaken
  <2>2. \A a : EqualsTaken(a)' = EqualsTaken(a)
    BY <1>1, <1>3, <1>5 DEF EqualsTaken
  <2>3. \A a \in A : a < n + 1 => a < n \/ a = n
    BY <1>2
  <2>4. \A a \in FirstOf(identical) : a < n + 1
    <3>1. FirstOf(identical) \subseteq A
      BY <1>2 DEF OneToOne, FirstOf
    <3> QED
      BY <1>2, <3>1, Later
  <2>5. Passed'
    BY <1>1, <1>2, <1>3, <1>5, <2>1, <2>2, <2>3, <2>4 DEF Passed
  <2>6. OneToOne' /\ Classified'
    BY <1>1, <1>2, <1>3, <1>5 DEF OneToOne, Classified, Paired, SameOps
  <2> QED
    BY <1>1, <1>3, <2>5, <2>6 DEF DiffInv
<1>6. CASE \E b \in Candidates : identical' = identical \cup {<<n, b>>} /\ remB' = remB \ {b}
  <2>1. PICK b \in Candidates : identical' = identical \cup {<<n, b>>} /\ remB' = remB \ {b}
    BY <1>6
  <2>2. b \in remB /\ Toks(fb[b]) = Toks(fa[n])
    BY DEF Candidates
  <2>3. n \notin FirstOf(Paired) /\ n \notin added
    BY <1>2
  <2>4. OneToOne'
    BY <1>1, <1>2, <2>1, <2>2, <2>3, PairKeeps
  <2>5. /\ FirstOf(identical') = FirstOf(identical) \cup {n}
        /\ SecondOf(identical') = SecondOf(identical) \cup {b}
    BY <2>1, Projections
  <2>6. ASSUME NEW a \in A, a < n' PROVE EqualsTaken(a)'
    <3>1. CASE a = n
      BY <2>5, <3>1 DEF EqualsTaken
    <3>2. CASE a < n
      BY <1>1, <1>2, <1>3, <2>5, <3>2 DEF EqualsTaken
    <3> QED
      BY <1>1, <1>2, <2>6, <3>1, <3>2
  <2>7. \A a \in FirstOf(identical') : a < n'
    <3>1. FirstOf(identical) \subseteq A
      BY <1>2 DEF OneToOne, FirstOf
    <3>2. \A a \in FirstOf(identical) \cup {n} : a < n + 1
      BY <1>2, <3>1, Later
    <3> QED
      BY <1>1, <2>5, <3>2
  <2>8. Passed'
    BY <1>1, <1>2, <1>3, <2>6, <2>7 DEF Passed
  <2>9. Classified'
    BY <1>1, <1>2, <2>1, <2>2 DEF Classified, SameOps
  <2> QED
    BY <1>1, <1>3, <2>4, <2>8, <2>9 DEF DiffInv
<1> QED
  BY <1>5, <1>6 DEF MatchEqual

\* The first pass leaves the fuzzy classes empty, the second looks at every function
\* that found no equal.
LEMMA PassEndsKeeps == ASSUME DiffInv, PassEnds PROVE DiffInv'
<1>1. /\ pass # "done" /\ n \notin A /\ n' = 1 /\ fa' = fa /\ fb' = fb
      /\ pass' = (IF pass = "equal" THEN "fuzzy" ELSE "done") /\ identical' = identical
      /\ operandOnly' = operandOnly /\ structural' = structural /\ added' = added /\ remB' = remB
  BY DEF PassEnds, classes
<1>2. A' = A /\ B' = B /\ Paired' = Paired
  BY <1>1 DEF A, B, Paired
<1>3. \A a \in A : a < n
  BY <1>1, AllBefore
<1>4. \A a : EqualsTaken(a)' = EqualsTaken(a)
  BY <1>1, <1>2 DEF EqualsTaken
<1>5. OneToOne' /\ Classified'
  BY <1>1, <1>2 DEF DiffInv, OneToOne, Classified, SameOps
<1>6. Passed /\ pass \in {"equal", "fuzzy"}
  BY <1>1 DEF DiffInv
<1>7. Passed'
  <2>1. CASE pass = "equal"
    <3>1. /\ pass' = "fuzzy" /\ \A a \in A : EqualsTaken(a)
          /\ operandOnly = {} /\ structural = {} /\ added = {}
      BY <1>1, <1>3, <1>6, <2>1 DEF Passed
    <3>2. FirstOf(operandOnly \cup structural) \cup added = {}
      BY <3>1, Projections
    <3>3. \A a \in A : ~(a < 1)
      <4>1. A = 1 .. Len(fa)
        BY Numbered
      <4> QED
        BY <4>1
    <3> QED
      BY <1>1, <1>2, <1>4, <3>1, <3>2, <3>3 DEF Passed
  <2>2. CASE pass = "fuzzy"
    <3>1. /\ pass' = "done" /\ \A a \in A : EqualsTaken(a)
          /\ A \subseteq FirstOf(Paired) \cup added
      BY <1>1, <1>3, <1>6, <2>2 DEF Passed
    <3> QED
      BY <1>1, <1>2, <1>4, <3>1 DEF Passed
  <2> QED
    BY <1>6, <2>1, <2>2
<1> QED
  BY <1>1, <1>5, <1>6, <1>7 DEF DiffInv

\* The facts of a step of the second pass.
FuzzyStep ==
    /\ pass = "fuzzy" /\ n \in A /\ n' = n + 1
    /\ fa' = fa /\ fb' = fb /\ pass' = pass /\ identical' = identical

\* A step of the second pass deals with n: it is paired, added, or was identical.
LEMMA FuzzyPasses ==
    ASSUME DiffInv, FuzzyStep,
           FirstOf(Paired)' \cup added' = FirstOf(Paired) \cup added \cup {n},
           FirstOf(operandOnly \cup structural)' \cup added'
               \subseteq FirstOf(operandOnly \cup structural) \cup added \cup {n}
    PROVE  Passed'
<1>1. /\ Passed /\ pass = "fuzzy" /\ pass' = "fuzzy" /\ n \in A /\ n' = n + 1
      /\ A' = A /\ B' = B /\ n \in Nat /\ A \subseteq Nat
  BY Numbered DEF DiffInv, FuzzyStep, A, B
<1>2. \A a \in A : EqualsTaken(a)'
  BY <1>1 DEF Passed, EqualsTaken, FuzzyStep
<1>3. \A a \in FirstOf(operandOnly \cup structural)' \cup added' : a < n'
  <2> DEFINE S == FirstOf(operandOnly \cup structural) \cup added
  <2>1. S \subseteq A
    <3>1. operandOnly \cup structural \subseteq A \X B /\ added \subseteq A
      BY DEF DiffInv, OneToOne, Paired
    <3> QED
      BY <3>1 DEF FirstOf
  <2>2. \A a \in S : a < n
    BY <1>1 DEF Passed
  <2>3. \A a \in S \cup {n} : a < n + 1
    BY <1>1, <2>1, <2>2, Later
  <2> QED
    BY <1>1, <2>3
<1>4. ASSUME NEW a \in A, a < n' PROVE a \in FirstOf(Paired)' \cup added'
  <2>1. a < n \/ a = n
    BY <1>1, <1>4
  <2>2. a < n => a \in FirstOf(Paired) \cup added
    BY <1>1 DEF Passed
  <2> QED
    BY <2>1, <2>2
<1> QED
  BY <1>1, <1>2, <1>3, <1>4 DEF Passed

\* The function looked at has no partner yet, and is not given up.
LEMMA NotYetPaired ==
    ASSUME DiffInv, pass = "fuzzy", n \in A, n \notin FirstOf(identical)
    PROVE  n \notin FirstOf(Paired) /\ n \notin added
<1>1. \A a \in FirstOf(operandOnly \cup structural) \cup added : a < n
  BY DEF DiffInv, Passed
<1>2. ~(n < n)
  BY DEF DiffInv
<1>3. FirstOf(Paired) = FirstOf(identical) \cup FirstOf(operandOnly \cup structural)
  BY DEF FirstOf, Paired
<1> QED
  BY <1>1, <1>2, <1>3

LEMMA SkipIdenticalKeeps == ASSUME DiffInv, SkipIdentical PROVE DiffInv'
<1>1. /\ pass = "fuzzy" /\ n \in FirstOf(identical) /\ n' = n + 1 /\ pass' = pass
      /\ fa' = fa /\ fb' = fb /\ identical' = identical /\ operandOnly' = operandOnly
      /\ structural' = structural /\ added' = added /\ remB' = remB
  BY DEF SkipIdentical, classes
<1>2. FirstOf(identical) \subseteq FirstOf(Paired) /\ FirstOf(Paired) \subseteq A
  BY SubsetProjections DEF DiffInv, OneToOne, Paired, FirstOf
<1>3. A' = A /\ B' = B /\ Paired' = Paired /\ n \in A /\ n \in Nat \ {0} /\ n + 1 \in Nat \ {0}
  <2>1. n \in A
    BY <1>1, <1>2
  <2> QED
    BY <1>1, <2>1 DEF A, B, Paired, DiffInv
<1>4. FuzzyStep
  BY <1>1, <1>3 DEF FuzzyStep
<1>5. /\ FirstOf(Paired)' \cup added' = FirstOf(Paired) \cup added \cup {n}
      /\ FirstOf(operandOnly \cup structural)' = FirstOf(operandOnly \cup structural)
  BY <1>1, <1>2, <1>3 DEF FirstOf
<1>6. Passed'
  BY <1>1, <1>4, <1>5, FuzzyPasses
<1>7. OneToOne' /\ Classified'
  BY <1>1, <1>3 DEF DiffInv, OneToOne, Classified, SameOps
<1> QED
  BY <1>1, <1>3, <1>6, <1>7 DEF DiffInv

LEMMA UnmatchedKeeps == ASSUME DiffInv, MatchFuzzy, Unmatched PROVE DiffInv'
<1>1. /\ pass = "fuzzy" /\ n \in A /\ n \notin FirstOf(identical) /\ n' = n + 1 /\ pass' = pass
      /\ fa' = fa /\ fb' = fb /\ identical' = identical /\ operandOnly' = operandOnly
      /\ structural' = structural /\ added' = added \cup {n} /\ remB' = remB
  BY DEF MatchFuzzy, Unmatched
<1>2. A' = A /\ B' = B /\ Paired' = Paired /\ n \in Nat \ {0} /\ n + 1 \in Nat \ {0}
  BY <1>1 DEF A, B, Paired, DiffInv
<1>3. FuzzyStep
  BY <1>1 DEF FuzzyStep
<1>4. n \notin FirstOf(Paired)
  BY <1>1, NotYetPaired
<1>5. /\ FirstOf(Paired)' = FirstOf(Paired)
      /\ FirstOf(operandOnly \cup structural)' = FirstOf(operandOnly \cup structural)
  BY <1>1, <1>2 DEF FirstOf
<1>6. Passed'
  BY <1>1, <1>3, <1>5, FuzzyPasses
<1>7. OneToOne'
  BY <1>1, <1>2, <1>4, <1>5 DEF DiffInv, OneToOne
<1>8. Classified'
  BY <1>1 DEF DiffInv, Classified, SameOps
<1> QED
  BY <1>1, <1>2, <1>6, <1>7, <1>8 DEF DiffInv

LEMMA MatchedKeeps == ASSUME DiffInv, MatchFuzzy, Matched PROVE DiffInv'
<1>1. /\ pass = "fuzzy" /\ n \in A /\ n \notin FirstOf(identical) /\ n' = n + 1 /\ pass' = pass
      /\ fa' = fa /\ fb' = fb /\ identical' = identical /\ added' = added
  BY DEF MatchFuzzy, Matched
<1>2. PICK b \in Like :
          /\ Alike(fa[n], fb[b]) /\ remB' = remB \ {b}
          /\ IF SameOps(n, b)
             THEN operandOnly' = operandOnly \cup {<<n, b>>} /\ structural' = structural
             ELSE structural' = structural \cup {<<n, b>>} /\ operandOnly' = operandOnly
  BY DEF Matched
<1>3. A' = A /\ B' = B /\ n \in Nat \ {0} /\ n + 1 \in Nat \ {0} /\ b \in remB
  BY <1>1 DEF A, B, DiffInv, Like
<1>4. n \notin FirstOf(Paired) /\ n \notin added
  BY <1>1, NotYetPaired
<1>5. OneToOne' /\ Paired' = Paired \cup {<<n, b>>}
  BY <1>1, <1>2, <1>3, <1>4, PairKeeps DEF DiffInv
<1>6. (operandOnly \cup structural)' = operandOnly \cup structural \cup {<<n, b>>}
  BY <1>2
<1>7. /\ FirstOf(Paired)' = FirstOf(Paired) \cup {n}
      /\ FirstOf(operandOnly \cup structural)' = FirstOf(operandOnly \cup structural) \cup {n}
  <2>1. <<n, b>>[1] = n
    OBVIOUS
  <2>2. FirstOf(Paired') = FirstOf(Paired) \cup {n}
    BY <1>5, <2>1, Projections
  <2>3. FirstOf((operandOnly \cup structural)') = FirstOf(operandOnly \cup structural) \cup {n}
    <3> DEFINE S == operandOnly \cup structural
    <3>1. S' = S \cup {<<n, b>>}
      BY <1>6
    <3> HIDE DEF S
    <3>2. FirstOf(S \cup {<<n, b>>}) = FirstOf(S) \cup {n}
      BY <2>1, Projections
    <3>3. FirstOf(S') = FirstOf(S) \cup {n}
      BY <3>1, <3>2
    <3> QED
      BY <3>3 DEF S
  <2> QED
    BY <2>2, <2>3
<1>8. Passed'
  <2>1. FuzzyStep
    BY <1>1 DEF FuzzyStep
  <2> QED
    BY <1>1, <1>7, <2>1, FuzzyPasses
<1>9. Classified'
  <2>1. <<n, b>>[1] = n /\ <<n, b>>[2] = b
    OBVIOUS
  <2>2. \A x, y : SameOps(x, y)' = SameOps(x, y)
    BY <1>1 DEF SameOps
  <2>3. \A p \in (operandOnly \cup structural)' : Alike(fa[p[1]], fb[p[2]])
    BY <1>2, <1>6, <2>1 DEF DiffInv, Classified
  <2>4. /\ \A p \in operandOnly' : SameOps(p[1], p[2])
        /\ \A p \in structural' : ~SameOps(p[1], p[2])
    BY <1>2, <2>1 DEF DiffInv, Classified
  <2> QED
    BY <1>1, <2>2, <2>3, <2>4 DEF DiffInv, Classified
<1> QED
  BY <1>1, <1>3, <1>5, <1>8, <1>9 DEF DiffInv
-----------------------------------------------------------------------------
(* What is missed.                                                         *)

\* A function of A is given up when nothing that is left seems like it, or when what
\* seemed most like it was not.  What is left of B only gets less after that.
GivenUp(a) ==
    \/ \A b \in remB : ~(Seemed(a, b)[1] > 0)
    \/ \E c \in B : /\ ~Alike(fa[a], fb[c])
                    /\ \A b \in remB : ~Above(Seemed(a, b), Seemed(a, c))
MissInv == DiffInv /\ \A a \in added : GivenUp(a)

\* The order of likenesses: nothing is above itself, of two one at most is above the
\* other, and what has no token in common is above nothing.
LEMMA AboveIsStrict ==
    ASSUME NEW p \in Nat \X (Nat \ {0}), NEW q \in Nat \X (Nat \ {0})
    PROVE  /\ ~Above(p, p)
           /\ Above(p, q) => ~Above(q, p)
           /\ p[1] = 0 => ~Above(p, q)
<1>1. /\ p[1] \in Nat /\ p[2] \in Nat \ {0} /\ q[1] \in Nat /\ q[2] \in Nat \ {0}
  OBVIOUS
<1>2. \A i, j, k, l \in Nat :
          /\ ~(i * j > i * j) /\ (i * l > k * j => ~(k * j > i * l))
          /\ i = 0 => ~(i * l > k * j)
  <2> TAKE i, j, k, l \in Nat
  <2>1. i * j \in Nat /\ i * l \in Nat /\ k * j \in Nat /\ (i = 0 => i * l = 0)
    OBVIOUS
  <2> QED
    BY <2>1
<1> QED
  BY <1>1, <1>2 DEF Above

\* What is alike by the ratio has a token in common.
LEMMA AlikeSeems ==
    ASSUME NEW s \in Bodies, NEW t \in Bodies, Alike(s, t), Thresh > 0
    PROVE  QuickRatio(Toks(s), Toks(t))[1] > 0
<1> DEFINE q == QuickRatio(Toks(s), Toks(t))
           r == Ratio(Toks(s), Toks(t))
<1>1. /\ q[1] \in Nat /\ q[2] \in Nat \ {0} /\ r[1] \in Nat /\ r[2] \in Nat \ {0}
      /\ r[1] * q[2] <= q[1] * r[2]
  BY RatioAssumption
<1>2. 100 * r[1] >= Thresh * r[2] /\ Thresh \in Nat \ {0}
  BY FunctionDiffAssumption DEF Alike
<1> HIDE DEF q, r
<1>3. r[1] # 0
  <2>1. Thresh * r[2] > 0
    BY <1>1, <1>2
  <2> QED
    BY <1>1, <1>2, <2>1
<1>4. r[1] * q[2] > 0
  BY <1>1, <1>3
<1>5. q[1] # 0
  BY <1>1, <1>4
<1> QED
  BY <1>1, <1>5 DEF q

\* The best of those like n seems at least as like it as any that is left.
LEMMA BestSeems ==
    ASSUME DiffInv, n \in A, NEW b \in Like, Best(b), NEW c \in remB
    PROVE  ~Above(Seemed(n, c), Seemed(n, b))
<1>1. /\ Seemed(n, b) \in Nat \X (Nat \ {0}) /\ Seemed(n, c) \in Nat \X (Nat \ {0})
  <2>1. fa[n] \in Bodies /\ fb[b] \in Bodies /\ fb[c] \in Bodies
    BY DEF DiffInv, OneToOne, A, B, Like
  <2> QED
    BY <2>1, RatioAssumption DEF Seemed
<1>2. Likeness(b) = Seemed(n, b) /\ Likeness(c) = Seemed(n, c)
  BY DEF Likeness, Seemed
<1>3. CASE c = b
  BY <1>1, <1>3, AboveIsStrict
<1>4. CASE c \in Like \ {b}
  <2>1. Above(Seemed(n, b), Seemed(n, c)) \/ ~Above(Seemed(n, c), Seemed(n, b))
    BY <1>2, <1>4 DEF Best
  <2> QED
    BY <1>1, <2>1, AboveIsStrict
<1>5. CASE c \notin Like
  <2>1. Seemed(n, c)[1] = 0
    BY <1>1, <1>2, <1>5 DEF Like
  <2> QED
    BY <1>1, <2>1, AboveIsStrict
<1> QED
  BY <1>3, <1>4, <1>5

\* No step adds to what is left, so what is given up stays so.
LEMMA GivenUpStays ==
    ASSUME NEW a, GivenUp(a), fa' = fa, fb' = fb, remB' \subseteq remB
    PROVE  GivenUp(a)'
<1>1. B' = B /\ \A b : Seemed(a, b)' = Seemed(a, b)
  BY DEF B, Seemed
<1>2. CASE \A b \in remB : ~(Seemed(a, b)[1] > 0)
  BY <1>1, <1>2 DEF GivenUp
<1>3. CASE \E c \in B : /\ ~Alike(fa[a], fb[c])
                       /\ \A b \in remB : ~Above(Seemed(a, b), Seemed(a, c))
  <2>1. PICK c \in B : /\ ~Alike(fa[a], fb[c])
                      /\ \A b \in remB : ~Above(Seemed(a, b), Seemed(a, c))
    BY <1>3
  <2>2. ~Alike(fa'[a], fb'[c]) /\ \A b \in remB' : ~Above(Seemed(a, b)', Seemed(a, c)')
    BY <1>1, <2>1
  <2>3. /\ c \in B' /\ ~Alike(fa[a], fb[c])'
        /\ \A b \in remB' : ~Above(Seemed(a, b), Seemed(a, c))'
    BY <1>1, <2>1, <2>2 DEF Alike, Above
  <2> QED
    BY <2>3 DEF GivenUp
<1> QED
  BY <1>2, <1>3 DEF GivenUp

\* The functions of A given up: n, by the step that finds nothing like it, or not
\* enough, and no other.
LEMMA AddedStep ==
    ASSUME DiffInv, Next
    PROVE  /\ fa' = fa /\ fb' = fb /\ remB' \subseteq remB
           /\ added' = added \/ (added' = added \cup {n} /\ GivenUp(n) /\ remB' = remB)
<1>1. CASE MatchEqual
  BY <1>1 DEF MatchEqual
<1>2. CASE PassEnds \/ SkipIdentical
  BY <1>2 DEF PassEnds, SkipIdentical, classes
<1>3. CASE MatchFuzzy /\ Matched
  BY <1>3 DEF MatchFuzzy, Matched
<1>4. CASE MatchFuzzy /\ Unmatched
  <2>1. /\ fa' = fa /\ fb' = fb /\ remB' = remB /\ added' = added \cup {n} /\ n \in A
        /\ Like = {} \/ \E b \in Like : Best(b) /\ ~Alike(fa[n], fb[b])
    BY <1>4 DEF MatchFuzzy, Unmatched
  <2>2. CASE Like = {}
    <3>1. \A b \in remB : ~(Seemed(n, b)[1] > 0)
      BY <2>2 DEF Like, Likeness, Seemed
    <3> QED
      BY <2>1, <3>1 DEF GivenUp
  <2>3. CASE \E b \in Like : Best(b) /\ ~Alike(fa[n], fb[b])
    <3>1. PICK b \in Like : Best(b) /\ ~Alike(fa[n], fb[b])
      BY <2>3
    <3>2. b \in B
      BY DEF Like, DiffInv, OneToOne
    <3>3. \A c \in remB : ~Above(Seemed(n, c), Seemed(n, b))
      BY <2>1, <3>1, BestSeems
    <3> QED
      BY <2>1, <3>1, <3>2, <3>3 DEF GivenUp
  <2> QED
    BY <2>1, <2>2, <2>3
<1> QED
  BY <1>1, <1>2, <1>3, <1>4 DEF Next, MatchFuzzy
-----------------------------------------------------------------------------
(* Theorems.                                                               *)

\* For any builds, threshold and ratios: pairs are one-to-one and in one class, the
\* functions passed have a class, and the classes fit their pairs.
THEOREM DiffInvariant == Spec => []DiffInv
<1>1. Init => DiffInv
  BY InitIsRight
<1>2. DiffInv /\ [Next]_vars => DiffInv'
  <2> SUFFICES ASSUME DiffInv, [Next]_vars PROVE DiffInv'
    OBVIOUS
  <2>1. CASE MatchEqual
    BY <2>1, MatchEqualKeeps
  <2>2. CASE PassEnds
    BY <2>2, PassEndsKeeps
  <2>3. CASE MatchFuzzy
    BY <2>3, MatchedKeeps, UnmatchedKeeps DEF MatchFuzzy
  <2>4. CASE SkipIdentical
    BY <2>4, SkipIdenticalKeeps
  <2>5. CASE UNCHANGED vars
    BY <2>5 DEF vars, classes, DiffInv, OneToOne, Passed, Classified, EqualsTaken, SameOps,
       Paired, A, B
  <2> QED
    BY <2>1, <2>2, <2>3, <2>4, <2>5 DEF Next
<1> QED
  BY <1>1, <1>2, PTL DEF Spec

\* The classes are a partition of both sides.
THEOREM DiffPartitions == Spec => []ClassesPartition
<1>1. DiffInv => ClassesPartition
  <2> SUFFICES ASSUME DiffInv, pass = "done" PROVE ClassesPartition
    BY DEF ClassesPartition
  <2>1. FirstOf(Paired) \subseteq A /\ SecondOf(Paired) \subseteq B
    BY DEF DiffInv, OneToOne, FirstOf, SecondOf
  <2> QED
    BY <2>1 DEF DiffInv, OneToOne, Passed, ClassesPartition
<1> QED
  BY <1>1, DiffInvariant, PTL

\* As many functions are identical as can be; the other pairs are alike, and in the
\* class of their opcodes.
THEOREM DiffClassesRight == Spec => []ClassesAreRight
<1>1. DiffInv => ClassesAreRight
  BY DEF DiffInv, Passed, EqualsTaken, Classified, SameOps, ClassesAreRight
<1> QED
  BY <1>1, DiffInvariant, PTL

\* Whatever is given up had nothing left like it, or was less like what seemed most
\* like it than it should be.
THEOREM MissInvariant == Spec => []MissInv
<1>1. Init => MissInv
  BY InitIsRight DEF MissInv, Init
<1>2. MissInv /\ DiffInv' /\ [Next]_vars => MissInv'
  <2> SUFFICES ASSUME MissInv, DiffInv', [Next]_vars PROVE \A a \in added' : GivenUp(a)'
    BY DEF MissInv
  <2>1. \A a \in added : GivenUp(a)
    BY DEF MissInv
  <2>2. CASE Next
    <3>1. /\ fa' = fa /\ fb' = fb /\ remB' \subseteq remB
          /\ added' = added \/ (added' = added \cup {n} /\ GivenUp(n) /\ remB' = remB)
      BY <2>2, AddedStep DEF MissInv
    <3>2. \A a \in added' : GivenUp(a)
      BY <2>1, <3>1
    <3> QED
      BY <3>1, <3>2, GivenUpStays
  <2>3. CASE UNCHANGED vars
    <3>1. fa' = fa /\ fb' = fb /\ remB' \subseteq remB /\ added' = added
      BY <2>3 DEF vars, classes
    <3> QED
      BY <2>1, <3>1, GivenUpStays
  <2> QED
    BY <2>2, <2>3
<1> QED
  BY <1>1, <1>2, DiffInvariant, PTL DEF Spec

\* What is added although a removed function is like it has met one that seemed more
\* like it and was not.  With a threshold of zero everything is alike, also what has
\* no token in common, which is not looked at.
THEOREM MissesAreQuick == Thresh > 0 => (Spec => []MissesByQuickRatio)
<1>1. CASE Thresh > 0
  <2>1. MissInv => MissesByQuickRatio
    <3> SUFFICES ASSUME MissInv, NEW a \in added, NEW b \in remB, Alike(fa[a], fb[b])
                 PROVE  \E c \in B \ {b} : /\ ~Above(Seemed(a, b), Seemed(a, c))
                                          /\ ~Alike(fa[a], fb[c])
      BY DEF MissesByQuickRatio
    <3>1. fa[a] \in Bodies /\ fb[b] \in Bodies
      BY DEF MissInv, DiffInv, OneToOne, A, B
    <3>2. Seemed(a, b)[1] > 0
      BY <1>1, <3>1, AlikeSeems DEF Seemed
    <3>3. PICK c \in B : /\ ~Alike(fa[a], fb[c])
                        /\ \A d \in remB : ~Above(Seemed(a, d), Seemed(a, c))
      BY <3>2 DEF MissInv, GivenUp
    <3>4. c # b
      BY <3>3
    <3> QED
      BY <3>3, <3>4
  <2>2. Spec => []MissesByQuickRatio
    BY <2>1, MissInvariant, PTL
  <2> QED
    BY <2>2
<1>2. CASE ~(Thresh > 0)
  BY <1>2
<1> QED
  BY <1>1, <1>2
=============================================================================
