--------------------------- MODULE FunctionBodies ---------------------------
(***************************************************************************)
(* What trace.py makes of the map that follow returned: function_bodies    *)
(* cuts the image into one body per function, fingerprints walks each      *)
(* function along its jumps.  One instruction per step; a body is the      *)
(* sequence of the addresses of its instructions.                          *)
(***************************************************************************)
EXTENDS CodeTrace, SequencesExt, FiniteSetsExt

CONSTANTS
    Cap,        \* cap: the bytes of a body (256)
    MaxIns      \* maxins: the instructions of a fingerprint (96)

ASSUME FunctionBodiesAssumption == Cap \in Nat \ {0} /\ MaxIns \in Nat \ {0}

VARIABLES
    use,        \* who follows the image: "bodies" or "prints"
    step,       \* "follow", "next", "in", "done" or "raised"
    ents,       \* the functions still to be walked
    e, a,       \* the function walked, the instruction
    ops,        \* toks, ops: the instructions so far
    walks       \* out: what each function walked gave

bodyVars == <<use, step, ents, e, a, ops, walks>>

Functions == Entries \cup funcs

BodiesInit ==
    /\ Init
    /\ use \in {"bodies", "prints"} /\ step = "follow"
    /\ ents = {} /\ e = 0 /\ a = 0 /\ ops = <<>> /\ walks = <<>>

Follow ==
    /\ step = "follow" /\ pc = "done"
    /\ step' = "next" /\ ents' = Functions
    /\ UNCHANGED <<vars, use, e, a, ops, walks>>

NextFunction ==
    /\ step = "next"
    /\ IF ents = {} THEN step' = "done" /\ UNCHANGED <<ents, e, a, ops>>
       ELSE /\ step' = "in" /\ e' = Min(ents) /\ a' = e' /\ ops' = <<>>
            /\ ents' = ents \ {e'}
    /\ UNCHANGED <<vars, use, walks>>

\* Mutant: a body goes on into the next function.
EndAtCap == Min({Len(code), e + Cap})

\* A body ends at the next function at the latest, the last one at the end of the
\* image.
End == Min({IF ents = {} THEN Len(code) ELSE Min(ents), e + Cap})

OnStackOfOps == {ops[i] : i \in DOMAIN ops}

\* The conditions of the two loops.
GoesOn ==
    IF use = "bodies" THEN a < End
    ELSE a \in Addr /\ a \notin OnStackOfOps /\ Len(ops) < MaxIns

Decodable == a \in Addr /\ Whole(code, a)

\* decode_one raises IndexError, outside the image as at its end.
WalkRaises ==
    /\ step = "in" /\ GoesOn /\ ~Decodable
    /\ step' = "raised"
    /\ UNCHANGED <<vars, use, ents, e, a, ops, walks>>

\* A return ends a function, and a jump out of the image a fingerprint.
Leaves ==
    \/ ClassAt(a) = "stop"
    \/ use = "prints" /\ ClassAt(a) = "jump" /\ Target(code, a) \notin Addr

\* Mutant: a fingerprint goes on behind a jump.
OnwardPastJump == NextAddr(code, a)

Onward == IF use = "prints" /\ ClassAt(a) = "jump" THEN Target(code, a) ELSE NextAddr(code, a)

\* The padding is cut off; an empty body is left out.
Nop == 0
Trim(s) ==
    LET code_(i) == code[s[i] + 1]
        real == {i \in DOMAIN s : code_(i) # Nop}
    IN  IF real = {} THEN <<>> ELSE SubSeq(s, 1, Max(real))

Kept(s) ==
    IF use = "prints" THEN Append(walks, <<e, s>>)
    ELSE IF Trim(s) = <<>> THEN walks ELSE Append(walks, <<e, Trim(s)>>)

WalkInstruction ==
    /\ step = "in" /\ GoesOn /\ Decodable
    /\ IF Leaves THEN /\ step' = "next" /\ ops' = Append(ops, a)
                      /\ walks' = Kept(ops') /\ UNCHANGED a
       ELSE /\ ops' = Append(ops, a) /\ a' = Onward
            /\ UNCHANGED <<step, walks>>
    /\ UNCHANGED <<vars, use, ents, e>>

FunctionEnds ==
    /\ step = "in" /\ ~GoesOn
    /\ step' = "next" /\ walks' = Kept(ops)
    /\ UNCHANGED <<vars, use, ents, e, a, ops>>

BodiesNext ==
    \/ Next /\ UNCHANGED bodyVars
    \/ Follow \/ NextFunction \/ WalkRaises \/ WalkInstruction \/ FunctionEnds

BodiesSpec == BodiesInit /\ [][BodiesNext]_<<vars, bodyVars>> /\ WF_<<vars, bodyVars>>(BodiesNext)
----------------------------------------------------------------------------
(* Properties.                                                             *)

Walked(i) == walks[i][1]
Ins(i) == walks[i][2]

\* trace.py:128: the bodies are disjoint, each begins at its function and goes on
\* instruction by instruction to its first return, or to the next function, the cap
\* or the padding; every function with an instruction that is no padding has one.
NextOf(f) == Min({Len(code)} \cup {g \in Functions : g > f} \cup {f + Cap})
BodiesAreRight ==
    use = "bodies" =>
        /\ \A i \in DOMAIN walks :
              LET s == Ins(i) n == Len(s) IN
              /\ s[1] = Walked(i)
              /\ \A k \in 1 .. n - 1 : s[k + 1] = NextAddr(code, s[k]) /\ ClassAt(s[k]) # "stop"
              /\ \A k \in 1 .. n : s[k] < NextOf(Walked(i))
              /\ \/ ClassAt(s[n]) = "stop"
                 \/ \A b \in NextAddr(code, s[n]) .. NextOf(Walked(i)) - 1 : code[b + 1] = Nop
        /\ \A i, k \in DOMAIN walks : i < k => Max(ToSet(Ins(i))) < Walked(k)
        /\ step = "done" => \A f \in Functions \cap Addr :
              code[f + 1] # Nop => \E i \in DOMAIN walks : Walked(i) = f

\* A function is code that follow reached: its body up to the first jump, and its
\* fingerprint, which goes along the jumps, but for what stands behind a jump table.
\* Behind a jump a body can hold data.
Dark(s) == {i \in DOMAIN s : \E k \in 1 .. i - 1 :
                ClassAt(s[k]) = "table" \/ (use = "bodies" /\ ClassAt(s[k]) = "jump")}
WalksAreReachable ==
    \A i \in DOMAIN walks : \A k \in DOMAIN Ins(i) \ Dark(Ins(i)) : Ins(i)[k] \in insns

\* Every walk ends, loops of jumps included; when follow returned a map it is lost
\* only by an instruction that the image cuts off, behind a jump or a jump table,
\* or by a body that runs out of the image because the next function lies outside:
\* the last one inside without a return, or one that lies outside itself.
\* fingerprints has no such function to fear.
WalksEnd == <>(step \in {"done", "raised"} \/ pc = "raised")
CutOff == a \in Addr /\ NextAddr(code, a) > Len(code) /\ a \notin insns
RunsOut ==
    /\ use = "bodies" /\ a = (IF e \in Addr THEN Len(code) ELSE e) /\ a < e + Cap
    /\ \E g \in Functions : g > e
    /\ \A g \in Functions : g > e => g > a
LostOnlyBy == RaisesOnlyAtEnd /\ (step = "raised" => CutOff \/ RunsOut)
=============================================================================
