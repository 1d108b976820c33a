---------------------------- MODULE HubDetectProofs ---------------------------
(***************************************************************************)
(* Proofs about discovery, for any number of displays, nodes and changes,  *)
(* and whatever the sinks answer: the hub is found and the best is chosen, *)
(* and the handles are open while they are needed.  The invariant is       *)
(* SearchInv.                                                              *)
(***************************************************************************)
EXTENDS HubDetect, WellFoundedInduction, TLAPS

Candidate == [sink : Sinks \cup {NoSink}, has : SUBSET Trait]
Probing == {"display", "node"}
Final == {"pick", "session", "end"}

TypeOK ==
    /\ prefer \in Prefer
    /\ pc \in Building \cup Probing \cup Final \cup {"opennode"}
    /\ at \in Nat \ {0} /\ seen \in Seq(BOOLEAN) /\ Len(seen) <= 2
    /\ world \in [Sinks -> Answers]
    /\ cands \in Seq(Candidate) /\ chosen \in Candidate
    /\ handles \subseteq Client \cup Sinks
    /\ changes \in Nat /\ steady \subseteq Sinks /\ unopened \subseteq Sinks

\* The sinks the search has dealt with.
Visited(s) ==
    IF s.via = "nvrm" THEN pc \notin Building /\ (pc = "display" => s.n < at)
    ELSE pc \in Final \/ (pc \in {"opennode", "node"} /\ s.n < at)

\* Which part of the search runs under which --transport, and what is open there.
Control ==
    /\ pc \in Building \cup {"display"} => prefer # "drm"
    /\ pc \in {"opennode", "node"} => prefer \in {"auto", "drm"}
    /\ pc = "session" => prefer # "probe"
    /\ pc = "node" => at <= Nodes /\ Node(at) \in handles
    /\ pc = "display" => Client \subseteq handles
    /\ pc \in {"attach", "masks"} => Client \subseteq handles
    /\ pc \in {"enumerate", "opengpu"} => Ctl \in handles
    /\ pc \in Building => cands = <<>>
    /\ prefer = "probe" => handles \subseteq Client /\ (pc # "end" => unopened = {})
    /\ \A s \in unopened : Visited(s)
    /\ outcome = "none" <=> pc \notin {"session", "end"}
    /\ pc = "session" => outcome = "found"
    /\ changes = 0 => steady = Sinks

\* What a sink that did not change has said so far is the truth.
HeardSoFar ==
    /\ pc \notin Probing \cup {"end"} => seen = <<>>
    /\ pc = "display" /\ at > Displays => seen = <<>>
    /\ pc \in Probing /\ seen # <<>> /\ Sink \in steady =>
          /\ world[Sink] # Mute
          /\ \A k \in 1 .. Len(seen) : seen[k] = (<<"syn", "vmm", "cap">>[k] \in world[Sink])

\* Of the sinks visited, one that did not change and answers is among the candidates.
NoneMissed ==
    pc # "end" =>
        \A s \in Answering :
            Visited(s) /\ s \notin unopened /\ (Searched(s) \/ (prefer = "probe" /\ s.via = "nvrm"))
                => \E i \in DOMAIN cands : cands[i] = Cand(s, world[s])

\* And a candidate has been visited and its handles are open, and it is what it was
\* taken for unless it changed.
Real(c) == c.sink # NoSink
TruthOf(c) ==
    /\ ~Real(c) => c.has = {}
    /\ Real(c) =>
          /\ Visited(c.sink) /\ c.sink \notin unopened
          /\ prefer = "probe" \/ Searched(c.sink)
          /\ c.sink \in steady => world[c.sink] # Mute /\ c.has = world[c.sink]
          /\ pc # "end" => Needs(c.sink) \subseteq handles
Truthful == \A i \in DOMAIN cands : TruthOf(cands[i])

\* The candidates stand in the order of the search.
Ordered ==
    \A i, k \in DOMAIN cands :
        i < k /\ Real(cands[i]) /\ Real(cands[k]) => Place(cands[i]) < Place(cands[k])

SearchInv ==
    /\ TypeOK /\ Control /\ HeardSoFar /\ NoneMissed /\ Truthful /\ Ordered
    /\ HubIsFound /\ ChosenIsBest /\ HandlesInUse
-----------------------------------------------------------------------------
\* The least of some numbers.
LEMMA LeastExists ==
    ASSUME NEW S, S \subseteq Nat, S # {}
    PROVE  \E x \in S : \A y \in S : x <= y
<1>1. PICK x \in S : \A y \in S : ~(<<y, x>> \in OpToRel(<, Nat))
  BY WFMin, NatLessThanWellFounded
<1>2. ASSUME NEW y \in S PROVE x <= y
  <2>1. x \in Nat /\ y \in Nat
    OBVIOUS
  <2>2. ~(y < x)
    BY <1>1, <2>1 DEF OpToRel
  <2> QED
    BY <2>1, <2>2
<1> QED
  BY <1>2

\* The sinks are the displays and the nodes, each once.
LEMMA SinkFacts ==
    /\ \A s \in Sinks : /\ s.via \in {"nvrm", "drm"} /\ s.n \in Nat \ {0}
                        /\ s.via = "nvrm" => s = Display(s.n) /\ s.n <= Displays
                        /\ s.via = "drm" => s = Node(s.n) /\ s.n <= Nodes
                        /\ s \notin Client /\ s # NoSink
    /\ \A n \in Nat \ {0} : /\ n <= Displays => Display(n) \in Sinks
                            /\ n <= Nodes => Node(n) \in Sinks
    /\ \A n : /\ Display(n).via = "nvrm" /\ Display(n).n = n
              /\ Node(n).via = "drm" /\ Node(n).n = n
<1>1. \A n : /\ Display(n).via = "nvrm" /\ Display(n).n = n
            /\ Node(n).via = "drm" /\ Node(n).n = n
  BY DEF Display, Node
<1>2. \A n \in Nat \ {0} : (n <= Displays => Display(n) \in Sinks)
                         /\ (n <= Nodes => Node(n) \in Sinks)
  BY HubDetectAssumption DEF Sinks
<1>3. ASSUME NEW s \in Sinks
      PROVE  /\ s.via \in {"nvrm", "drm"} /\ s.n \in Nat \ {0}
             /\ s.via = "nvrm" => s = Display(s.n) /\ s.n <= Displays
             /\ s.via = "drm" => s = Node(s.n) /\ s.n <= Nodes
             /\ s \notin Client /\ s # NoSink
  <2>1. \/ \E n \in 1 .. Displays : s = Display(n)
        \/ \E n \in 1 .. Nodes : s = Node(n)
    BY DEF Sinks
  <2>2. Ctl.via = "ctl" /\ Gpu.via = "gpu" /\ NoSink.via = "none"
    BY DEF Ctl, Gpu, NoSink
  <2> QED
    BY <1>1, <2>1, <2>2, HubDetectAssumption DEF Client
<1> QED
  BY <1>1, <1>2, <1>3

\* The first state.
LEMMA InitSearch == Init => SearchInv
<1> SUFFICES ASSUME Init PROVE SearchInv
  OBVIOUS
<1>1. TypeOK
  BY DEF Init, TypeOK, Prefer, Building, Candidate, Note, Cand
<1>2. Control
  BY DEF Init, Control, Building, Visited, Prefer
<1>3. HeardSoFar
  BY DEF Init, HeardSoFar
<1>4. NoneMissed
  <2>1. ASSUME NEW s \in Sinks, Visited(s) PROVE ~Searched(s) /\ prefer # "probe"
    BY <2>1, SinkFacts DEF Init, Visited, Building, Final, Searched, Prefer
  <2> QED
    BY <2>1 DEF NoneMissed, Answering
<1>5. Truthful /\ Ordered
  BY DEF Init, Truthful, Ordered
<1>6. HubIsFound /\ ChosenIsBest /\ HandlesInUse
  BY DEF Init, HubIsFound, ChosenIsBest, HandlesInUse
<1> QED
  BY <1>1, <1>2, <1>3, <1>4, <1>5, <1>6 DEF SearchInv

\* What an element of the candidates is.
LEMMA CandidateFacts ==
    ASSUME TypeOK, NEW i \in DOMAIN cands
    PROVE  /\ i \in 1 .. Len(cands) /\ Len(cands) \in Nat /\ cands[i] \in Candidate
           /\ cands[i].has \subseteq Trait /\ (Real(cands[i]) => cands[i].sink \in Sinks)
<1>1. i \in 1 .. Len(cands) /\ Len(cands) \in Nat /\ cands[i] \in Candidate
  BY DEF TypeOK
<1> QED
  BY <1>1 DEF Candidate, Real

\* What Append makes of a sequence.
LEMMA Appended ==
    ASSUME NEW S, NEW s \in Seq(S), NEW x \in S
    PROVE  /\ Append(s, x) \in Seq(S) /\ Len(s) \in Nat /\ Len(Append(s, x)) = Len(s) + 1
           /\ DOMAIN Append(s, x) = 1 .. Len(s) + 1 /\ DOMAIN s = 1 .. Len(s)
           /\ Append(s, x)[Len(s) + 1] = x
           /\ \A i \in 1 .. Len(s) : Append(s, x)[i] = s[i]
  OBVIOUS

\* What the three answers of a sink that did not change add up to.
LEMMA ThreeAnswers ==
    ASSUME NEW w, w \subseteq Trait, Len(seen) = 2, NEW b \in BOOLEAN,
           seen[1] = ("syn" \in w), seen[2] = ("vmm" \in w), b = ("cap" \in w)
    PROVE  Heard(b) = w
  BY DEF Heard, Trait

\* The outcomes of a read of _probe: one more answer, a candidate, or none; each is
\* the truth about a sink that did not change.
OneMore(s) ==
    /\ at' = at /\ cands' = cands /\ Len(seen) < 2
    /\ \E b \in BOOLEAN :
          /\ seen' = Append(seen, b)
          /\ s \in steady =>
                /\ world[s] # Mute
                /\ b = (<<"syn", "vmm", "cap">>[Len(seen) + 1] \in world[s])
Noted(s) ==
    /\ at' = at + 1 /\ seen' = <<>>
    /\ \E h \in SUBSET Trait :
          /\ cands' = Append(cands, Cand(s, h))
          /\ s \in steady => world[s] # Mute /\ h = world[s]
Passed(s) ==
    /\ at' = at + 1 /\ seen' = <<>> /\ cands' = cands
    /\ s \in steady => world[s] = Mute

\* A read of _probe asks the sink once more, notes it as a candidate, or passes it over;
\* of a sink that did not change it learns the truth.
LEMMA ProbeSays ==
    ASSUME SearchInv, Probe, NEW s \in Sinks, s = Sink, pc \in Probing
    PROVE  OneMore(s) \/ Noted(s) \/ Passed(s)
<1>1. /\ seen \in Seq(BOOLEAN) /\ Len(seen) \in Nat /\ Len(seen) <= 2
      /\ Len(seen) < 2 \/ (Len(seen) = 2 /\ ~(Len(seen) < 2))
  <2>1. seen \in Seq(BOOLEAN) /\ Len(seen) \in Nat /\ Len(seen) <= 2
    BY DEF SearchInv, TypeOK
  <2>2. \A n \in Nat : n <= 2 => n < 2 \/ (n = 2 /\ ~(n < 2))
    OBVIOUS
  <2> QED
    BY <2>1, <2>2
<1>2. seen # <<>> /\ Sink \in steady =>
         /\ world[Sink] # Mute
         /\ \A k \in 1 .. Len(seen) : seen[k] = (<<"syn", "vmm", "cap">>[k] \in world[Sink])
  BY DEF SearchInv, HeardSoFar
<1>3. world[Sink] # Mute => world[Sink] \subseteq Trait
  BY HubDetectAssumption DEF SearchInv, TypeOK
<1>4. \A b \in BOOLEAN : Heard(b) \subseteq Trait
  BY DEF Heard, Trait
<1>5. ASSUME NEW b, Take(b), Len(seen) = 2
      PROVE  at' = at + 1 /\ seen' = <<>> /\ cands' = Append(cands, Cand(Sink, Heard(b)))
  BY <1>5 DEF Take
<1>6. CASE ProbeAnswered
  <2>1. world[Sink] # Mute /\ Take(Answer) /\ Answer \in BOOLEAN
    BY <1>6 DEF ProbeAnswered, Answer
  <2>2. CASE Len(seen) < 2
    <3>1. at' = at /\ cands' = cands /\ seen' = Append(seen, Answer)
      BY <2>1, <2>2 DEF Take
    <3>2. OneMore(s)
      BY <2>1, <2>2, <3>1 DEF OneMore, Answer
    <3> QED
      BY <3>2
  <2>3. CASE Len(seen) = 2
    <3>1. at' = at + 1 /\ seen' = <<>> /\ cands' = Append(cands, Cand(Sink, Heard(Answer)))
      BY <2>1, <2>3 DEF Take
    <3>2. ASSUME Sink \in steady PROVE Heard(Answer) = world[Sink]
      <4>1. /\ seen[1] = ("syn" \in world[Sink]) /\ seen[2] = ("vmm" \in world[Sink])
            /\ seen # <<>>
        BY <1>1, <1>2, <2>3, <3>2
      <4>2. Answer = ("cap" \in world[Sink])
        BY <2>3 DEF Answer
      <4> QED
        BY <1>3, <2>1, <2>3, <4>1, <4>2, ThreeAnswers
    <3>3. Noted(s)
      BY <1>4, <2>1, <3>1, <3>2 DEF Noted
    <3> QED
      BY <3>3
  <2> QED
    BY <1>1, <2>2, <2>3
<1>7. CASE ProbeFailed
  <2>1. world[Sink] = Mute
    BY <1>7 DEF ProbeFailed
  <2>2. CASE prefer = "probe" /\ seen # <<>>
    <3>1. Take(FALSE) /\ Sink \notin steady
      BY <1>2, <1>7, <2>1, <2>2 DEF ProbeFailed
    <3>2. CASE Len(seen) < 2
      <4>1. OneMore(s)
        BY <3>1, <3>2 DEF Take, OneMore
      <4> QED
        BY <4>1
    <3>3. CASE Len(seen) = 2
      <4>1. at' = at + 1 /\ seen' = <<>> /\ cands' = Append(cands, Cand(Sink, Heard(FALSE)))
        BY <1>5, <3>1, <3>3
      <4>2. Heard(FALSE) \in SUBSET Trait
        BY <1>4
      <4>3. Noted(s)
        BY <3>1, <4>1, <4>2 DEF Noted
      <4> QED
        BY <4>3
    <3> QED
      BY <1>1, <3>2, <3>3
  <2>3. CASE ~(prefer = "probe" /\ seen # <<>>)
    <3>1. Passed(s)
      BY <1>7, <2>1, <2>3 DEF ProbeFailed, PassOver, Passed
    <3> QED
      BY <3>1
  <2> QED
    BY <2>2, <2>3
<1> QED
  BY <1>6, <1>7 DEF Probe

\* What a read of _probe leaves of the invariant, for a display as for a node.
LEMMA ProbedKeeps ==
    ASSUME SearchInv, Probe, NEW s0 \in Sinks, s0 = Sink,
           pc \in Probing, pc' \in Probing \cup {"opennode"},
           UNCHANGED <<prefer, world, steady, handles, unopened>>,
           at' = at => pc' = pc, pc = "display" => at <= Displays,
           \A s \in Sinks : Visited(s)' <=> Visited(s) \/ (at' = at + 1 /\ s = s0),
           \A s \in Sinks : Visited(s) => Place(Cand(s, {})) < Place(Cand(s0, {})),
           ~Visited(s0), prefer = "probe" \/ Searched(s0), Needs(s0) \subseteq handles
    PROVE  /\ cands' \in Seq(Candidate) /\ seen' \in Seq(BOOLEAN) /\ Len(seen') <= 2
           /\ at' \in Nat \ {0}
           /\ HeardSoFar' /\ NoneMissed' /\ Truthful' /\ Ordered'
<1>1. /\ at \in Nat \ {0} /\ seen \in Seq(BOOLEAN) /\ cands \in Seq(Candidate) /\ TypeOK
      /\ DOMAIN cands = 1 .. Len(cands) /\ Len(cands) \in Nat
  BY DEF SearchInv, TypeOK
<1>2. s0 \notin unopened /\ pc # "end" /\ pc' # "end" /\ s0 # NoSink
  BY SinkFacts DEF SearchInv, Control, Probing
<1>3. ASSUME NEW c, c.sink \in Sinks \/ c.sink = NoSink, TruthOf(c)
      PROVE  TruthOf(c)'
  <2>1. CASE ~Real(c)
    BY <1>3, <2>1 DEF TruthOf, Real
  <2>2. CASE Real(c)
    <3>1. Visited(c.sink) /\ c.sink \in Sinks
      BY <1>3, <2>2 DEF TruthOf, Real
    <3>2. Visited(c.sink)'
      BY <3>1
    <3> QED
      BY <1>2, <1>3, <2>2, <3>2 DEF TruthOf, Real, Searched, Needs
  <2> QED
    BY <2>1, <2>2
<1>4. ASSUME NEW i \in DOMAIN cands
      PROVE  /\ TruthOf(cands[i]) /\ (cands[i].sink \in Sinks \/ cands[i].sink = NoSink)
             /\ Real(cands[i]) => cands[i].sink \in Sinks /\ Visited(cands[i].sink)
  <2>1. TruthOf(cands[i])
    BY DEF SearchInv, Truthful
  <2>2. Real(cands[i]) => cands[i].sink \in Sinks
    BY <1>1, CandidateFacts
  <2> QED
    BY <2>1, <2>2 DEF TruthOf, Real
<1>5. ASSUME cands' = cands, at' = at \/ (s0 \in steady => world[s0] = Mute)
      PROVE  NoneMissed' /\ Truthful' /\ Ordered'
  <2>1. NoneMissed'
    <3> SUFFICES ASSUME NEW s \in Sinks, s \in steady, world[s] # Mute, Visited(s)', s \notin unopened,
                        Searched(s) \/ (prefer = "probe" /\ s.via = "nvrm")
                 PROVE  \E i \in DOMAIN cands : cands[i] = Cand(s, world[s])
      BY <1>2, <1>5 DEF NoneMissed, Answering, Searched
    <3>1. Visited(s)
      BY <1>1, <1>5
    <3> QED
      BY <1>2, <3>1 DEF SearchInv, NoneMissed, Answering
  <2>2. Truthful'
    <3> SUFFICES ASSUME NEW i \in DOMAIN cands, NEW c, c = cands[i] PROVE TruthOf(c)'
      BY <1>5 DEF Truthful, TruthOf, Real, Visited, Searched, Needs
    <3> QED
      BY <1>3, <1>4
  <2>3. Ordered'
    BY <1>5 DEF SearchInv, Ordered, Real, Place
  <2> QED
    BY <2>1, <2>2, <2>3
<1>6. CASE OneMore(s0)
  <2>1. PICK b \in BOOLEAN :
           /\ seen' = Append(seen, b)
           /\ s0 \in steady =>
                 /\ world[s0] # Mute
                 /\ b = (<<"syn", "vmm", "cap">>[Len(seen) + 1] \in world[s0])
    BY <1>6 DEF OneMore
  <2>2. /\ seen' \in Seq(BOOLEAN) /\ Len(seen') = Len(seen) + 1 /\ seen'[Len(seen) + 1] = b
        /\ \A k \in 1 .. Len(seen) : seen'[k] = seen[k]
    BY <1>1, <2>1, Appended
  <2>3. pc' = pc /\ Sink' = s0 /\ at' = at /\ cands' = cands /\ Len(seen) < 2
    BY <1>6 DEF Sink, OneMore
  <2>4. HeardSoFar'
    <3>1. ASSUME s0 \in steady, NEW k \in 1 .. Len(seen')
          PROVE  seen'[k] = (<<"syn", "vmm", "cap">>[k] \in world[s0])
      <4>1. CASE k \in 1 .. Len(seen)
        <5>1. seen # <<>>
          BY <1>1, <4>1
        <5> QED
          BY <2>2, <3>1, <4>1, <5>1 DEF SearchInv, HeardSoFar
      <4>2. CASE k = Len(seen) + 1
        BY <2>1, <2>2, <3>1, <4>2
      <4> QED
        BY <1>1, <2>2, <4>1, <4>2
    <3>2. s0 \in steady => world[s0] # Mute
      BY <2>1
    <3>3. ~(pc' = "display" /\ at' > Displays)
      BY <1>1, <2>3, HubDetectAssumption
    <3>4. pc' \in Probing \cup {"end"}
      BY <2>3
    <3> QED
      BY <2>3, <3>1, <3>2, <3>3, <3>4 DEF HeardSoFar
  <2> QED
    BY <1>1, <1>5, <2>2, <2>3, <2>4
<1>7. CASE Noted(s0)
  <2>1. PICK h \in SUBSET Trait :
           /\ cands' = Append(cands, Cand(s0, h))
           /\ s0 \in steady => world[s0] # Mute /\ h = world[s0]
    BY <1>7 DEF Noted
  <2> DEFINE c == Cand(s0, h)
             n == Len(cands)
  <2>2. c \in Candidate /\ c.sink = s0 /\ c.has = h
    BY DEF Candidate, Cand
  <2>3. /\ cands' \in Seq(Candidate) /\ DOMAIN cands' = 1 .. n + 1 /\ cands'[n + 1] = c
        /\ \A i \in DOMAIN cands : cands'[i] = cands[i]
    <3>1. cands' = Append(cands, c)
      BY <2>1
    <3> HIDE DEF c
    <3> QED
      BY <1>1, <2>2, <3>1, Appended
  <2>4. \A s \in Sinks : Visited(s)' <=> Visited(s) \/ s = s0
    BY <1>7 DEF Noted
  <2>5. n + 1 \in DOMAIN cands' /\ DOMAIN cands \subseteq DOMAIN cands'
    BY <1>1, <2>3
  <2>6. NoneMissed'
    <3> SUFFICES ASSUME NEW s \in Sinks, s \in steady, world[s] # Mute, Visited(s)', s \notin unopened,
                        Searched(s) \/ (prefer = "probe" /\ s.via = "nvrm")
                 PROVE  \E i \in DOMAIN cands' : cands'[i] = Cand(s, world[s])
      BY <1>2 DEF NoneMissed, Answering, Searched
    <3>1. CASE s = s0
      BY <2>1, <2>3, <2>5, <3>1
    <3>2. CASE s # s0
      <4>1. Visited(s)
        BY <2>4, <3>2
      <4>2. PICK i \in DOMAIN cands : cands[i] = Cand(s, world[s])
        BY <1>2, <4>1 DEF SearchInv, NoneMissed, Answering
      <4> QED
        BY <2>3, <2>5, <4>2
    <3> QED
      BY <3>1, <3>2
  <2> HIDE DEF c
  <2>7. Truthful'
    <3> SUFFICES ASSUME NEW i \in DOMAIN cands', NEW d, d = cands'[i] PROVE TruthOf(d)'
      BY DEF Truthful, TruthOf, Real, Visited, Searched, Needs
    <3>1. CASE i = n + 1
      <4>1. d.sink = s0 /\ d.has = h
        BY <2>2, <2>3, <3>1
      <4>2. Visited(d.sink)'
        BY <2>4, <4>1
      <4> QED
        BY <1>2, <2>1, <4>1, <4>2 DEF TruthOf, Real, Searched, Needs
    <3>2. CASE i \in DOMAIN cands
      BY <1>3, <1>4, <2>3, <3>2
    <3> QED
      BY <1>1, <2>3, <3>1, <3>2
  <2>8. Ordered'
    <3> SUFFICES ASSUME NEW i \in DOMAIN cands', NEW k \in DOMAIN cands', i < k,
                        Real(cands'[i]), Real(cands'[k])
                 PROVE  Place(cands'[i]) < Place(cands'[k])
      BY DEF Ordered, Real, Place
    <3>1. i \in DOMAIN cands /\ cands'[i] = cands[i]
      BY <1>1, <2>3
    <3>2. CASE k = n + 1
      <4>1. cands[i].sink \in Sinks /\ Visited(cands[i].sink)
        BY <1>4, <3>1
      <4>2. Place(Cand(cands[i].sink, {})) = Place(cands[i]) /\ Place(Cand(s0, {})) = Place(c)
        BY <2>2 DEF Place, Cand
      <4> QED
        BY <2>3, <3>1, <3>2, <4>1, <4>2
    <3>3. CASE k \in DOMAIN cands
      BY <2>3, <3>1, <3>3 DEF SearchInv, Ordered
    <3> QED
      BY <1>1, <2>3, <3>2, <3>3
  <2>9. HeardSoFar' /\ seen' \in Seq(BOOLEAN) /\ Len(seen') <= 2 /\ at' \in Nat \ {0}
    BY <1>1, <1>7 DEF HeardSoFar, Noted
  <2> QED
    BY <2>3, <2>6, <2>7, <2>8, <2>9
<1>8. CASE Passed(s0)
  <2>1. HeardSoFar' /\ seen' \in Seq(BOOLEAN) /\ Len(seen') <= 2 /\ at' \in Nat \ {0}
    BY <1>1, <1>8 DEF HeardSoFar, Passed
  <2>2. cands' = cands /\ (s0 \in steady => world[s0] = Mute)
    BY <1>8 DEF Passed
  <2>3. cands' \in Seq(Candidate)
    BY <1>1, <2>2
  <2> QED
    BY <1>5, <2>1, <2>2, <2>3
<1> QED
  BY <1>6, <1>7, <1>8, ProbeSays


\* The RM client is built step by step; what was opened
\* before a failure stays open, but for the masks of the probe.
LEMMA BuildClientKeeps == SearchInv /\ BuildClient => SearchInv'
<1> SUFFICES ASSUME SearchInv, BuildClient PROVE SearchInv'
  OBVIOUS
<1>1. /\ pc \in Building /\ cands = <<>> /\ outcome = "none" /\ seen = <<>> /\ at' = 1 /\ seen' = <<>>
      /\ prefer \in {"auto", "nvrm", "probe"} /\ TypeOK
      /\ UNCHANGED <<prefer, world, changes, steady>>
  BY DEF SearchInv, BuildClient, Control, HeardSoFar, Building, Probing, Final, TypeOK,
     Prefer, env
<1>2. \A s \in Sinks : s.n > 0 /\ (s.via = "nvrm" \/ s.via = "drm")
  BY SinkFacts
<1>3. CASE /\ pc' = NextCall[pc]
           /\ handles' = handles \cup Opens(pc)
           /\ UNCHANGED <<cands, found, unopened>>
  <2>1. /\ \/ pc = "openctl" /\ pc' = "enumerate" /\ handles' = handles \cup {Ctl}
           \/ pc = "enumerate" /\ pc' = "opengpu" /\ handles' = handles
           \/ pc = "opengpu" /\ pc' = "attach" /\ handles' = handles \cup {Gpu}
           \/ pc = "attach" /\ pc' = "masks" /\ handles' = handles
           \/ pc = "masks" /\ pc' = "display" /\ handles' = handles
        /\ cands' = <<>> /\ outcome' = outcome /\ chosen' = chosen /\ unopened' = unopened
    BY <1>1, <1>3 DEF Building, NextCall, Opens, found
  <2>2. \A s \in Sinks : ~Visited(s)'
    <3>1. /\ pc' \in Building \/ (pc' = "display" /\ at' = 1)
          /\ pc' \notin Final \cup {"opennode", "node"}
      BY <1>1, <2>1 DEF Building, Final
    <3> QED
      BY <1>2, <3>1, SinkFacts DEF Visited
  <2>3. TypeOK'
    BY <1>1, <2>1 DEF TypeOK, Building, Probing, Client
  <2>4. Control'
    <3>1. unopened = {}
      BY <1>1, <1>2 DEF SearchInv, Control, TypeOK, Visited, Building, Final
    <3> QED
      BY <1>1, <2>1, <3>1 DEF SearchInv, Control, Building, Client
  <2>5. HeardSoFar' /\ NoneMissed' /\ Truthful' /\ Ordered'
    BY <1>1, <2>1, <2>2 DEF HeardSoFar, NoneMissed, Answering, Truthful, Ordered
  <2>6. HubIsFound' /\ ChosenIsBest' /\ HandlesInUse'
    BY <1>1, <2>1 DEF HubIsFound, ChosenIsBest, HandlesInUse
  <2> QED
    BY <2>3, <2>4, <2>5, <2>6 DEF SearchInv
<1>4. ASSUME NEW e \in Error,
             ClientFails(e), unopened' = unopened \cup {s \in Sinks : s.via = "nvrm"},
             handles' = IF prefer = "probe" /\ pc = "masks" THEN {} ELSE handles
      PROVE  SearchInv'
  <2>1. CASE prefer \in {"nvrm", "probe"}
    <3>1. /\ pc' = "end" /\ cands' = <<>> /\ chosen' = chosen
          /\ outcome' \in {"noclient", "OSError", "RuntimeError"}
          /\ prefer = "probe" /\ outcome' # "noclient" => handles' = {}
          /\ handles' \subseteq handles
      BY <1>1, <1>4, <2>1 DEF ClientFails, Error
    <3>2. TypeOK' /\ Control'
      <4>1. TypeOK'
        BY <1>1, <1>4, <3>1 DEF TypeOK, Final
      <4>2. \A s \in Sinks : Visited(s)'
        BY <3>1 DEF Visited, Building, Final
      <4>3. /\ unopened' \subseteq Sinks
            /\ prefer = "probe" => handles \subseteq Client
            /\ changes = 0 => steady = Sinks
        BY <4>1 DEF SearchInv, Control, TypeOK
      <4> QED
        BY <1>1, <3>1, <4>1, <4>2, <4>3 DEF Control, Building
    <3>3. HeardSoFar' /\ NoneMissed' /\ Truthful' /\ Ordered'
      BY <1>1, <3>1 DEF HeardSoFar, NoneMissed, Truthful, Ordered
    <3>4. HubIsFound'
      <4>1. Reachable' = {}
        BY <1>1, <1>2, <1>4, <2>1 DEF Reachable, Answering, Searched
      <4> QED
        BY <3>1, <4>1 DEF HubIsFound
    <3>5. ChosenIsBest' /\ HandlesInUse'
      BY <1>1, <3>1 DEF ChosenIsBest, HandlesInUse
    <3> QED
      BY <3>2, <3>3, <3>4, <3>5 DEF SearchInv
  <2>2. CASE prefer = "auto"
    <3>1. /\ pc' = "opennode" /\ outcome' = outcome /\ chosen' = chosen /\ handles' = handles
          /\ cands' = <<Note>>
      BY <1>1, <1>4, <2>2 DEF ClientFails, found
    <3>2. \A s \in Sinks : Visited(s)' <=> s \in unopened'
      <4>1. unopened = {}
        BY <1>1, <1>2 DEF SearchInv, Control, TypeOK, Visited, Building, Final
      <4>2. /\ pc' \notin Building /\ pc' # "display" /\ pc' \notin Final
            /\ at' = 1 /\ pc' \in {"opennode", "node"}
        BY <1>1, <3>1 DEF Building, Final
      <4>3. ASSUME NEW s \in Sinks PROVE Visited(s)' <=> s.via = "nvrm"
        BY <4>2, SinkFacts DEF Visited
      <4> QED
        BY <1>4, <4>1, <4>3
    <3>3. TypeOK'
      <4>1. Note \in Candidate
        BY DEF Note, Cand, Candidate
      <4>2. cands' \in Seq(Candidate)
        BY <3>1, <4>1
      <4> QED
        BY <1>1, <1>4, <3>1, <4>2 DEF TypeOK, Building
    <3>4. Control'
      <4>1. unopened' \subseteq Sinks /\ (changes = 0 => steady = Sinks)
        BY <3>3 DEF SearchInv, Control, TypeOK
      <4> QED
        BY <1>1, <2>2, <3>1, <3>2, <4>1 DEF Control, Building
    <3>5. HeardSoFar' /\ NoneMissed'
      BY <1>1, <3>1, <3>2 DEF HeardSoFar, NoneMissed, Answering, Probing
    <3>6. Truthful' /\ Ordered'
      <4>1. \A i \in DOMAIN cands' : cands'[i].has = {} /\ cands'[i].sink = NoSink
        BY <3>1 DEF Note, Cand
      <4> QED
        BY <4>1 DEF Truthful, TruthOf, Ordered, Real
    <3>7. HubIsFound' /\ ChosenIsBest' /\ HandlesInUse'
      BY <1>1, <3>1 DEF HubIsFound, ChosenIsBest, HandlesInUse
    <3> QED
      BY <3>3, <3>4, <3>5, <3>6, <3>7 DEF SearchInv
  <2> QED
    BY <1>1, <2>1, <2>2
<1> QED
  BY <1>3, <1>4 DEF BuildClient

\* A display is probed through the client.
LEMMA ProbeDisplayKeeps == SearchInv /\ ProbeDisplay => SearchInv'
<1> SUFFICES ASSUME SearchInv, ProbeDisplay PROVE SearchInv'
  OBVIOUS
<1>1. /\ pc = "display" /\ pc' = pc /\ at \in Nat \ {0} /\ at <= Displays /\ Probe
      /\ UNCHANGED <<prefer, world, changes, steady, handles, unopened, outcome, chosen>>
      /\ TypeOK /\ outcome = "none" /\ prefer # "drm" /\ Client \subseteq handles
  BY DEF SearchInv, ProbeDisplay, env, found, TypeOK, Control, Building
<1>2. PICK s0 \in Sinks : s0 = Sink /\ s0 = Display(at) /\ s0.via = "nvrm" /\ s0.n = at
  BY <1>1, SinkFacts DEF Sink
<1>3. at' = at \/ at' = at + 1
  BY <1>1 DEF Probe, ProbeAnswered, ProbeFailed, Take, PassOver
<1>4. ASSUME NEW s \in Sinks
      PROVE  /\ Visited(s)' <=> Visited(s) \/ (at' = at + 1 /\ s = s0)
             /\ Visited(s) => Place(Cand(s, {})) < Place(Cand(s0, {}))
  <2>1. /\ s.n \in Nat /\ (s.via = "nvrm" \/ s.via = "drm")
        /\ s.via = "nvrm" => s = Display(s.n)
    BY SinkFacts
  <2>2. /\ pc \notin Building /\ pc \notin Final /\ pc \notin {"opennode", "node"}
    BY <1>1 DEF Building, Final
  <2>3. /\ Visited(s) <=> s.via = "nvrm" /\ s.n < at
        /\ Visited(s)' <=> s.via = "nvrm" /\ s.n < at'
    BY <1>1, <2>1, <2>2 DEF Visited
  <2>4. s.via = "nvrm" /\ s.n = at => s = s0
    BY <1>2, <2>1
  <2>5. Place(Cand(s0, {})) = at /\ (s.via = "nvrm" => Place(Cand(s, {})) = s.n)
    BY <1>2 DEF Place, Cand
  <2> QED
    BY <1>1, <1>2, <1>3, <2>1, <2>3, <2>4, <2>5
<1>5. ~Visited(s0) /\ (prefer = "probe" \/ Searched(s0)) /\ Needs(s0) \subseteq handles
  <2>1. prefer \in {"auto", "nvrm", "probe"}
    BY <1>1 DEF TypeOK, Prefer
  <2>2. ~(at < at)
    BY <1>1
  <2> QED
    BY <1>1, <1>2, <2>1, <2>2 DEF Visited, Searched, Needs, Client
<1>6. /\ cands' \in Seq(Candidate) /\ seen' \in Seq(BOOLEAN) /\ Len(seen') <= 2
      /\ at' \in Nat \ {0}
      /\ HeardSoFar' /\ NoneMissed' /\ Truthful' /\ Ordered'
  BY <1>1, <1>2, <1>3, <1>4, <1>5, ProbedKeeps DEF Probing
<1>7. TypeOK'
  BY <1>1, <1>6 DEF TypeOK
<1>8. Control'
  <2>1. \A s \in unopened : Visited(s)'
    BY <1>1, <1>4 DEF SearchInv, Control, TypeOK
  <2> QED
    BY <1>1, <2>1 DEF SearchInv, Control, Building
<1>9. HubIsFound' /\ ChosenIsBest' /\ HandlesInUse'
  BY <1>1 DEF HubIsFound, ChosenIsBest, HandlesInUse
<1> QED
  BY <1>6, <1>7, <1>8, <1>9 DEF SearchInv

\* An AUX node is probed through its own handle.
LEMMA ProbeNodeKeeps == SearchInv /\ ProbeNode => SearchInv'
<1> SUFFICES ASSUME SearchInv, ProbeNode PROVE SearchInv'
  OBVIOUS
<1>1. /\ pc = "node" /\ pc' = (IF at' = at THEN "node" ELSE "opennode")
      /\ at \in Nat \ {0} /\ at <= Nodes /\ Probe
      /\ UNCHANGED <<prefer, world, changes, steady, handles, unopened, outcome, chosen>>
      /\ TypeOK /\ outcome = "none" /\ prefer \in {"auto", "drm"} /\ Node(at) \in handles
  BY DEF SearchInv, ProbeNode, env, found, TypeOK, Control
<1>2. PICK s0 \in Sinks : s0 = Sink /\ s0 = Node(at) /\ s0.via = "drm" /\ s0.n = at
  BY <1>1, SinkFacts DEF Sink
<1>3. at' = at \/ at' = at + 1
  BY <1>1 DEF Probe, ProbeAnswered, ProbeFailed, Take, PassOver
<1>4. ASSUME NEW s \in Sinks
      PROVE  /\ Visited(s)' <=> Visited(s) \/ (at' = at + 1 /\ s = s0)
             /\ Visited(s) => Place(Cand(s, {})) < Place(Cand(s0, {}))
  <2>1. /\ s.n \in Nat /\ (s.via = "nvrm" \/ s.via = "drm")
        /\ s.via = "drm" => s = Node(s.n)
        /\ s.via = "nvrm" => s.n <= Displays
    BY SinkFacts
  <2>2. /\ pc \notin Building /\ pc \notin Final /\ pc # "display" /\ pc \in {"opennode", "node"}
        /\ pc' \notin Building /\ pc' \notin Final /\ pc' # "display" /\ pc' \in {"opennode", "node"}
    BY <1>1 DEF Building, Final
  <2>3. /\ Visited(s) <=> s.via = "nvrm" \/ s.n < at
        /\ Visited(s)' <=> s.via = "nvrm" \/ s.n < at'
    BY <1>1, <2>1, <2>2 DEF Visited
  <2>4. s.via = "drm" /\ s.n = at => s = s0
    BY <1>2, <2>1
  <2>5. /\ Place(Cand(s0, {})) = Displays + at
        /\ Place(Cand(s, {})) = IF s.via = "nvrm" THEN s.n ELSE Displays + s.n
    BY <1>2 DEF Place, Cand
  <2> QED
    BY <1>1, <1>2, <1>3, <2>1, <2>3, <2>4, <2>5, HubDetectAssumption
<1>5. ~Visited(s0) /\ (prefer = "probe" \/ Searched(s0)) /\ Needs(s0) \subseteq handles
  <2>1. ~(at < at) /\ pc \notin Final
    BY <1>1 DEF Final
  <2> QED
    BY <1>1, <1>2, <2>1 DEF Visited, Searched, Needs
<1>6. /\ cands' \in Seq(Candidate) /\ seen' \in Seq(BOOLEAN) /\ Len(seen') <= 2
      /\ at' \in Nat \ {0}
      /\ HeardSoFar' /\ NoneMissed' /\ Truthful' /\ Ordered'
  BY <1>1, <1>2, <1>3, <1>4, <1>5, ProbedKeeps DEF Probing
<1>7. TypeOK'
  BY <1>1, <1>6 DEF TypeOK, Probing
<1>8. Control'
  <2>1. \A s \in unopened : Visited(s)'
    BY <1>1, <1>4 DEF SearchInv, Control, TypeOK
  <2> QED
    BY <1>1, <2>1 DEF SearchInv, Control, Building
<1>9. HubIsFound' /\ ChosenIsBest' /\ HandlesInUse'
  BY <1>1 DEF HubIsFound, ChosenIsBest, HandlesInUse
<1> QED
  BY <1>6, <1>7, <1>8, <1>9 DEF SearchInv

\* An AUX node is opened, or passed over when it cannot be.
LEMMA OpenNodeKeeps == SearchInv /\ OpenNode => SearchInv'
<1> SUFFICES ASSUME SearchInv, OpenNode PROVE SearchInv'
  OBVIOUS
<1>1. /\ pc = "opennode" /\ at \in Nat \ {0} /\ at <= Nodes /\ TypeOK
      /\ UNCHANGED <<prefer, world, changes, steady, seen, cands, outcome, chosen>>
      /\ outcome = "none" /\ prefer \in {"auto", "drm"} /\ seen = <<>> /\ handles \subseteq handles'
  BY DEF SearchInv, OpenNode, env, found, TypeOK, Control, HeardSoFar, Probing
<1>2. Node(at) \in Sinks /\ Node(at).via = "drm" /\ Node(at).n = at
  BY <1>1, SinkFacts
<1>3. \/ /\ pc' = "node" /\ handles' = handles \cup {Node(at)} /\ at' = at /\ unopened' = unopened
      \/ /\ pc' = "opennode" /\ handles' = handles /\ at' = at + 1
         /\ unopened' = unopened \cup {Node(at)}
  BY <1>1 DEF OpenNode
<1>4. ASSUME NEW s \in Sinks
      PROVE  Visited(s)' <=> Visited(s) \/ (at' = at + 1 /\ s = Node(at))
  <2>1. /\ s.n \in Nat /\ (s.via = "nvrm" \/ s.via = "drm")
        /\ s.via = "drm" => s = Node(s.n)
    BY SinkFacts
  <2>2. /\ pc \notin Building /\ pc \notin Final /\ pc # "display" /\ pc \in {"opennode", "node"}
        /\ pc' \notin Building /\ pc' \notin Final /\ pc' # "display" /\ pc' \in {"opennode", "node"}
    BY <1>1, <1>3 DEF Building, Final
  <2>3. /\ Visited(s) <=> s.via = "nvrm" \/ s.n < at
        /\ Visited(s)' <=> s.via = "nvrm" \/ s.n < at'
    BY <2>1, <2>2 DEF Visited
  <2> QED
    BY <1>1, <1>2, <1>3, <2>1, <2>3
<1>5. TypeOK'
  BY <1>1, <1>2, <1>3 DEF TypeOK, Probing
<1>6. Control'
  <2>1. \A s \in unopened' : Visited(s)'
    BY <1>1, <1>2, <1>3, <1>4 DEF SearchInv, Control, TypeOK
  <2>2. pc' = "node" => at' <= Nodes /\ Node(at') \in handles'
    BY <1>1, <1>3
  <2>3. changes = 0 => steady = Sinks
    BY DEF SearchInv, Control
  <2> QED
    BY <1>1, <1>3, <2>1, <2>2, <2>3 DEF Control, Building
<1>7. HeardSoFar' /\ Ordered'
  BY <1>1, <1>3 DEF SearchInv, HeardSoFar, Ordered, Real, Place
<1>8. NoneMissed'
  <2> SUFFICES ASSUME NEW s \in Sinks, s \in steady, world[s] # Mute, Visited(s)', s \notin unopened',
                      Searched(s) \/ (prefer = "probe" /\ s.via = "nvrm")
               PROVE  \E i \in DOMAIN cands : cands[i] = Cand(s, world[s])
    BY <1>1 DEF NoneMissed, Answering, Searched
  <2>1. Visited(s) /\ s \notin unopened
    BY <1>1, <1>3, <1>4
  <2> QED
    BY <1>1, <2>1 DEF SearchInv, NoneMissed, Answering
<1>9. Truthful'
  <2> SUFFICES ASSUME NEW i \in DOMAIN cands, NEW c, c = cands[i] PROVE TruthOf(c)'
    BY <1>1 DEF Truthful, TruthOf, Real, Visited, Searched, Needs
  <2>1. TruthOf(c) /\ (Real(c) => c.sink \in Sinks)
    BY <1>1, CandidateFacts DEF SearchInv, Truthful
  <2>2. Real(c) => Visited(c.sink)' /\ Visited(c.sink)
    BY <1>4, <2>1 DEF TruthOf
  <2>3. ~Visited(Node(at))
    BY <1>1, <1>2 DEF Visited, Final
  <2>4. Real(c) => c.sink \notin unopened'
    BY <1>3, <2>1, <2>2, <2>3 DEF TruthOf
  <2> QED
    BY <1>1, <2>1, <2>2, <2>4 DEF TruthOf, Real, Searched, Needs
<1>10. HubIsFound' /\ ChosenIsBest' /\ HandlesInUse'
  BY <1>1, <1>3 DEF HubIsFound, ChosenIsBest, HandlesInUse
<1> QED
  BY <1>5, <1>6, <1>7, <1>8, <1>9, <1>10 DEF SearchInv


\* One of some candidates sorts before all others.
LEMMA BestExists ==
    ASSUME NEW H, H \subseteq Nat, H # {}
    PROVE  \E i \in H : \A k \in H \ {i} : Before(i, k)
<1>1. \A c : Score(c) \in Nat /\ Score(c) <= 11
  BY DEF Score
<1> DEFINE Worse(i) == 11 - Score(cands[i])
<1>2. \A i : Worse(i) \in Nat
  BY <1>1
<1>3. \A i, k : /\ Worse(i) < Worse(k) => Score(cands[i]) > Score(cands[k])
                /\ Worse(i) = Worse(k) => Score(cands[i]) = Score(cands[k])
  BY <1>1
<1> HIDE DEF Worse
<1>4. PICK m \in {Worse(i) : i \in H} : \A n \in {Worse(i) : i \in H} : m <= n
  BY <1>2, LeastExists
<1>5. PICK i \in {k \in H : Worse(k) = m} : \A k \in {j \in H : Worse(j) = m} : i <= k
  BY <1>4, LeastExists
<1>6. ASSUME NEW k \in H \ {i} PROVE Before(i, k)
  <2>1. m <= Worse(k) /\ m \in Nat /\ Worse(k) \in Nat
    BY <1>2, <1>4
  <2>2. CASE Worse(k) = m
    <3>1. i < k
      BY <1>5, <1>6, <2>2
    <3>2. Score(cands[i]) = Score(cands[k])
      BY <1>3, <1>5, <2>2
    <3> QED
      BY <3>1, <3>2 DEF Before
  <2>3. CASE Worse(k) # m
    <3>1. Worse(i) < Worse(k)
      BY <1>5, <2>1, <2>3
    <3> QED
      BY <1>3, <3>1 DEF Before
  <2> QED
    BY <2>2, <2>3
<1> QED
  BY <1>5, <1>6

\* When the search is over, every hub to be found is among the candidates.
LEMMA ReachableIsNoted ==
    ASSUME SearchInv, pc = "pick", NEW s \in Reachable
    PROVE  \E i \in Hubs : cands[i] = Cand(s, world[s])
<1>1. s \in Answering /\ Searched(s) /\ s \notin unopened /\ IsHub(Cand(s, world[s]))
  BY DEF Reachable
<1>2. Visited(s)
  BY DEF Visited, Building, Final
<1>3. PICK i \in DOMAIN cands : cands[i] = Cand(s, world[s])
  BY <1>1, <1>2 DEF SearchInv, NoneMissed
<1> QED
  BY <1>1, <1>3 DEF Hubs

\* The candidate chosen sorts before the others.
LEMMA PickKeeps == SearchInv /\ Pick => SearchInv'
<1> SUFFICES ASSUME SearchInv, Pick PROVE SearchInv'
  OBVIOUS
<1>1. /\ pc = "pick" /\ prefer # "probe" /\ TypeOK
      /\ UNCHANGED <<prefer, world, changes, steady, at, seen, cands, handles, unopened>>
      /\ \A s \in Sinks : Visited(s)
  BY DEF SearchInv, Pick, env, Visited, Building, Final
<1>2. \/ Hubs = {} /\ pc' = "end" /\ outcome' = "RuntimeError" /\ chosen' = chosen
      \/ /\ pc' = "session" /\ outcome' = "found"
         /\ \E i \in Hubs : chosen' = cands[i] /\ \A k \in Hubs \ {i} : Before(i, k)
  <2>1. Hubs \subseteq Nat
    BY <1>1 DEF Hubs, TypeOK
  <2>2. Hubs # {} => \E i \in Hubs : \A k \in Hubs \ {i} : Before(i, k)
    BY <2>1, BestExists
  <2> QED
    BY <2>2 DEF Pick
<1>3. /\ pc' \in Final /\ pc' # "pick" /\ pc' \notin Building /\ pc' \notin Probing /\ pc' # "opennode"
      /\ \A s \in Sinks : Visited(s)'
  BY <1>2 DEF Final, Building, Probing, Visited
<1>4. Reachable' = Reachable
  BY <1>1 DEF Reachable, Answering, Searched
<1>5. TypeOK'
  <2>1. chosen' \in Candidate
    BY <1>1, <1>2, CandidateFacts DEF Hubs, TypeOK
  <2> QED
    BY <1>1, <1>3, <2>1 DEF TypeOK
<1>6. Control'
  BY <1>1, <1>2, <1>3 DEF SearchInv, Control, TypeOK
<1>7. HeardSoFar' /\ NoneMissed' /\ Ordered'
  <2>1. seen = <<>>
    BY <1>1 DEF SearchInv, HeardSoFar, Probing
  <2>2. pc # "end"
    BY <1>1
  <2> QED
    BY <1>1, <1>3, <2>1, <2>2 DEF SearchInv, HeardSoFar, NoneMissed, Answering,
       Searched, Ordered, Real, Place
<1>8. Truthful'
  <2> SUFFICES ASSUME NEW i \in DOMAIN cands, NEW c, c = cands[i] PROVE TruthOf(c)'
    BY <1>1 DEF Truthful, TruthOf, Real, Visited, Searched, Needs
  <2>1. TruthOf(c) /\ (Real(c) => c.sink \in Sinks)
    BY <1>1, CandidateFacts DEF SearchInv, Truthful
  <2>2. Real(c) => Visited(c.sink)'
    BY <1>3, <2>1
  <2> QED
    BY <1>1, <2>1, <2>2 DEF TruthOf, Real, Searched, Needs
<1>9. CASE pc' = "end"
  <2>1. outcome' = "RuntimeError" /\ Hubs = {}
    BY <1>2, <1>9
  <2>2. Reachable = {}
    BY <1>1, <2>1, ReachableIsNoted
  <2>3. HubIsFound' /\ ChosenIsBest' /\ HandlesInUse'
    BY <1>1, <1>4, <1>9, <2>1, <2>2 DEF HubIsFound, ChosenIsBest, HandlesInUse
  <2> QED
    BY <1>5, <1>6, <1>7, <1>8, <2>3 DEF SearchInv
<1>10. CASE pc' = "session"
  <2>1. PICK i \in Hubs : chosen' = cands[i] /\ \A k \in Hubs \ {i} : Before(i, k)
    BY <1>2, <1>10
  <2>2. /\ i \in DOMAIN cands /\ i \in Nat /\ TruthOf(cands[i]) /\ Real(cands[i]) /\ IsHub(cands[i])
        /\ cands[i].sink \in Sinks
    <3>1. i \in DOMAIN cands /\ i \in Nat /\ IsHub(cands[i]) /\ TruthOf(cands[i])
      BY <1>1, <2>1 DEF Hubs, TypeOK, SearchInv, Truthful
    <3>2. Real(cands[i])
      BY <3>1 DEF TruthOf, IsHub
    <3> QED
      BY <1>1, <3>1, <3>2, CandidateFacts
  <2>3. cands[i].sink \in steady => cands[i].sink \in Reachable
    BY <1>1, <2>2 DEF TruthOf, Reachable, Answering, IsHub, Cand
  <2>4. ASSUME NEW s \in Reachable
        PROVE  \/ Score(cands[i]) > Score(Cand(s, world[s]))
               \/ /\ Score(cands[i]) = Score(Cand(s, world[s]))
                  /\ Place(cands[i]) <= Place(Cand(s, world[s]))
    <3>1. PICK k \in Hubs : cands[k] = Cand(s, world[s])
      BY <1>1, ReachableIsNoted
    <3>2. Place(cands[i]) \in Nat
      BY <2>2, SinkFacts, HubDetectAssumption DEF Place
    <3>3. CASE k = i
      BY <3>1, <3>2, <3>3
    <3>4. CASE k # i
      <4>1. Score(cands[i]) > Score(cands[k]) \/ (Score(cands[i]) = Score(cands[k]) /\ i < k)
        BY <2>1, <3>4 DEF Before
      <4>2. k \in DOMAIN cands /\ Real(cands[k])
        BY <3>1, SinkFacts DEF Hubs, Real, Cand, Reachable, Answering
      <4>3. i < k => Place(cands[i]) < Place(cands[k])
        BY <2>2, <4>2 DEF SearchInv, Ordered
      <4>4. Place(cands[k]) \in Nat
        BY <3>1, SinkFacts, HubDetectAssumption DEF Place, Cand, Reachable, Answering
      <4> QED
        BY <3>1, <3>2, <4>1, <4>3, <4>4
    <3> QED
      BY <3>3, <3>4
  <2>5. ChosenIsBest'
    BY <1>1, <1>4, <2>1, <2>3, <2>4 DEF ChosenIsBest, Score, Place
  <2>6. HubIsFound' /\ HandlesInUse'
    BY <1>1, <1>10, <2>1, <2>2 DEF HubIsFound, HandlesInUse, TruthOf, Needs
  <2> QED
    BY <1>5, <1>6, <1>7, <1>8, <2>5, <2>6 DEF SearchInv
<1> QED
  BY <1>2, <1>9, <1>10

\* A read raises: the probe closes what it opened.
LEMMA ProbeRaisesKeeps == SearchInv /\ ProbeRaises => SearchInv'
<1> SUFFICES ASSUME SearchInv, ProbeRaises PROVE SearchInv'
  OBVIOUS
<1>1. TypeOK'
  BY DEF SearchInv, TypeOK, ProbeRaises, env, Final
<1>2. Control'
  BY DEF SearchInv, Control, ProbeRaises, env, Building
<1>3. HeardSoFar'
  BY DEF HeardSoFar, ProbeRaises, Sink, Probing
<1>4. NoneMissed'
  BY DEF NoneMissed, ProbeRaises
<1>5. Truthful'
  BY DEF SearchInv, Truthful, ProbeRaises, env, TruthOf, Visited, Building, Final
<1>6. Ordered'
  BY DEF SearchInv, Ordered, ProbeRaises
<1>7. HubIsFound'
  <2>1. outcome' \in {"OSError", "IndexError"}
    BY DEF ProbeRaises
  <2>2. Reachable' = {}
    BY SinkFacts DEF ProbeRaises, env, Reachable, Answering, Searched
  <2> QED
    BY <2>1, <2>2 DEF HubIsFound
<1>8. ChosenIsBest'
  BY DEF ChosenIsBest, ProbeRaises
<1>9. HandlesInUse'
  BY DEF SearchInv, HandlesInUse, ProbeRaises, Control
<1> QED
  BY <1>1, <1>2, <1>3, <1>4, <1>5, <1>6, <1>7, <1>8, <1>9 DEF SearchInv

\* All displays are visited; the client stays open.
LEMMA DisplaysDoneKeeps == SearchInv /\ DisplaysDone => SearchInv'
<1> SUFFICES ASSUME SearchInv, DisplaysDone PROVE SearchInv'
  OBVIOUS
<1>1. TypeOK'
  BY DEF SearchInv, TypeOK, DisplaysDone, env, found, AfterNvrm, Final
<1>2. Control'
  BY DEF SearchInv, Control, DisplaysDone, env, found, AfterNvrm, Visited, Building, Final
<1>3. HeardSoFar'
  BY DEF SearchInv, HeardSoFar, DisplaysDone, Sink
<1>4. NoneMissed'
  <2>1. \A s \in Sinks : s.via = "nvrm" => Visited(s)
    BY SinkFacts, HubDetectAssumption DEF DisplaysDone, Visited, Building, SearchInv, TypeOK
  <2>2. \A s \in Sinks : s.via = "drm" /\ Visited(s)' => ~Searched(s)
    BY SinkFacts DEF DisplaysDone, AfterNvrm, Visited, Building, Final, Searched,
       SearchInv, TypeOK, Control, Prefer
  <2> QED
    BY <2>1, <2>2, SinkFacts DEF SearchInv, DisplaysDone, env, NoneMissed, Answering,
       Searched
<1>5. Truthful'
  BY DEF SearchInv, Truthful, DisplaysDone, env, AfterNvrm, TruthOf, Visited, Searched,
     Building, Final
<1>6. Ordered'
  BY DEF SearchInv, Ordered, DisplaysDone
<1>7. HubIsFound'
  BY DEF HubIsFound, DisplaysDone, AfterNvrm
<1>8. ChosenIsBest'
  BY DEF SearchInv, ChosenIsBest, DisplaysDone, found, Control
<1>9. HandlesInUse'
  BY DEF HandlesInUse, DisplaysDone, AfterNvrm
<1> QED
  BY <1>1, <1>2, <1>3, <1>4, <1>5, <1>6, <1>7, <1>8, <1>9 DEF SearchInv

\* All nodes are visited.
LEMMA NodesDoneKeeps == SearchInv /\ NodesDone => SearchInv'
<1> SUFFICES ASSUME SearchInv, NodesDone PROVE SearchInv'
  OBVIOUS
<1>1. TypeOK'
  BY DEF SearchInv, TypeOK, NodesDone, env, found, Final
<1>2. Control'
  BY DEF SearchInv, Control, NodesDone, env, found, Visited, Building, Final
<1>3. HeardSoFar'
  BY DEF SearchInv, HeardSoFar, NodesDone, Sink, Probing
<1>4. NoneMissed'
  <2>1. \A s \in Sinks : Visited(s)
    BY SinkFacts, HubDetectAssumption DEF NodesDone, Visited, Building, SearchInv, TypeOK
  <2> QED
    BY <2>1 DEF SearchInv, NodesDone, env, NoneMissed, Answering, Searched
<1>5. Truthful'
  BY DEF SearchInv, Truthful, NodesDone, env, TruthOf, Visited, Searched, Building, Final
<1>6. Ordered'
  BY DEF SearchInv, Ordered, NodesDone
<1>7. HubIsFound'
  BY DEF HubIsFound, NodesDone
<1>8. ChosenIsBest'
  BY DEF SearchInv, ChosenIsBest, NodesDone, found, Control
<1>9. HandlesInUse'
  BY DEF HandlesInUse, NodesDone
<1> QED
  BY <1>1, <1>2, <1>3, <1>4, <1>5, <1>6, <1>7, <1>8, <1>9 DEF SearchInv

\* The probe says what it found and closes the client.
LEMMA VerdictKeeps == SearchInv /\ Verdict => SearchInv'
<1> SUFFICES ASSUME SearchInv, Verdict PROVE SearchInv'
  OBVIOUS
<1>1. TypeOK'
  BY DEF SearchInv, TypeOK, Verdict, env, Final
<1>2. Control'
  BY DEF SearchInv, Control, Verdict, env, Building
<1>3. HeardSoFar'
  BY DEF SearchInv, HeardSoFar, Verdict, env, Sink
<1>4. NoneMissed'
  BY DEF NoneMissed, Verdict
<1>5. Truthful'
  BY DEF SearchInv, Truthful, Verdict, env, TruthOf, Visited, Building, Final
<1>6. Ordered'
  BY DEF SearchInv, Ordered, Verdict
<1>7. HubIsFound'
  <2>1. /\ pc = "pick" /\ prefer = "probe" /\ UNCHANGED <<prefer, world, changes, steady, cands>>
        /\ outcome' = IF \E i \in DOMAIN cands : "syn" \in cands[i].has THEN "pass" ELSE "absent"
        /\ TypeOK
    BY DEF Verdict, env, SearchInv
  <2>2. Reachable' = {}
    BY <2>1, SinkFacts DEF Reachable, Answering, Searched
  <2>3. ASSUME outcome' = "absent", NEW s \in Answering, s.via = "nvrm"
        PROVE  "syn" \notin world[s]
    <3>1. Visited(s) /\ unopened = {}
      BY <2>1, <2>3 DEF Visited, Building, Final, SearchInv, Control
    <3>2. PICK i \in DOMAIN cands : cands[i] = Cand(s, world[s])
      BY <2>1, <2>3, <3>1 DEF SearchInv, NoneMissed
    <3> QED
      BY <2>1, <2>3, <3>2 DEF Cand
  <2>4. ASSUME outcome' = "pass", changes = 0
        PROVE  \E s \in Answering : "syn" \in world[s]
    <3>1. PICK i \in DOMAIN cands : "syn" \in cands[i].has
      BY <2>1, <2>4
    <3>2. TruthOf(cands[i]) /\ Real(cands[i])
      BY <3>1 DEF SearchInv, Truthful, TruthOf
    <3>3. cands[i].sink \in Sinks /\ steady = Sinks
      BY <2>1, <2>4, <3>2, CandidateFacts DEF SearchInv, Control
    <3> QED
      BY <3>1, <3>2, <3>3 DEF TruthOf, Answering
  <2>5. Answering' = Answering
    BY <2>1 DEF Answering
  <2> QED
    BY <2>1, <2>2, <2>3, <2>4, <2>5 DEF HubIsFound
<1>8. ChosenIsBest'
  BY DEF ChosenIsBest, Verdict
<1>9. HandlesInUse'
  BY DEF SearchInv, HandlesInUse, Verdict, Control
<1> QED
  BY <1>1, <1>2, <1>3, <1>4, <1>5, <1>6, <1>7, <1>8, <1>9 DEF SearchInv

\* A candidate is closed at the end.
LEMMA CloseCandidateKeeps == SearchInv /\ CloseCandidate => SearchInv'
<1> SUFFICES ASSUME SearchInv, CloseCandidate PROVE SearchInv'
  OBVIOUS
<1>1. TypeOK'
  BY DEF SearchInv, TypeOK, CloseCandidate, env, found, Final
<1>2. Control'
  BY DEF SearchInv, Control, CloseCandidate, env, found, Visited, Building, Final
<1>3. HeardSoFar'
  BY DEF SearchInv, HeardSoFar, CloseCandidate, env, Sink
<1>4. NoneMissed'
  BY DEF NoneMissed, CloseCandidate
<1>5. Truthful'
  BY DEF SearchInv, Truthful, CloseCandidate, env, TruthOf, Visited, Searched, Building,
     Final
<1>6. Ordered'
  BY DEF SearchInv, Ordered, CloseCandidate
<1>7. HubIsFound'
  BY DEF SearchInv, HubIsFound, CloseCandidate, found, Control
<1>8. ChosenIsBest'
  <2>1. UNCHANGED <<prefer, world, steady, unopened, outcome, chosen>>
    BY DEF CloseCandidate, env, found
  <2>2. Reachable' = Reachable
    BY <2>1 DEF Reachable, Answering, Searched
  <2> QED
    BY <2>1, <2>2 DEF SearchInv, ChosenIsBest, Score, Place
<1>9. HandlesInUse'
  <2>1. Needs(chosen.sink) = HandlesOf(chosen)
    BY DEF Needs, HandlesOf, Client
  <2> QED
    BY <2>1 DEF SearchInv, Control, CloseCandidate, env, found, HandlesInUse, Needs
<1> QED
  BY <1>1, <1>2, <1>3, <1>4, <1>5, <1>6, <1>7, <1>8, <1>9 DEF SearchInv

\* A sink changes: it is no longer steady, and what was noted of it may be wrong.
LEMMA ReplugKeeps == SearchInv /\ Replug => SearchInv'
<1> SUFFICES ASSUME SearchInv, Replug PROVE SearchInv'
  OBVIOUS
<1>1. TypeOK'
  BY DEF SearchInv, TypeOK, Replug, found
<1>2. Control'
  BY DEF SearchInv, Control, Replug, found, TypeOK, Visited
<1>3. HeardSoFar'
  BY DEF SearchInv, HeardSoFar, Replug, Sink
<1>4. NoneMissed'
  BY DEF SearchInv, NoneMissed, Replug, Answering, Searched, Visited
<1>5. Truthful'
  BY DEF SearchInv, Truthful, Replug, TruthOf, Visited, Searched
<1>6. Ordered'
  BY DEF SearchInv, Ordered, Replug
<1>7. HubIsFound'
  BY DEF HubIsFound, Replug
<1>8. ChosenIsBest'
  BY DEF SearchInv, ChosenIsBest, Replug, found, Control
<1>9. HandlesInUse'
  BY DEF HandlesInUse, Replug
<1> QED
  BY <1>1, <1>2, <1>3, <1>4, <1>5, <1>6, <1>7, <1>8, <1>9 DEF SearchInv

-----------------------------------------------------------------------------
\* The inductive invariant of discovery.
THEOREM SearchInvariant == Spec => []SearchInv
<1>1. Init => SearchInv
  BY InitSearch
<1>2. SearchInv /\ [Next]_vars => SearchInv'
  <2> SUFFICES ASSUME SearchInv, [Next]_vars PROVE SearchInv'
    OBVIOUS
  <2>1. CASE Next
    BY <2>1, BuildClientKeeps, ProbeDisplayKeeps, ProbeRaisesKeeps, DisplaysDoneKeeps,
       VerdictKeeps, OpenNodeKeeps, ProbeNodeKeeps, NodesDoneKeeps, PickKeeps,
       CloseCandidateKeeps, ReplugKeeps DEF Next
  <2>2. CASE UNCHANGED vars
    <3>1. /\ UNCHANGED <<prefer, pc, at, seen, world, cands, handles, outcome, chosen, changes,
                        steady, unopened>>
      BY <2>2 DEF vars
    <3>2. TypeOK' /\ Control' /\ HeardSoFar' /\ Ordered'
      BY <3>1 DEF SearchInv, TypeOK, Control, Visited, HeardSoFar, Sink, Ordered, Real,
         Place
    <3>3. NoneMissed' /\ Truthful'
      BY <3>1 DEF SearchInv, NoneMissed, Answering, Searched, Visited, Truthful,
         TruthOf, Real, Needs
    <3>4. HubIsFound' /\ ChosenIsBest' /\ HandlesInUse'
      BY <3>1 DEF SearchInv, HubIsFound, ChosenIsBest, HandlesInUse, Reachable,
         Answering, Searched, Score, Place, Needs
    <3> QED
      BY <3>2, <3>3, <3>4 DEF SearchInv
  <2> QED
    BY <2>1, <2>2
<1> QED
  BY <1>1, <1>2, PTL DEF Spec

\* A hub that stays plugged in, behind a device that can be opened, is found, whatever
\* the other backend and the other sinks do; the probe's verdict is the truth
\* (detect.discover, nvrm.probe).
THEOREM HubsAreFound == Spec => []HubIsFound
<1>1. SearchInv => HubIsFound
  BY DEF SearchInv
<1> QED
  BY <1>1, SearchInvariant, PTL

\* The candidate returned is a hub, and none of those in reach scores higher, nor as
\* high and earlier in the order of the search (detect.find_hub).
THEOREM BestIsChosen == Spec => []ChosenIsBest
<1>1. SearchInv => ChosenIsBest
  BY DEF SearchInv
<1> QED
  BY <1>1, SearchInvariant, PTL

\* The descriptors of the chosen sink are open while a session uses it and closed in
\* the end; the probe leaves none open (cli.py's finally clauses, nvrm.probe).
THEOREM HandlesAreInUse == Spec => []HandlesInUse
<1>1. SearchInv => HandlesInUse
  BY DEF SearchInv
<1> QED
  BY <1>1, SearchInvariant, PTL
=============================================================================
