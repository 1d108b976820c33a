----------------------------- MODULE HubDetect -----------------------------
(***************************************************************************)
(* How vmmdump finds the hub: detect.find_hub over detect.discover, and    *)
(* what cli makes of the answer, one call that can fail or answer per      *)
(* step.  The tool first builds an RM client (NvRmClient), probes every    *)
(* display behind it, then every /dev/drm_dp_aux* node, sorts the          *)
(* candidates and takes the first that is a hub.  nvrm.py run by itself is *)
(* a probe of its own: it tells whether a Synaptics branch is there.       *)
(*                                                                         *)
(* Docks can be plugged and unplugged while the three registers of a sink  *)
(* are read.  A sink that is not there, or no AUX node, answers nothing.   *)
(***************************************************************************)
EXTENDS Integers, Sequences

CONSTANTS
    Displays,   \* number of displays in the RM's mask
    Nodes,      \* number of drm_dp_aux nodes
    Answers,    \* what a sink can show of Trait, or Mute
    MaxChanges  \* bound: how often a sink changes during discovery

\* The OUI is Synaptics'; the chip id is 0x5000 or a little more; RC_CAP has bit 2.
Trait == {"syn", "vmm", "cap"}
Mute == {"mute"}
Prefer == {"auto", "nvrm", "drm", "probe"}

ASSUME HubDetectAssumption ==
    /\ Displays \in Nat /\ Nodes \in Nat /\ MaxChanges \in Nat
    /\ Mute \in Answers
    /\ Answers \subseteq (SUBSET Trait) \cup {Mute}

VARIABLES
    prefer,     \* --transport, or "probe": nvrm.probe
    pc,         \* the call made next
    at,         \* the display or node it is made for
    seen,       \* _probe: the answers so far
    world,      \* what every sink would answer now
    cands,      \* the candidates, in the order they were found
    handles,    \* the file descriptors open
    outcome,    \* what find_hub, or probe, returned or raised
    chosen,     \* the candidate it returned
    changes,    \* how often a sink changed
    \* history, never read by an action:
    steady,     \* the sinks that did not change
    unopened    \* the sinks the tool could not open

vars == <<prefer, pc, at, seen, world, cands, handles, outcome, chosen, changes,
          steady, unopened>>
found == <<outcome, chosen>>
env == <<prefer, world, changes, steady>>

Display(n) == [via |-> "nvrm", n |-> n]
Node(n)    == [via |-> "drm", n |-> n]
Sinks == {Display(n) : n \in 1 .. Displays} \cup {Node(n) : n \in 1 .. Nodes}

\* The RM client's two descriptors; the descriptor of a node is the node.
Ctl == [via |-> "ctl", n |-> 0]
Gpu == [via |-> "gpu", n |-> 0]
Client == {Ctl, Gpu}

Building == {"openctl", "enumerate", "opengpu", "attach", "masks"}
Error == {"OSError", "RuntimeError"}

\* A candidate of detect; _note makes one without a transport.
Cand(s, traits) == [sink |-> s, has |-> traits]
NoSink == [via |-> "none", n |-> 0]
Note == Cand(NoSink, {})

IsHub(c) == {"syn", "cap"} \subseteq c.has

Score(c) == (IF "syn" \in c.has THEN 5 ELSE 0) + (IF "vmm" \in c.has THEN 3 ELSE 0)
                + (IF "cap" \in c.has THEN 3 ELSE 0)

Init ==
    /\ prefer \in Prefer
    /\ pc = IF prefer = "drm" THEN "opennode" ELSE "openctl"
    /\ at = 1 /\ seen = <<>>
    /\ world \in [Sinks -> Answers]
    /\ cands = <<>> /\ handles = {}
    /\ outcome = "none" /\ chosen = Note
    /\ changes = 0 /\ steady = Sinks /\ unopened = {}
----------------------------------------------------------------------------
(* discover: the RM client                                                 *)

AfterNvrm == IF prefer = "auto" THEN "opennode" ELSE "pick"

\* Mutant: the error is raised again whatever --transport says.
RaiseAlways(e) ==
    /\ pc' = "end" /\ outcome' = e
    /\ UNCHANGED <<cands, chosen>>

\* A failure is raised again under --transport nvrm, and noted under auto; probe
\* exits with 2, but a failure of the masks is none of the constructor.
ClientFails(e) ==
    IF prefer \in {"nvrm", "probe"}
    THEN /\ pc' = "end"
         /\ outcome' = IF prefer = "probe" /\ pc # "masks" THEN "noclient" ELSE e
         /\ UNCHANGED <<cands, chosen>>
    ELSE /\ pc' = "opennode"
         /\ cands' = Append(cands, Note)
         /\ UNCHANGED found

\* open /dev/nvidiactl; root client, CARD_INFO, id info; open /dev/nvidiaN;
\* register it, device, subdevice, display; the two masks.
NextCall == [openctl |-> "enumerate", enumerate |-> "opengpu",
             opengpu |-> "attach", attach |-> "masks", masks |-> "display"]
Opens(p) == CASE p = "openctl" -> {Ctl} [] p = "opengpu" -> {Gpu} [] OTHER -> {}

\* open raises OSError; an ioctl raises OSError, or NvRmError for its status.
\* What was opened before a failure stays open; probe has the masks in its try.
BuildClient ==
    /\ pc \in Building
    /\ at' = 1
    /\ UNCHANGED <<env, seen>>
    /\ \/ /\ pc' = NextCall[pc]
          /\ handles' = handles \cup Opens(pc)
          /\ UNCHANGED <<cands, found, unopened>>
       \/ \E e \in Error :
             /\ Opens(pc) = {} \/ e = "OSError"
             /\ ClientFails(e)
             /\ unopened' = unopened \cup {s \in Sinks : s.via = "nvrm"}
             /\ handles' = IF prefer = "probe" /\ pc = "masks" THEN {} ELSE handles
----------------------------------------------------------------------------
(* _probe: three reads, any exception of which means no candidate; probe   *)
(* passes over a display only when the first fails.                        *)

Sink == IF pc = "display" THEN Display(at) ELSE Node(at)

\* What the sink says to the register read next.
Answer == <<"syn", "vmm", "cap">>[Len(seen) + 1] \in world[Sink]
Heard(answer) == (IF seen[1] THEN {"syn"} ELSE {}) \cup (IF seen[2] THEN {"vmm"} ELSE {})
                     \cup (IF answer THEN {"cap"} ELSE {})

Take(answer) ==
    IF Len(seen) < 2
    THEN seen' = Append(seen, answer) /\ UNCHANGED <<at, cands>>
    ELSE /\ seen' = <<>> /\ at' = at + 1
         /\ cands' = Append(cands, Cand(Sink, Heard(answer)))

ProbeAnswered == world[Sink] # Mute /\ Take(Answer)

PassOver == seen' = <<>> /\ at' = at + 1 /\ UNCHANGED cands

ProbeFailed ==
    /\ world[Sink] = Mute
    /\ IF prefer = "probe" /\ seen # <<>> THEN Take(FALSE) ELSE PassOver

Probe == ProbeAnswered \/ ProbeFailed

ProbeDisplay ==
    /\ pc = "display" /\ at <= Displays
    /\ Probe
    /\ UNCHANGED <<env, pc, handles, found, unopened>>

\* probe catches NvRmError alone: an ioctl that fails with OSError, or an empty
\* RC_CAP (cap[0]), ends it through its finally clause.
ProbeRaises ==
    /\ prefer = "probe" /\ pc = "display" /\ at <= Displays
    /\ pc' = "end" /\ handles' = handles \ Client
    /\ outcome' \in {"OSError"} \cup (IF Len(seen) = 2 THEN {"IndexError"} ELSE {})
    /\ UNCHANGED <<env, at, seen, cands, chosen, unopened>>

DisplaysDone ==
    /\ pc = "display" /\ at > Displays
    /\ pc' = AfterNvrm /\ at' = 1
    /\ UNCHANGED <<env, seen, cands, handles, found, unopened>>

\* DrmTransport(path); a node that cannot be opened is passed over.
OpenNode ==
    /\ pc = "opennode" /\ at <= Nodes
    /\ UNCHANGED <<env, seen, cands, found>>
    /\ \/ pc' = "node" /\ handles' = handles \cup {Node(at)} /\ UNCHANGED <<at, unopened>>
       \/ /\ at' = at + 1 /\ unopened' = unopened \cup {Node(at)}
          /\ UNCHANGED <<pc, handles>>

ProbeNode ==
    /\ pc = "node"
    /\ Probe
    /\ pc' = IF at' = at THEN "node" ELSE "opennode"
    /\ UNCHANGED <<env, handles, found, unopened>>

NodesDone ==
    /\ pc = "opennode" /\ at > Nodes
    /\ pc' = "pick"
    /\ UNCHANGED <<env, at, seen, cands, handles, found, unopened>>
----------------------------------------------------------------------------
(* find_hub, and the command that uses what it found                       *)

\* Mutant: the candidates are taken as they were found.
AsFound(i, k) == i < k

\* Candidate i sorts before candidate k: by score, then as found.
Before(i, k) ==
    \/ Score(cands[i]) > Score(cands[k])
    \/ Score(cands[i]) = Score(cands[k]) /\ i < k

Hubs == {i \in DOMAIN cands : IsHub(cands[i])}

\* probe: a Synaptics branch was seen, or not.
Verdict ==
    /\ pc = "pick" /\ prefer = "probe"
    /\ pc' = "end" /\ handles' = handles \ Client
    /\ outcome' = IF \E i \in DOMAIN cands : "syn" \in cands[i].has THEN "pass" ELSE "absent"
    /\ UNCHANGED <<env, at, seen, cands, chosen, unopened>>

Pick ==
    /\ pc = "pick" /\ prefer # "probe"
    /\ IF Hubs = {}
       THEN pc' = "end" /\ outcome' = "RuntimeError" /\ UNCHANGED chosen
       ELSE /\ pc' = "session" /\ outcome' = "found"
            /\ chosen' = cands[CHOOSE i \in Hubs :
                                  \A k \in Hubs \ {i} : Before(i, k)]
    /\ UNCHANGED <<env, at, seen, cands, handles, unopened>>

\* Mutant: the owner is forgotten.
HandlesOfNode(c) == {c.sink}

\* The owner, the RM client, when there is one, else the transport.
HandlesOf(c) == IF c.sink.via = "nvrm" THEN Client ELSE {c.sink}

\* cmd_slots and cmd_live close the candidate in their finally clause, however
\* the session ended.
CloseCandidate ==
    /\ pc = "session"
    /\ pc' = "end"
    /\ handles' = handles \ HandlesOf(chosen)
    /\ UNCHANGED <<env, at, seen, cands, found, unopened>>

\* A dock is plugged in, unplugged or replaced.
Replug ==
    /\ pc \notin {"pick", "session", "end"}
    /\ changes < MaxChanges
    /\ changes' = changes + 1
    /\ \E s \in Sinks : \E a \in Answers \ {world[s]} :
          world' = [world EXCEPT ![s] = a] /\ steady' = steady \ {s}
    /\ UNCHANGED <<prefer, pc, at, seen, cands, handles, found, unopened>>

Next ==
    \/ BuildClient \/ ProbeDisplay \/ ProbeRaises \/ DisplaysDone \/ Verdict
    \/ OpenNode \/ ProbeNode \/ NodesDone
    \/ Pick \/ CloseCandidate \/ Replug

Spec == Init /\ [][Next]_vars
----------------------------------------------------------------------------
(* Properties.                                                             *)

\* The place of a sink in the order of the search.
Place(c) == IF c.sink.via = "nvrm" THEN c.sink.n ELSE Displays + c.sink.n

\* The hubs that were there all the time, on a bus that is searched and through
\* a device that could be opened.
Searched(s) == prefer \in {"auto", s.via}
Answering == {s \in Sinks \cap steady : world[s] # Mute}
Reachable == {s \in Answering : /\ Searched(s) /\ s \notin unopened
                                /\ IsHub(Cand(s, world[s]))}

\* Such a hub is found, whatever the other backend, the other sinks and the
\* docks that come and go make of the search.  The probe misses no Synaptics
\* branch either, and unless docks come and go it sees none that is not there.
HubIsFound ==
    pc = "end" =>
        /\ Reachable # {} => outcome = "found"
        /\ outcome = "absent" => \A s \in Answering : s.via = "nvrm" => "syn" \notin world[s]
        /\ outcome = "pass" /\ changes = 0 => \E s \in Answering : "syn" \in world[s]

\* What is found is a hub, and the best of those: none scores higher, and none
\* with the same score stands before it.
ChosenIsBest ==
    outcome = "found" =>
        /\ chosen.sink \in steady => chosen.sink \in Reachable
        /\ \A s \in Reachable :
              \/ Score(chosen) > Score(Cand(s, world[s]))
              \/ /\ Score(chosen) = Score(Cand(s, world[s]))
                 /\ Place(chosen) <= Place(Cand(s, world[s]))

\* The hub is used over an open transport, which is closed in the end, though
\* one RM client serves all displays; what stays open until the process exits
\* belongs to sinks that were not chosen.  The probe closes what it opened, but for
\* a client that could not be built.
Needs(s) == IF s.via = "nvrm" THEN {Ctl, Gpu} ELSE {s}
HandlesInUse ==
    /\ pc = "session" => Needs(chosen.sink) \subseteq handles
    /\ pc = "end" /\ outcome = "found" => Needs(chosen.sink) \cap handles = {}
    /\ pc = "end" /\ prefer = "probe" /\ outcome # "noclient" => handles = {}
=============================================================================
