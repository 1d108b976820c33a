--------------------------- MODULE DpcdTransport ---------------------------
(***************************************************************************)
(* The two AUX transports of vmmdump (transport/nvrm.py, transport/drm.py):*)
(* a DPCD access of any length is cut into bursts, one native transaction  *)
(* each, while the hub goes on changing its DPCD between two bursts.  A    *)
(* transaction can fail, and can move fewer bytes than it was asked to.    *)
(* One of the two classes is in use, chosen when the tool starts.          *)
(*                                                                         *)
(* The byte at address a is the pair of a and the version the hub gave it: *)
(* it says where, and how long ago, it was read.                           *)
(***************************************************************************)
EXTENDS Integers, Sequences

CONSTANTS
    Burst,          \* bytes of one native transaction (16)
    Top,            \* the last DPCD address
    MaxVersion      \* bound: how often the hub changes a byte

ASSUME ConstantsAssumption ==
    /\ Burst \in Nat \ {0} /\ Top \in Nat /\ MaxVersion \in Nat

VARIABLES
    backend,    \* NvRmTransport or DrmTransport
    dpcd,       \* the hub's DPCD: a version for each address
    call,       \* the call in progress: operation, start, length
    addr,       \* read_dpcd: addr;  write_dpcd: addr + i
    left,       \* read_dpcd: length;  write_dpcd: len(data) - i
    out,        \* read_dpcd: the bytes collected
    status,     \* "busy", "done" or "raised"
    \* history:
    since,      \* the versions each address had since the call began
    cut,        \* a transaction of the call was short
    beat        \* flips at each transaction, one that moves nothing included

vars == <<backend, dpcd, call, addr, left, out, status, since, cut, beat>>

Address == 0 .. Top
Written == -1       \* what a write leaves in place of the hub's version
Version == 0 .. MaxVersion
Span == {[op |-> o, start |-> s, len |-> n] :
            o \in {"read", "write"}, s \in Address, n \in 1 .. Top + 1}
Calls == {c \in Span : c.start + c.len - 1 <= Top}

TypeOK ==
    /\ backend \in {"nvrm", "drm"}
    /\ dpcd \in [Address -> Version \cup {Written}]
    /\ call \in Calls
    /\ addr \in 0 .. Top + 1 /\ left \in 0 .. Top + 1
    /\ out \in Seq(Address \X (Version \cup {Written}))
    /\ status \in {"busy", "done", "raised"}
    /\ since \in [Address -> SUBSET (Version \cup {Written})]
    /\ cut \in BOOLEAN /\ beat \in BOOLEAN

Init ==
    /\ backend \in {"nvrm", "drm"}
    /\ dpcd = [a \in Address |-> 0]
    /\ call \in Calls
    /\ addr = call.start /\ left = call.len /\ out = <<>>
    /\ status = "busy"
    /\ since = [a \in Address |-> {0}]
    /\ cut = FALSE /\ beat = FALSE

Asked == IF left < Burst THEN left ELSE Burst

\* What a transaction asked for n bytes may move.
Moves(n) == 0 .. n

Bytes(k) == [i \in 1 .. k |-> <<addr + i - 1, dpcd[addr + i - 1]>>]

\* Mutants: a drm loop that counts as the nvrm loop does, or that does not
\* notice an empty reply; a write that is never moved on.
AdvanceByAsked(k)    == Asked
NeverStops(k)        == FALSE
TargetFromStart(k)   == call.start .. call.start + k - 1

\* nvrm advances by what it asked for, drm by what came; drm stops at an
\* empty reply.
Advance(k) == IF backend = "nvrm" THEN Asked ELSE k
StopsAt(k) == backend = "drm" /\ k = 0

ReadBurst ==
    /\ status = "busy" /\ call.op = "read" /\ left > 0
    /\ \E k \in Moves(Asked) :
          /\ out' = out \o Bytes(k)
          /\ cut' = (cut \/ k < Asked)
          /\ addr' = addr + Advance(k)
          /\ left' = left - Advance(k)
          /\ status' = IF StopsAt(k) \/ left' = 0 THEN "done" ELSE "busy"
    /\ beat' = ~beat
    /\ UNCHANGED <<backend, dpcd, call, since>>

Target(k) == addr .. addr + k - 1

\* Neither backend looks at how much a write moved.
WriteBurst ==
    /\ status = "busy" /\ call.op = "write" /\ left > 0
    /\ \E k \in Moves(Asked) :
          /\ dpcd' = [a \in Address |->
                        IF a \in Target(k) THEN Written ELSE dpcd[a]]
          /\ cut' = (cut \/ k < Asked)
    /\ addr' = addr + Asked
    /\ left' = left - Asked
    /\ status' = IF left' = 0 THEN "done" ELSE "busy"
    /\ since' = [a \in Address |-> since[a] \cup {dpcd'[a]}]
    /\ beat' = ~beat
    /\ UNCHANGED <<backend, call, out>>

\* NvRmError, OSError: the bytes collected so far are lost.
Fails ==
    /\ status = "busy"
    /\ status' = "raised" /\ out' = <<>>
    /\ UNCHANGED <<backend, dpcd, call, addr, left, since, cut, beat>>

\* The hub's firmware changes a byte of a call that reads.
HubWrites ==
    /\ status = "busy" /\ call.op = "read"
    /\ \E a \in Address :
          /\ dpcd[a] < MaxVersion
          /\ dpcd' = [dpcd EXCEPT ![a] = @ + 1]
          /\ since' = [since EXCEPT ![a] = @ \cup {dpcd'[a]}]
    /\ UNCHANGED <<backend, call, addr, left, out, status, cut, beat>>

Transfer == ReadBurst \/ WriteBurst
Next == Transfer \/ Fails \/ HubWrites

\* The calling program goes on; that the hub falls silent for good is left out.
Spec == Init /\ [][Next]_vars /\ WF_vars(Transfer)
----------------------------------------------------------------------------
(* Properties.                                                             *)

Exact(n) ==
    \A i \in 1 .. n : /\ out[i][1] = call.start + i - 1
                      /\ out[i][2] \in since[out[i][1]]

\* base.py:26: as long as no transaction of the call was short, what a read
\* returns is the span, in order and without a gap, each byte as it was at some
\* moment of the call.  The drm backend loses nothing when one was: at every
\* moment of the call it has a gapless prefix of the span.
ReadsSpan ==
    call.op = "read" =>
        /\ status = "done" /\ ~cut => Len(out) = call.len /\ Exact(call.len)
        /\ backend = "drm" \/ ~cut => Len(out) <= call.len /\ Exact(Len(out))

\* base.py:30: after a write that returned the span holds the data, unless a
\* transaction was short, and no write ever reaches an address outside its span.
WritesSpan ==
    LET span == call.start .. call.start + call.len - 1
    IN  /\ call.op = "write" /\ status = "done" /\ ~cut => \A a \in span : dpcd[a] = Written
        /\ \A a \in Address : dpcd[a] = Written => call.op = "write" /\ a \in span
=============================================================================
