----------------------------- MODULE SlotTable -----------------------------
(***************************************************************************)
(* slots.read_slots over an AUX transport: the link configuration and the  *)
(* payload table are two reads, the table in bursts, while the source goes *)
(* on training the link and allocating payloads.  The transport serves any *)
(* other call as well: a run is one such call, or the reading of the slots.*)
(*                                                                         *)
(* In the table the version of a byte is the number of the allocation it   *)
(* belongs to: one allocation changes the whole table at once.             *)
(***************************************************************************)
EXTENDS DpcdTransport, FiniteSets

CONSTANTS
    LinkStart,      \* DPCD_LINK_BW_SET
    TableStart,     \* DPCD_PAYLOAD_TABLE
    Slots,          \* PAYLOAD_SLOTS
    Ids             \* the stream ids; 0 is a free slot

ASSUME SlotTableAssumption ==
    /\ LinkStart \in Nat /\ TableStart \in Nat /\ Slots \in Nat \ {0} /\ 0 \in Ids
    /\ LinkStart + 2 <= TableStart /\ TableStart + Slots - 1 <= Top

VARIABLES
    stage,      \* "call", or what read_slots reads: "link", "table", "shown"
    link,       \* the link configuration read, and whether a reply to it was short
    allocs      \* the allocations so far: the version v is allocs[v + 1]

slots == <<stage, link, allocs>>

LinkBytes  == LinkStart .. LinkStart + 1
TableBytes == TableStart .. TableStart + Slots - 1

\* A source packs the payloads from the first slot on, each in one piece.
Packed(t) ==
    \A i, k \in TableBytes : i < k =>
        /\ t[i] = 0 => t[k] = 0
        /\ t[i] = t[k] => \A j \in i .. k : t[j] = t[i]
Tables == {t \in [TableBytes -> Ids] : Packed(t)}

ReadCall(start, n) == [op |-> "read", start |-> start, len |-> n]

SlotsInit ==
    /\ Init
    /\ link = [bytes |-> <<>>, cut |-> FALSE] /\ allocs \in {<<t>> : t \in Tables}
    /\ \/ stage = "call" /\ allocs = <<[a \in TableBytes |-> 0]>>
       \/ stage = "link" /\ call = ReadCall(LinkStart, 2)

\* Mutant: the slot of the header is counted as one of the table.
TableCallWithHeader == ReadCall(TableStart, Slots - 1)

TableCall == ReadCall(TableStart, Slots)

\* The link has been read: link[0] and link[1] raise IndexError when they are not
\* there, and the second read begins.
ReadTable ==
    /\ stage = "link" /\ status = "done"
    /\ UNCHANGED <<backend, dpcd, allocs, beat>>
    /\ IF Len(out) < 2
       THEN /\ status' = "raised" /\ out' = <<>>
            /\ UNCHANGED <<stage, link, call, addr, left, since, cut>>
       ELSE /\ stage' = "table" /\ link' = [bytes |-> out, cut |-> cut]
            /\ call' = TableCall /\ addr' = call'.start /\ left' = call'.len
            /\ out' = <<>> /\ status' = "busy"
            /\ since' = [a \in Address |-> {dpcd[a]}] /\ cut' = FALSE

Show ==
    /\ stage = "table" /\ status = "done"
    /\ stage' = "shown"
    /\ UNCHANGED <<vars, link, allocs>>

Change(bytes) ==
    /\ \A a \in bytes : dpcd[a] < MaxVersion
    /\ dpcd' = [a \in Address |-> IF a \in bytes THEN dpcd[a] + 1 ELSE dpcd[a]]
    /\ since' = [a \in Address |-> since[a] \cup {dpcd'[a]}]
    /\ UNCHANGED <<backend, call, addr, left, out, status, cut, beat, stage, link>>

\* The source, while the slots are read: it trains the link, or it allocates.
Train == stage \in {"link", "table"} /\ Change(LinkBytes) /\ UNCHANGED allocs
Allocate ==
    /\ stage \in {"link", "table"} /\ Change(TableBytes)
    /\ \E t \in Tables \ {allocs[Len(allocs)]} : allocs' = Append(allocs, t)

SlotsNext ==
    \/ (Transfer \/ Fails) /\ UNCHANGED slots
    \/ stage = "call" /\ HubWrites /\ UNCHANGED slots
    \/ ReadTable \/ Show \/ Train \/ Allocate

SlotsSpec ==
    /\ SlotsInit /\ [][SlotsNext]_<<vars, slots>>
    /\ WF_<<vars, slots>>(Transfer /\ UNCHANGED slots)
    /\ WF_<<vars, slots>>(ReadTable \/ Show)
----------------------------------------------------------------------------
(* Properties.                                                             *)

\* counts() of the table read, and free slots; allocated is what is not free.
Id(b) == allocs[b[2] + 1][b[1]]
Counts(vc) == Cardinality({i \in DOMAIN out : Id(out[i]) = vc})
Allocated == Slots - Counts(0)

\* The slots a stream held in an allocation that was in force during the read.
During == UNION {since[a] : a \in TableBytes}
HeldBy(vc, v) == {a \in TableBytes : allocs[v + 1][a] = vc}

\* slots.py:61: the table can mix allocations, but unless a reply was short a
\* stream that kept its slots while the table was read is counted right, whatever
\* is allocated around it, and the slots shown as allocated are those of streams.
\* The two bytes of the link belong together, though not to the table, unless it
\* took a second transaction to get them.
SlotsAreCounted ==
    stage = "shown" =>
        /\ link.cut \/ link.bytes[1][2] = link.bytes[2][2]
        /\ ~cut => \A vc \in Ids :
              (\A v, w \in During : HeldBy(vc, v) = HeldBy(vc, w)) =>
                  \A v \in During : Counts(vc) = Cardinality(HeldBy(vc, v))
        /\ ~cut => Allocated = Cardinality({i \in DOMAIN out : Id(out[i]) # 0})

\* Every call returns or raises, with the drm backend because an empty reply ends
\* it, with the nvrm backend because one is counted as full; and so does read_slots.
SlotsEnd ==
    IF stage = "call" THEN <>(status # "busy") ELSE <>(stage = "shown" \/ status = "raised")
=============================================================================
