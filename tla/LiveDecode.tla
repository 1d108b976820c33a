----------------------------- MODULE LiveDecode -----------------------------
(***************************************************************************)
(* A report of vmmdump on a live hub (decode.py): the registers are read   *)
(* in chunks of one data window, each a command of its own, while sources  *)
(* and monitors go on reconfiguring the chip; then decode_all makes the    *)
(* summary of what came.                                                   *)
(*                                                                         *)
(* A unit of the chip is in one mode at a time and each of its registers   *)
(* shows the mode: "off" stands for zero (and, in the control word of DSC, *)
(* for the values whose enable bit is clear), "idle" for the marker        *)
(* FEEDB001 of a unit not in use, the others for what a running unit       *)
(* holds.  A register is a unit and a word offset in it.  Registers the    *)
(* decoder does not look at, and those that stand alone (the slot count,   *)
(* the build stamp), are left out.                                         *)
(***************************************************************************)
EXTENDS Integers, Sequences, FiniteSetsExt

CONSTANTS
    Window,     \* words of a chunk (UNIT_SIZE: 16 bytes)
    MaxLive,    \* bound: units that are not off to begin with
    MaxChanges  \* bound: reconfigurations during the read

ASSUME LiveAssumption ==
    /\ Window \in Nat \ {0}
    /\ MaxLive \in Nat /\ MaxChanges \in Nat

VARIABLES
    plan,       \* "summary": DECODE_SPANS;  "dump": the list of dump.txt
    mode,       \* the chip: the mode of each unit
    todo,       \* the chunks still to be read
    got,        \* regs: the registers read so far
    status,     \* "reading", "done" or "raised"
    changes,    \* reconfigurations so far
    held        \* history: the modes each unit had since the read began

liveVars == <<plan, mode, todo, got, status, changes, held>>

Plan  == {"summary", "dump"}
Index == 0 .. 2
Unit  == ({"rfrm", "dsc", "tx"} \X Index) \cup {<<"rx", 0>>}
Dark  == {"off", "idle"}
Mode(u) == Dark \cup (IF u[1] = "tx" THEN {"dp", "hdmi"} ELSE {"on"})

\* The words decode_all looks at: +0x30 .. +0x3C, and so on.
TimingWords  == 12 .. 15
ParamWords   == 2 .. 5
TxTimingWords == {50, 52}
Decoded(u) ==
    CASE u[1] = "rfrm" -> {0} \cup TimingWords
      [] u[1] = "dsc"  -> {0} \cup ParamWords
      [] u[1] = "tx"   -> {0, 20} \cup TxTimingWords
      [] OTHER         -> {0, 496}
Register == UNION {{<<u, w>> : w \in Decoded(u)} : u \in Unit}

\* An HDMI output omits its timing.
Shown(u, w, m) == IF m = "hdmi" /\ w \in TxTimingWords THEN "off" ELSE m
Chip == [r \in Register |-> Shown(r[1], r[2], mode[r[1]])]

----------------------------------------------------------------------------
(* What is read: spans of a unit, a first word and a number of words.      *)

RxSpans == <<<<<<"rx", 0>>, 0, 1>>, <<<<"rx", 0>>, 496, 1>>>>

\* Mutant: the timing of an output is read as two spans.
OutputInTwo(i) == <<<<<<"tx", i>>, 0, 1>>, <<<<"tx", i>>, 20, 1>>,
                    <<<<"tx", i>>, 50, 1>>, <<<<"tx", i>>, 52, 1>>>>

Stream(i, dsc) == <<<<<<"rfrm", i>>, 0, 17>>, <<<<"dsc", i>>, 0, dsc>>>>
Output(i) == <<<<<<"tx", i>>, 0, 1>>, <<<<"tx", i>>, 20, 1>>, <<<<"tx", i>>, 50, 3>>>>

\* DECODE_SPANS: of the second and third stream only the DSC control word, of
\* the second output nothing.
SummarySpans ==
    RxSpans \o Stream(0, 6) \o Stream(1, 1) \o Stream(2, 1) \o Output(0) \o Output(2)

\* The runs that coalesce() makes of the addresses in dump.txt.
DumpStream(i) == <<<<<<"rfrm", i>>, 0, 7>>, <<<<"rfrm", i>>, 8, 37>>, <<<<"dsc", i>>, 0, 32>>>>
DumpOutput(i) == <<<<<<"tx", i>>, 0, 10>>, <<<<"tx", i>>, 11, 11>>, <<<<"tx", i>>, 24, 47>>>>
DumpSpans ==
    <<<<<<"rx", 0>>, 0, 4>>, <<<<"rx", 0>>, 496, 10>>>>
    \o DumpStream(0) \o DumpStream(1) \o DumpStream(2)
    \o DumpOutput(0) \o DumpOutput(1) \o DumpOutput(2)

Spans == [p \in Plan |-> IF p = "summary" THEN SummarySpans ELSE DumpSpans]

\* Mutant: only the full chunks of a span are read.
FullChunksOf(s) == 0 .. s[3] \div Window - 1

\* A span is read in chunks from its first word on.
ChunksOf(s) == 0 .. (s[3] - 1) \div Window

\* The words of chunk number k that the decoder looks at.
Words(s, k) ==
    {<<s[1], w>> : w \in {v \in Decoded(s[1]) :
        s[2] + k * Window <= v /\ v < s[2] + (k + 1) * Window /\ v < s[2] + s[3]}}

\* The chunks in the order in which they are read, each a span and a number in it.
\* Those without a word that is decoded leave no trace and are passed over.
ChunksOfPlan ==
    [p \in Plan |-> UNION {{<<j, k>> : k \in {h \in ChunksOf(Spans[p][j]) : Words(Spans[p][j], h) # {}}} :
                              j \in DOMAIN Spans[p]}]
Chunk(c) == Words(Spans[plan][c[1]], c[2])
Earlier(c, d) == c[1] < d[1] \/ (c[1] = d[1] /\ c[2] < d[2])

LiveInit ==
    /\ plan \in Plan
    /\ \E live \in UNION {kSubset(k, Unit) : k \in 0 .. MaxLive} :
          \E on \in [live -> {"idle", "on", "dp", "hdmi"}] :
             /\ \A u \in live : on[u] \in Mode(u)
             /\ mode = [u \in Unit |-> IF u \in live THEN on[u] ELSE "off"]
    /\ todo = ChunksOfPlan[plan] /\ got = <<>> /\ status = "reading" /\ changes = 0
    /\ held = [u \in Unit |-> {mode[u]}]

\* read_decode_regs, dump_registers: one chunk, as the chip is at that moment.
ReadChunk ==
    /\ status = "reading"
    /\ \E c \in todo :
          /\ \A d \in todo \ {c} : Earlier(c, d)
          /\ got' = [r \in DOMAIN got \cup Chunk(c) |-> IF r \in Chunk(c) THEN Chip[r] ELSE got[r]]
          /\ todo' = todo \ {c}
    /\ UNCHANGED <<plan, mode, status, changes, held>>

\* A command that fails ends the whole report.
ChunkFails ==
    /\ status = "reading" /\ todo # {}
    /\ status' = "raised"
    /\ UNCHANGED <<plan, mode, todo, got, changes, held>>

Decode ==
    /\ status = "reading" /\ todo = {}
    /\ status' = "done"
    /\ UNCHANGED <<plan, mode, todo, got, changes, held>>

\* A source, or a monitor, changes what a unit does.
Reconfigure ==
    /\ status = "reading" /\ changes < MaxChanges
    /\ \E u \in Unit : \E m \in Mode(u) \ {mode[u]} :
          /\ mode' = [mode EXCEPT ![u] = m]
          /\ held' = [held EXCEPT ![u] = @ \cup {m}]
    /\ changes' = changes + 1
    /\ UNCHANGED <<plan, todo, got, status>>

LiveNext == ReadChunk \/ ChunkFails \/ Decode \/ Reconfigure
LiveSpec == LiveInit /\ [][LiveNext]_liveVars
----------------------------------------------------------------------------
(* decode_all: a register that was not read counts as zero.                *)

Get(f, u, w) == IF <<u, w>> \in DOMAIN f THEN f[<<u, w>>] ELSE "off"

ReadTiming(f, i) == [w \in TimingWords |-> Get(f, <<"rfrm", i>>, w)]

\* HA and VA are not zero; those of the idle marker are not.
Active(t) == t[14] # "off"

\* Bit 25 of the control word, which the idle marker has.
Enabled(w) == w # "off"

ReadDsc(f, i) ==
    LET enabled == Enabled(Get(f, <<"dsc", i>>, 0))
    IN  [enabled |-> enabled,
         params  |-> [w \in ParamWords |->
                         IF enabled THEN Get(f, <<"dsc", i>>, w) ELSE "off"]]

Idle(f, u) == Get(f, u, 0) \in Dark \/ Get(f, u, 20) \in Dark

ReadTx(f, i) ==
    LET u == <<"tx", i>>
        none == [w \in TxTimingWords |-> "off"]
    IN  IF Idle(f, u) THEN [kind |-> "off", timing |-> none]
        ELSE [kind   |-> Get(f, u, 20),
              timing |-> IF Get(f, u, 50) \in Dark THEN none
                         ELSE [w \in TxTimingWords |-> Get(f, u, w)]]

ReadRxLink(f) == [lanes |-> Get(f, <<"rx", 0>>, 0), rate |-> Get(f, <<"rx", 0>>, 496)]

ReadStream(f, i) ==
    LET t == ReadTiming(f, i)
    IN  [active |-> Active(t), ctrl |-> Get(f, <<"rfrm", i>>, 0), timing |-> t,
         dsc |-> ReadDsc(f, i)]
----------------------------------------------------------------------------
(* Properties.                                                             *)

Summarized == status = "done"
Steady(u) == held[u] = {mode[u]}

\* The timing of a stream is one the stream had at a single moment, whatever
\* changed while it was read: read_timing's four words lie in one chunk.  So is
\* the timing of an output with DECODE_SPANS.  With the list of dump.txt it is
\* not: there VT/HT end one chunk and VA/HA begin the next.
TimingUntorn ==
    Summarized => \A i \in Index :
        /\ \E m \in held[<<"rfrm", i>>] : ReadTiming(got, i) = [w \in TimingWords |-> m]
        /\ plan = "summary" => LET t == ReadTx(got, i).timing IN t[50] = t[52]

\* decode.py:192: of a unit that kept its mode the report says what the mode is,
\* whatever the others did: with the list of dump.txt of every one, with
\* DECODE_SPANS of the trunk, the streams, whether they are compressed, how the
\* first one is, and the first and third output; the second output is then
\* reported off whatever it does.  An output that bears the idle marker is
\* reported off too; a stream that bears it is reported active, and its
\* compression on, with the marker's halves for a timing.
CompressionShown == IF plan = "dump" THEN Index ELSE {0}
OutputsShown     == IF plan = "dump" THEN Index ELSE {0, 2}
OutputIn(m) ==
    [kind   |-> IF m \in Dark THEN "off" ELSE m,
     timing |-> [w \in TxTimingWords |-> IF m = "dp" THEN m ELSE "off"]]
SteadyIsShown ==
    Summarized =>
        /\ Steady(<<"rx", 0>>) =>
              ReadRxLink(got) = [lanes |-> mode[<<"rx", 0>>], rate |-> mode[<<"rx", 0>>]]
        /\ \A i \in Index :
              /\ Steady(<<"rfrm", i>>) =>
                    LET s == ReadStream(got, i)
                        m == mode[<<"rfrm", i>>]
                    IN  /\ s.ctrl = m /\ s.timing = [w \in TimingWords |-> m]
                        /\ s.active = (m # "off")
              /\ Steady(<<"dsc", i>>) =>
                    ReadDsc(got, i).enabled = (mode[<<"dsc", i>>] # "off")
        /\ \A i \in CompressionShown :
              Steady(<<"dsc", i>>) =>
                    ReadDsc(got, i).params = [w \in ParamWords |-> mode[<<"dsc", i>>]]
        /\ \A i \in OutputsShown :
              Steady(<<"tx", i>>) => ReadTx(got, i) = OutputIn(mode[<<"tx", i>>])
        /\ plan = "summary" => ReadTx(got, 1).kind = "off"
=============================================================================
