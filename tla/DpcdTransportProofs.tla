------------------------ MODULE DpcdTransportProofs ------------------------
(***************************************************************************)
(* Proofs about the AUX transports: what a read returns and what a write   *)
(* covers, for any burst, any DPCD and any number of changes of it, for a  *)
(* single call and for the two calls of read_slots.                        *)
(***************************************************************************)
EXTENDS SlotTable, TLAPS, FiniteSetTheorems

Versions == Version \cup {Written}
Pairs == Address \X Versions

\* The place in a call: addr goes along with left.
Placed == left <= call.len /\ addr = call.start + call.len - left

\* What has been written is the part of the span behind addr, and nothing else.
WrittenBehind ==
    /\ call.op = "write" /\ ~cut => \A a \in call.start .. addr - 1 : dpcd[a] = Written
    /\ \A a \in Address : dpcd[a] = Written => /\ call.op = "write"
                                               /\ a \in call.start .. call.start + call.len - 1

\* What has been collected ends at addr, unless the bytes came short with the nvrm
\* backend; when a call raises they are lost.
CollectedBehind ==
    call.op = "read" /\ (backend = "drm" \/ ~cut) =>
        /\ status # "raised" => Len(out) = addr - call.start
        /\ status = "raised" => out = <<>>
        /\ Exact(Len(out))

\* A call that is done has nothing left, but for a read that an empty reply ended.
DoneIsDone == status = "done" => left = 0 \/ (call.op = "read" /\ cut)

TransportInv ==
    /\ TypeOK /\ Placed /\ WrittenBehind /\ CollectedBehind /\ DoneIsDone
    /\ \A a \in Address : dpcd[a] \in since[a]
-----------------------------------------------------------------------------
(* A burst appended to the bytes collected.                                *)

LEMMA Appended ==
    ASSUME NEW S, NEW s \in Seq(S), NEW k \in Nat, NEW b \in [1 .. k -> S]
    PROVE  /\ s \o b \in Seq(S) /\ Len(s \o b) = Len(s) + k
           /\ \A i \in 1 .. Len(s) : (s \o b)[i] = s[i]
           /\ \A i \in Len(s) + 1 .. Len(s) + k : (s \o b)[i] = b[i - Len(s)]
<1>1. b \in Seq(S) /\ Len(b) = k
  OBVIOUS
<1> QED
  BY <1>1

\* What a call asks of a transaction is at least one byte and no more than is left.
LEMMA AskedBounds ==
    ASSUME TypeOK, left > 0 PROVE Asked \in 1 .. left
BY ConstantsAssumption DEF TypeOK, Asked

\* A transaction stays inside the span, and the span inside the DPCD.
LEMMA CallBounds ==
    ASSUME TypeOK
    PROVE  /\ call.op \in {"read", "write"} /\ call.start \in Address /\ call.start \in Nat
           /\ call.len \in 1 .. Top + 1 /\ call.len \in Nat /\ call.start + call.len - 1 <= Top
           /\ addr \in Nat /\ left \in Nat /\ Top \in Nat /\ Address = 0 .. Top
BY ConstantsAssumption DEF TypeOK, Calls, Span, Address

LEMMA InitIsRight == Init => TransportInv
<1> SUFFICES ASSUME Init PROVE TransportInv
  OBVIOUS
<1>1. TypeOK
  <2>1. call \in Calls /\ call.start \in 0 .. Top /\ call.len \in 1 .. Top + 1
    BY DEF Init, Calls, Span, Address
  <2>2. 0 \in Versions
    BY ConstantsAssumption DEF Versions, Version
  <2>3. dpcd \in [Address -> Versions] /\ since \in [Address -> SUBSET Versions]
    BY <2>2 DEF Init
  <2>4. addr \in 0 .. Top + 1 /\ left \in 0 .. Top + 1
    BY <2>1, ConstantsAssumption DEF Init
  <2>5. out \in Seq(Pairs)
    BY DEF Init
  <2> QED
    BY <2>1, <2>3, <2>4, <2>5 DEF Init, TypeOK, Versions, Pairs
<1>2. Placed /\ DoneIsDone
  BY <1>1, CallBounds DEF Init, Placed, DoneIsDone
<1>3. WrittenBehind
  BY <1>1, CallBounds DEF Init, WrittenBehind, Written, Address
<1>4. CollectedBehind
  BY <1>1, CallBounds DEF Init, CollectedBehind, Exact
<1>5. \A a \in Address : dpcd[a] \in since[a]
  BY DEF Init
<1> QED
  BY <1>1, <1>2, <1>3, <1>4, <1>5 DEF TransportInv

-----------------------------------------------------------------------------
(* The steps of a call.                                                    *)

\* A read moves on: by what came with the drm backend, by what it asked with nvrm.
LEMMA AdvanceBounds ==
    ASSUME TypeOK, left > 0, NEW k \in Moves(Asked)
    PROVE  /\ Advance(k) \in 0 .. left /\ Advance(k) \in Nat /\ k \in Nat /\ k <= left
           /\ Asked \in Nat /\ Asked > 0 /\ k <= Asked
           /\ backend = "drm" \/ ~(k < Asked) => Advance(k) = k
BY AskedBounds, CallBounds DEF Moves, Advance

\* The bytes of a transaction are those of the DPCD from addr on.
LEMMA BytesAreTyped ==
    ASSUME TypeOK, Placed, NEW k \in Nat, k <= left
    PROVE  /\ Bytes(k) \in [1 .. k -> Pairs]
           /\ \A i \in 1 .. k : /\ Bytes(k)[i] = <<addr + i - 1, dpcd[addr + i - 1]>>
                                /\ addr + i - 1 \in Address
<1>1. \A i \in 1 .. k : addr + i - 1 \in Address
  BY CallBounds DEF Placed
<1>2. \A x \in Address : <<x, dpcd[x]>> \in Pairs
  BY DEF TypeOK, Pairs, Versions
<1>3. \A i \in 1 .. k : <<addr + i - 1, dpcd[addr + i - 1]>> \in Pairs
  BY <1>1, <1>2
<1> QED
  BY <1>1, <1>3 DEF Bytes

\* A call stays placed when addr and left move on together.
LEMMA MovesOn ==
    ASSUME TypeOK, Placed, NEW d \in 0 .. left,
           addr' = addr + d, left' = left - d, call' = call
    PROVE  Placed' /\ addr' \in 0 .. Top + 1 /\ left' \in 0 .. Top + 1
<1>1. PICK s \in Nat, n \in Nat, x \in Nat, l \in Nat, T \in Nat :
          s = call.start /\ n = call.len /\ x = addr /\ l = left /\ T = Top
  BY CallBounds
<1>2. l <= n /\ x = s + n - l /\ s + n - 1 <= T /\ d \in 0 .. l
  BY <1>1, CallBounds DEF Placed
<1>3. x + d \in 0 .. T + 1 /\ l - d \in 0 .. T + 1 /\ l - d <= n /\ x + d = s + n - (l - d)
  BY <1>1, <1>2
<1> QED
  BY <1>1, <1>3 DEF Placed

LEMMA ReadBurstKeeps == ASSUME TransportInv, ReadBurst PROVE TransportInv'
<1>1. PICK k \in Moves(Asked) :
          /\ out' = out \o Bytes(k)
          /\ cut' = (cut \/ k < Asked)
          /\ addr' = addr + Advance(k)
          /\ left' = left - Advance(k)
          /\ status' = IF StopsAt(k) \/ left' = 0 THEN "done" ELSE "busy"
  BY DEF ReadBurst
<1>2. /\ status = "busy" /\ call.op = "read" /\ left > 0 /\ beat' = ~beat
      /\ backend' = backend /\ dpcd' = dpcd /\ call' = call /\ since' = since
  BY DEF ReadBurst
<1>3. /\ TypeOK /\ Placed /\ WrittenBehind /\ CollectedBehind
      /\ \A a \in Address : dpcd[a] \in since[a]
  BY DEF TransportInv
<1>4. /\ Advance(k) \in 0 .. left /\ Advance(k) \in Nat /\ k \in Nat /\ k <= left
      /\ backend = "drm" \/ ~(k < Asked) => Advance(k) = k
  BY <1>2, <1>3, AdvanceBounds
<1>5. Placed' /\ addr' \in 0 .. Top + 1 /\ left' \in 0 .. Top + 1
  BY <1>1, <1>2, <1>3, <1>4, MovesOn
<1>6. out \in Seq(Pairs)
  BY <1>3 DEF TypeOK, Pairs, Versions
<1>7. /\ Bytes(k) \in [1 .. k -> Pairs]
      /\ \A i \in 1 .. k : /\ Bytes(k)[i] = <<addr + i - 1, dpcd[addr + i - 1]>>
                           /\ addr + i - 1 \in Address
  BY <1>3, <1>4, BytesAreTyped
<1>8. /\ out' \in Seq(Pairs) /\ Len(out') = Len(out) + k
      /\ \A i \in 1 .. Len(out) : out'[i] = out[i]
      /\ \A i \in Len(out) + 1 .. Len(out) + k : out'[i] = Bytes(k)[i - Len(out)]
  BY <1>1, <1>4, <1>6, <1>7, Appended
<1>9. TypeOK'
  <2>1. status' \in {"busy", "done", "raised"} /\ cut' \in BOOLEAN /\ beat' \in BOOLEAN
    BY <1>1, <1>2, <1>3 DEF TypeOK
  <2> QED
    BY <1>2, <1>3, <1>5, <1>8, <2>1 DEF TypeOK, Pairs, Versions
<1>10. WrittenBehind'
  BY <1>2, <1>3 DEF WrittenBehind
<1>11. CollectedBehind'
  <2> SUFFICES ASSUME backend = "drm" \/ ~cut' 
               PROVE  Len(out') = addr' - call.start /\ Exact(Len(out))'
    <3>1. status' # "raised"
      BY <1>1
    <3> QED
      BY <3>1, <1>2 DEF CollectedBehind
  <2>1. backend = "drm" \/ ~cut
    BY <1>1
  <2>2. Advance(k) = k
    BY <1>1, <1>4
  <2>3. Len(out) = addr - call.start /\ Exact(Len(out))
    BY <2>1, <1>2, <1>3 DEF CollectedBehind
  <2>4. Len(out') = addr' - call.start
    BY <1>1, <1>4, <1>8, <2>2, <2>3, <1>3, CallBounds
  <2>5. ASSUME NEW i \in 1 .. Len(out')
        PROVE  out'[i][1] = call.start + i - 1 /\ out'[i][2] \in since[out'[i][1]]
    <3>1. Len(out) \in Nat
      BY <1>6
    <3>2. CASE i \in 1 .. Len(out)
      BY <3>2, <1>8, <2>3 DEF Exact
    <3>3. CASE i \in Len(out) + 1 .. Len(out) + k
      <4>1. i - Len(out) \in 1 .. k
        BY <3>1, <3>3, <1>4
      <4>2. out'[i] = Bytes(k)[i - Len(out)]
        BY <3>3, <1>8
      <4>3. out'[i] = <<addr + (i - Len(out)) - 1, dpcd[addr + (i - Len(out)) - 1]>>
            /\ addr + (i - Len(out)) - 1 \in Address
        BY <4>1, <4>2, <1>7
      <4>4. addr + (i - Len(out)) - 1 = call.start + i - 1
        <5>1. addr \in Nat /\ call.start \in Nat /\ i \in Int
          BY <1>3, CallBounds, <3>1, <1>4, <3>3
        <5> QED
          BY <5>1, <2>3, <3>1
      <4> QED
        BY <4>3, <4>4, <1>3
    <3> QED
      BY <3>1, <3>2, <3>3, <1>4, <1>8
  <2>6. Exact(Len(out))'
    BY <1>2, <2>5 DEF Exact
  <2> QED
    BY <2>4, <2>6
<1>12. DoneIsDone'
  <2> SUFFICES ASSUME status' = "done", left' # 0 PROVE cut'
    BY <1>2 DEF DoneIsDone
  <2>1. k = 0
    BY <1>1 DEF StopsAt
  <2>2. Asked \in Nat /\ Asked > 0
    BY <1>2, <1>3, AdvanceBounds
  <2> QED
    BY <1>1, <2>1, <2>2
<1> QED
  BY <1>2, <1>3, <1>5, <1>9, <1>10, <1>11, <1>12 DEF TransportInv

\* The arithmetic of a write: k of the d bytes asked for, at x in the span of n bytes
\* at s, of which l are left.
LEMMA InsideSpan ==
    ASSUME NEW s \in Nat, NEW n \in Nat, NEW x \in Nat, NEW l \in Nat,
           NEW d \in Nat, NEW k \in Nat,
           l <= n, x = s + n - l, d <= l, k <= d
    PROVE  /\ \A a \in x .. x + k - 1 : a \in s .. s + n - 1
           /\ \A a \in s .. x + d - 1 : a \in s .. s + n - 1
           /\ \A a \in s .. x + d - 1 : a \notin x .. x + d - 1 => a \in s .. x - 1
OBVIOUS

LEMMA WriteBurstKeeps == ASSUME TransportInv, WriteBurst PROVE TransportInv'
<1>1. PICK k \in Moves(Asked) :
          /\ dpcd' = [a \in Address |-> IF a \in Target(k) THEN Written ELSE dpcd[a]]
          /\ cut' = (cut \/ k < Asked)
  BY DEF WriteBurst
<1>2. /\ status = "busy" /\ call.op = "write" /\ left > 0 /\ beat' = ~beat
      /\ addr' = addr + Asked /\ left' = left - Asked
      /\ status' = IF left' = 0 THEN "done" ELSE "busy"
      /\ since' = [a \in Address |-> since[a] \cup {dpcd'[a]}]
      /\ backend' = backend /\ call' = call /\ out' = out
  BY DEF WriteBurst
<1>3. /\ TypeOK /\ Placed /\ WrittenBehind
      /\ \A a \in Address : dpcd[a] \in since[a]
  BY DEF TransportInv
<1>4. Asked \in 1 .. left /\ Asked \in Nat /\ k \in Nat /\ k <= Asked
  BY <1>2, <1>3, AskedBounds, CallBounds DEF Moves
<1>5. Placed' /\ addr' \in 0 .. Top + 1 /\ left' \in 0 .. Top + 1
  BY <1>2, <1>3, <1>4, MovesOn
<1>6. dpcd' \in [Address -> Versions] /\ since' \in [Address -> SUBSET Versions]
  <2>1. dpcd \in [Address -> Versions] /\ since \in [Address -> SUBSET Versions] /\ Written \in Versions
    BY <1>3 DEF TypeOK, Versions
  <2>2. dpcd' \in [Address -> Versions]
    BY <1>1, <2>1
  <2> QED
    BY <1>2, <2>1, <2>2
<1>7. TypeOK'
  BY <1>1, <1>2, <1>3, <1>5, <1>6 DEF TypeOK, Versions
<1>8. \A a \in Address : dpcd'[a] \in since'[a]
  BY <1>2
<1>9. LET s == call.start n == call.len IN
      /\ \A a \in Target(k) : a \in s .. s + n - 1
      /\ \A a \in s .. addr' - 1 : a \in s .. s + n - 1
      /\ \A a \in s .. addr' - 1 : a \notin addr .. addr + Asked - 1 => a \in s .. addr - 1
  <2>1. /\ call.start \in Nat /\ call.len \in Nat /\ addr \in Nat /\ left \in Nat
        /\ left <= call.len /\ addr = call.start + call.len - left /\ Asked <= left
    BY <1>3, <1>4, CallBounds DEF Placed
  <2> QED
    BY <2>1, <1>2, <1>4, InsideSpan DEF Target
<1>10. WrittenBehind'
  <2>1. ASSUME ~cut', NEW a \in call.start .. addr' - 1 PROVE dpcd'[a] = Written
    <3>1. ~cut /\ ~(k < Asked)
      BY <2>1, <1>1
    <3>2. a \in Address
      <4>1. a \in call.start .. call.start + call.len - 1
        BY <1>9
      <4> QED
        BY <4>1, <1>3, CallBounds
    <3>5. k = Asked
      BY <3>1, <1>4
    <3>3. CASE a \in Target(k)
      BY <3>2, <3>3, <1>1
    <3>4. CASE a \notin Target(k)
      <4>1. a \in call.start .. addr - 1
        BY <3>4, <3>5, <1>9 DEF Target
      <4> QED
        BY <3>1, <3>2, <3>4, <4>1, <1>1, <1>2, <1>3 DEF WrittenBehind
    <3> QED
      BY <3>3, <3>4
  <2>2. ASSUME NEW a \in Address, dpcd'[a] = Written
        PROVE  a \in call.start .. call.start + call.len - 1
    BY <2>2, <1>1, <1>3, <1>9 DEF WrittenBehind
  <2> QED
    BY <1>2, <2>1, <2>2 DEF WrittenBehind
<1>11. CollectedBehind' /\ DoneIsDone'
  BY <1>2 DEF CollectedBehind, DoneIsDone
<1> QED
  BY <1>5, <1>7, <1>8, <1>10, <1>11 DEF TransportInv

LEMMA FailsKeeps == ASSUME TransportInv, Fails PROVE TransportInv'
<1>1. /\ status' = "raised" /\ out' = <<>> /\ backend' = backend /\ dpcd' = dpcd
      /\ call' = call /\ addr' = addr /\ left' = left /\ since' = since /\ cut' = cut
      /\ beat' = beat
  BY DEF Fails
<1>2. TypeOK'
  BY <1>1 DEF TransportInv, TypeOK
<1>3. CollectedBehind'
  BY <1>1 DEF CollectedBehind, Exact
<1> QED
  BY <1>1, <1>2, <1>3 DEF TransportInv, Placed, WrittenBehind, DoneIsDone

\* The hub may change its DPCD in any way while a call reads.
LEMMA ChangeKeeps ==
    ASSUME TransportInv, call.op = "read",
           dpcd' \in [Address -> Version], since' \in [Address -> SUBSET Versions],
           \A a \in Address : since[a] \subseteq since'[a] /\ dpcd'[a] \in since'[a],
           backend' = backend, call' = call, addr' = addr, left' = left, out' = out,
           status' = status, cut' = cut, beat' = beat
    PROVE  TransportInv'
<1>1. TypeOK'
  BY DEF TransportInv, TypeOK, Versions
<1>2. WrittenBehind'
  BY ConstantsAssumption DEF WrittenBehind, Version, Written
<1>3. CollectedBehind'
  <2> SUFFICES ASSUME backend = "drm" \/ ~cut PROVE Exact(Len(out))'
    BY DEF CollectedBehind, TransportInv
  <2>1. Exact(Len(out)) /\ out \in Seq(Pairs)
    BY DEF CollectedBehind, TransportInv, TypeOK, Pairs, Versions
  <2>2. ASSUME NEW i \in 1 .. Len(out)
        PROVE  out[i][1] = call.start + i - 1 /\ out[i][2] \in since'[out[i][1]]
    <3>1. out[i] \in Pairs
      BY <2>1
    <3>2. out[i][1] \in Address
      BY <3>1 DEF Pairs
    <3> QED
      BY <2>1, <3>2 DEF Exact
  <2> QED
    BY <2>2 DEF Exact
<1> QED
  BY <1>1, <1>2, <1>3 DEF TransportInv, Placed, DoneIsDone

LEMMA HubWritesKeeps == ASSUME TransportInv, HubWrites PROVE TransportInv'
<1>1. PICK a \in Address :
          /\ dpcd[a] < MaxVersion
          /\ dpcd' = [dpcd EXCEPT ![a] = @ + 1]
          /\ since' = [since EXCEPT ![a] = @ \cup {dpcd'[a]}]
  BY DEF HubWrites
<1>2. /\ call.op = "read" /\ backend' = backend /\ call' = call /\ addr' = addr
      /\ left' = left /\ out' = out /\ status' = status /\ cut' = cut /\ beat' = beat
  BY DEF HubWrites
<1>3. dpcd \in [Address -> Version] /\ since \in [Address -> SUBSET Versions]
  BY <1>2 DEF TransportInv, TypeOK, WrittenBehind, Versions, Written
<1>4. dpcd' \in [Address -> Version]
  BY <1>1, <1>3, ConstantsAssumption DEF Version
<1>5. since' \in [Address -> SUBSET Versions]
  BY <1>1, <1>3, <1>4 DEF Versions
<1>6. \A b \in Address : since[b] \subseteq since'[b] /\ dpcd'[b] \in since'[b]
  BY <1>1, <1>3, <1>4 DEF TransportInv
<1> QED
  BY <1>2, <1>4, <1>5, <1>6, ChangeKeeps

LEMMA StepKeeps == ASSUME TransportInv, [Next]_vars PROVE TransportInv'
<1>1. CASE UNCHANGED vars
  BY <1>1 DEF vars, TransportInv, TypeOK, Placed, WrittenBehind, CollectedBehind,
     DoneIsDone, Exact
<1> QED
  BY <1>1, ReadBurstKeeps, WriteBurstKeeps, FailsKeeps, HubWritesKeeps DEF Next, Transfer

LEMMA Consequences == TransportInv => ReadsSpan /\ WritesSpan
<1> SUFFICES ASSUME TransportInv PROVE ReadsSpan /\ WritesSpan
  OBVIOUS
<1>1. TypeOK /\ Placed /\ WrittenBehind /\ CollectedBehind /\ DoneIsDone
  BY DEF TransportInv
<1>2. addr - call.start <= call.len /\ (left = 0 => addr - call.start = call.len)
      /\ (left = 0 => addr - 1 = call.start + call.len - 1)
  BY <1>1, CallBounds DEF Placed
<1>3. ReadsSpan
  <2> SUFFICES ASSUME call.op = "read" PROVE ReadsSpan
    BY DEF ReadsSpan
  <2>1. status = "done" /\ ~cut => Len(out) = call.len /\ Exact(call.len)
    BY <1>1, <1>2 DEF CollectedBehind, DoneIsDone
  <2>2. backend = "drm" \/ ~cut => Len(out) <= call.len /\ Exact(Len(out))
    BY <1>1, <1>2, CallBounds DEF CollectedBehind, TypeOK
  <2> QED
    BY <2>1, <2>2 DEF ReadsSpan
<1>4. WritesSpan
  <2>1. call.op = "write" /\ status = "done" => addr - 1 = call.start + call.len - 1
    BY <1>1, <1>2 DEF DoneIsDone
  <2>2. call.op = "write" /\ status = "done" /\ ~cut =>
            \A a \in call.start .. call.start + call.len - 1 : dpcd[a] = Written
    BY <1>1, <2>1 DEF WrittenBehind
  <2> QED
    BY <1>1, <2>2 DEF WritesSpan, WrittenBehind
<1> QED
  BY <1>3, <1>4
-----------------------------------------------------------------------------
(* The two reads of read_slots.                                            *)

SlotsInv == TransportInv /\ (stage # "call" => call.op = "read")

\* A new read begins where the hub is.
LEMMA NewCallIsRight ==
    ASSUME TransportInv, call.op = "read", call' \in Calls, call'.op = "read",
           addr' = call'.start, left' = call'.len, out' = <<>>, status' = "busy",
           since' = [a \in Address |-> {dpcd[a]}], cut' = FALSE,
           dpcd' = dpcd, backend' = backend, beat' = beat
    PROVE  TransportInv'
<1>1. /\ call'.start \in Nat /\ call'.len \in 1 .. Top + 1 /\ call'.start \in 0 .. Top
      /\ call'.start + call'.len - 1 <= Top /\ Top \in Nat
  BY ConstantsAssumption DEF Calls, Span, Address
<1>2. dpcd \in [Address -> Versions]
  BY DEF TransportInv, TypeOK, Versions
<1>3. since' \in [Address -> SUBSET Versions] /\ \A a \in Address : dpcd'[a] \in since'[a]
  BY <1>2
<1>4. out' \in Seq(Pairs) /\ addr' \in 0 .. Top + 1 /\ left' \in 0 .. Top + 1
  BY <1>1
<1>5. TypeOK'
  BY <1>2, <1>3, <1>4 DEF TransportInv, TypeOK, Versions, Pairs
<1>6. Placed' /\ DoneIsDone'
  BY <1>1 DEF Placed, DoneIsDone
<1>7. WrittenBehind'
  BY DEF TransportInv, WrittenBehind
<1>8. CollectedBehind'
  BY <1>1 DEF CollectedBehind, Exact
<1> QED
  BY <1>3, <1>5, <1>6, <1>7, <1>8 DEF TransportInv

LEMMA ReadTableKeeps == ASSUME SlotsInv, ReadTable PROVE SlotsInv'
<1>1. stage = "link" /\ call.op = "read" /\ TransportInv
  BY DEF ReadTable, SlotsInv
<1>2. CASE Len(out) < 2
  <2>1. /\ status' = "raised" /\ out' = <<>> /\ backend' = backend /\ dpcd' = dpcd
        /\ call' = call /\ addr' = addr /\ left' = left /\ since' = since /\ cut' = cut
        /\ beat' = beat
    BY <1>2 DEF ReadTable
  <2>2. TypeOK' /\ CollectedBehind'
    BY <1>1, <2>1 DEF TransportInv, TypeOK, CollectedBehind, Exact
  <2> QED
    BY <1>1, <2>1, <2>2 DEF SlotsInv, TransportInv, Placed, WrittenBehind, DoneIsDone
<1>3. CASE ~(Len(out) < 2)
  <2>1. /\ call' = TableCall /\ addr' = call'.start /\ left' = call'.len
        /\ out' = <<>> /\ status' = "busy" /\ since' = [a \in Address |-> {dpcd[a]}]
        /\ cut' = FALSE /\ dpcd' = dpcd /\ backend' = backend /\ beat' = beat
    BY <1>3 DEF ReadTable
  <2>2. TableCall \in Calls /\ TableCall.op = "read"
    <3>1. TableStart \in 0 .. Top /\ Slots \in 1 .. Top + 1 /\ TableStart + Slots - 1 <= Top
      BY SlotTableAssumption, ConstantsAssumption
    <3> QED
      BY <3>1 DEF TableCall, ReadCall, Calls, Span, Address
  <2> QED
    BY <1>1, <2>1, <2>2, NewCallIsRight DEF SlotsInv
<1> QED
  BY <1>2, <1>3

LEMMA SourceKeeps == ASSUME SlotsInv, Train \/ Allocate PROVE SlotsInv'
<1>1. PICK bytes \in {LinkBytes, TableBytes} : Change(bytes)
  BY DEF Train, Allocate
<1>2. stage # "call" /\ stage' = stage /\ call' = call
  BY <1>1 DEF Train, Allocate, Change
<1>3. TransportInv /\ call.op = "read"
  BY <1>2 DEF SlotsInv
<1>4. dpcd \in [Address -> Version] /\ since \in [Address -> SUBSET Versions]
  BY <1>3 DEF TransportInv, TypeOK, WrittenBehind, Versions, Written
<1>5. bytes \subseteq Address
  BY SlotTableAssumption, ConstantsAssumption DEF LinkBytes, TableBytes, Address
<1>6. dpcd' \in [Address -> Version]
  <2>1. \A a \in bytes : dpcd[a] + 1 \in Version
    BY <1>1, <1>4, <1>5, ConstantsAssumption DEF Change, Version
  <2> QED
    BY <1>1, <1>4, <2>1 DEF Change
<1>7. since' \in [Address -> SUBSET Versions]
  BY <1>1, <1>4, <1>6 DEF Change, Versions
<1>8. \A a \in Address : since[a] \subseteq since'[a] /\ dpcd'[a] \in since'[a]
  BY <1>1 DEF Change
<1>9. /\ backend' = backend /\ addr' = addr /\ left' = left /\ out' = out
      /\ status' = status /\ cut' = cut /\ beat' = beat
  BY <1>1 DEF Change
<1> QED
  BY <1>2, <1>3, <1>6, <1>7, <1>8, <1>9, ChangeKeeps DEF SlotsInv

LEMMA SlotsStepKeeps ==
    ASSUME SlotsInv, [SlotsNext]_<<vars, slots>> PROVE SlotsInv'
<1>1. TransportInv
  BY DEF SlotsInv
<1>2. CASE [Next]_vars /\ UNCHANGED slots
  <2>1. TransportInv'
    BY <1>1, <1>2, StepKeeps
  <2>2. stage' = stage /\ call' = call
    BY <1>2 DEF slots, Next, Transfer, ReadBurst, WriteBurst, Fails, HubWrites, vars
  <2> QED
    BY <2>1, <2>2 DEF SlotsInv
<1>3. CASE ReadTable
  BY <1>3, ReadTableKeeps
<1>4. CASE Show
  <2>1. UNCHANGED vars /\ stage = "table"
    BY <1>4 DEF Show
  <2>2. TransportInv'
    BY <1>1, <2>1, StepKeeps
  <2> QED
    BY <2>1, <2>2 DEF SlotsInv, vars
<1>5. CASE Train \/ Allocate
  BY <1>5, SourceKeeps
<1> QED
  BY <1>2, <1>3, <1>4, <1>5 DEF SlotsNext, Next
-----------------------------------------------------------------------------
(* What read_slots shows, for a transport that reads two bytes at a time.  *)

\* The two bytes of the link change together, and one transaction reads them.
LinkTogether ==
    /\ call = ReadCall(LinkStart, 2)
    /\ dpcd[LinkStart] = dpcd[LinkStart + 1]
    /\ ~cut /\ status = "busy" => left = 2 /\ out = <<>>
    /\ ~cut /\ status = "done" => out[1][2] = out[2][2]

CountInv ==
    /\ SlotsInv
    /\ stage \in {"call", "link", "table", "shown"}
    /\ stage = "link" => LinkTogether
    /\ stage \in {"table", "shown"} =>
          /\ call = TableCall
          /\ link.cut \/ link.bytes[1][2] = link.bytes[2][2]
    /\ stage = "shown" => status = "done"

LEMMA SlotAddresses ==
    /\ LinkStart \in Nat /\ TableStart \in Nat /\ Slots \in Nat
    /\ LinkStart \in Address /\ LinkStart + 1 \in Address
    /\ LinkStart \in LinkBytes /\ LinkStart + 1 \in LinkBytes
    /\ LinkStart \notin TableBytes /\ LinkStart + 1 \notin TableBytes
BY SlotTableAssumption, ConstantsAssumption DEF Address, LinkBytes, TableBytes

LEMMA LinkBurst ==
    ASSUME CountInv, Burst >= 2, stage = "link", ReadBurst PROVE LinkTogether'
<1>1. PICK k \in Moves(Asked) :
          /\ out' = out \o Bytes(k)
          /\ cut' = (cut \/ k < Asked)
          /\ left' = left - Advance(k)
          /\ status' = IF StopsAt(k) \/ left' = 0 THEN "done" ELSE "busy"
  BY DEF ReadBurst
<1>2. status = "busy" /\ left > 0 /\ dpcd' = dpcd /\ call' = call
  BY DEF ReadBurst
<1>3. LinkTogether /\ TypeOK /\ Placed
  BY DEF CountInv, SlotsInv, TransportInv
<1>4. SUFFICES ASSUME ~cut' PROVE status' = "done" /\ out'[1][2] = out'[2][2]
  BY <1>2, <1>3 DEF LinkTogether
<1>5. left = 2 /\ out = <<>> /\ ~cut /\ ~(k < Asked)
  BY <1>1, <1>2, <1>3, <1>4 DEF LinkTogether
<1>6. Asked = 2 /\ k = 2 /\ Advance(k) = 2
  <2>1. Asked = 2
    BY <1>5, ConstantsAssumption DEF Asked
  <2> QED
    BY <2>1, <1>3, <1>5, AdvanceBounds
<1>7. status' = "done"
  BY <1>1, <1>5, <1>6
<1>8. addr = LinkStart
  BY <1>3, <1>5, SlotAddresses DEF Placed, LinkTogether, ReadCall
<1>9. Bytes(2) \in [1 .. 2 -> Pairs] /\ Bytes(2)[1][2] = dpcd[LinkStart]
      /\ Bytes(2)[2][2] = dpcd[LinkStart + 1]
  <2>1. /\ Bytes(2) \in [1 .. 2 -> Pairs]
        /\ \A i \in 1 .. 2 : Bytes(2)[i] = <<addr + i - 1, dpcd[addr + i - 1]>>
    <3>1. 2 \in Nat /\ 2 <= left
      BY <1>5
    <3> QED
      BY <1>3, <3>1, BytesAreTyped
  <2>2. LinkStart + 1 - 1 = LinkStart /\ LinkStart + 2 - 1 = LinkStart + 1
    BY SlotAddresses
  <2> QED
    BY <2>1, <2>2, <1>8
<1>10. out'[1] = Bytes(k)[1] /\ out'[2] = Bytes(k)[2]
  <2>1. out \in Seq(Pairs) /\ Bytes(k) \in [1 .. k -> Pairs] /\ k \in Nat
    BY <1>3, <1>6, <1>9 DEF TypeOK, Pairs, Versions
  <2>2. \A i \in Len(out) + 1 .. Len(out) + k : (out \o Bytes(k))[i] = Bytes(k)[i - Len(out)]
    BY <2>1, Appended
  <2>3. Len(out) = 0 /\ 1 - 0 = 1 /\ 2 - 0 = 2
    BY <1>5
  <2>4. 1 \in Len(out) + 1 .. Len(out) + k /\ 2 \in Len(out) + 1 .. Len(out) + k
    BY <1>6, <2>3
  <2> QED
    BY <2>2, <2>3, <2>4, <1>1
<1> QED
  BY <1>3, <1>6, <1>7, <1>9, <1>10 DEF LinkTogether

LEMMA CountStepKeeps ==
    ASSUME CountInv, Burst >= 2, [SlotsNext]_<<vars, slots>> PROVE CountInv'
<1>1. SlotsInv /\ SlotsInv'
  BY SlotsStepKeeps DEF CountInv
<1>2. CASE UNCHANGED <<vars, slots>>
  BY <1>1, <1>2 DEF CountInv, LinkTogether, vars, slots, ReadCall, TableCall
<1>3. CASE ReadBurst /\ UNCHANGED slots
  <2>1. call' = call /\ stage' = stage /\ link' = link /\ status = "busy"
    BY <1>3 DEF ReadBurst, slots
  <2>2. stage = "link" => LinkTogether'
    BY <1>3, LinkBurst
  <2> QED
    BY <1>1, <2>1, <2>2 DEF CountInv, TableCall, ReadCall
<1>4. CASE WriteBurst /\ UNCHANGED slots
  <2>1. call' = call /\ stage' = stage /\ call.op = "write"
    BY <1>4 DEF WriteBurst, slots
  <2> QED
    BY <1>1, <2>1 DEF CountInv, SlotsInv
<1>5. CASE Fails /\ UNCHANGED slots
  <2>1. /\ call' = call /\ stage' = stage /\ link' = link /\ dpcd' = dpcd
        /\ status = "busy" /\ status' = "raised"
    BY <1>5 DEF Fails, slots
  <2> QED
    BY <1>1, <2>1 DEF CountInv, LinkTogether, TableCall, ReadCall
<1>6. CASE stage = "call" /\ HubWrites /\ UNCHANGED slots
  BY <1>1, <1>6 DEF CountInv, slots
<1>7. CASE ReadTable
  <2>1. stage = "link" /\ status = "done"
    BY <1>7 DEF ReadTable
  <2>2. LinkTogether
    BY <2>1 DEF CountInv
  <2>3. CASE Len(out) < 2
    <3>1. status' = "raised" /\ stage' = stage /\ call' = call /\ dpcd' = dpcd
      BY <1>7, <2>3 DEF ReadTable
    <3> QED
      BY <1>1, <2>1, <2>2, <3>1 DEF CountInv, LinkTogether, ReadCall
  <2>4. CASE ~(Len(out) < 2)
    <3>1. stage' = "table" /\ link' = [bytes |-> out, cut |-> cut] /\ call' = TableCall
      BY <1>7, <2>4 DEF ReadTable
    <3>2. link'.cut \/ link'.bytes[1][2] = link'.bytes[2][2]
      BY <2>1, <2>2, <3>1 DEF LinkTogether, CountInv, SlotsInv, TransportInv, TypeOK
    <3> QED
      BY <1>1, <3>1, <3>2 DEF CountInv, TableCall, ReadCall
  <2> QED
    BY <2>3, <2>4
<1>8. CASE Show
  <2>1. stage = "table" /\ stage' = "shown" /\ status' = "done" /\ call' = call /\ link' = link
    BY <1>8 DEF Show, vars
  <2> QED
    BY <1>1, <2>1 DEF CountInv, TableCall, ReadCall
<1>9. CASE Train \/ Allocate
  <2>1. PICK bytes \in {LinkBytes, TableBytes} : Change(bytes)
    BY <1>9 DEF Train, Allocate
  <2>2. /\ call' = call /\ stage' = stage /\ link' = link /\ cut' = cut /\ left' = left
        /\ out' = out /\ status' = status
    BY <2>1 DEF Change
  <2>3. ASSUME LinkTogether PROVE dpcd'[LinkStart] = dpcd'[LinkStart + 1]
    BY <2>1, <2>3, SlotAddresses DEF Change, LinkTogether
  <2> QED
    BY <1>1, <2>2, <2>3 DEF CountInv, LinkTogether, TableCall, ReadCall
<1> QED
  BY <1>2, <1>3, <1>4, <1>5, <1>6, <1>7, <1>8, <1>9 DEF SlotsNext, Transfer

\* Some of the bytes of a table are as many as their addresses.
LEMMA CountsAddresses ==
    ASSUME NEW I, NEW T, I \subseteq 1 .. Slots,
           \A i \in I : TableStart + i - 1 \in T,
           \A t \in T : \E i \in I : t = TableStart + i - 1
    PROVE  Cardinality(I) = Cardinality(T)
<1> DEFINE f == [i \in I |-> TableStart + i - 1]
<1>1. I \subseteq Int /\ TableStart \in Nat /\ Slots \in Nat
  BY SlotAddresses
<1>2. f \in [I -> T] /\ \A i, k \in I : f[i] = f[k] => i = k
  BY <1>1
<1>3. \A t \in T : \E i \in I : f[i] = t
  OBVIOUS
<1>4. f \in Bijection(I, T)
  BY <1>2, <1>3 DEF Bijection, Injection, Surjection, IsInjective
<1>5. IsFiniteSet(I)
  <2>1. IsFiniteSet(1 .. Slots)
    BY <1>1, FS_Interval
  <2> QED
    BY <2>1, FS_Subset
<1> QED
  BY <1>4, <1>5, FS_Bijection DEF ExistsBijection

\* What is left of an interval when some of it is taken away.
LEMMA CountsRest ==
    ASSUME NEW n \in Nat, NEW I \in SUBSET (1 .. n)
    PROVE  n - Cardinality(I) = Cardinality((1 .. n) \ I)
<1>1. IsFiniteSet(1 .. n) /\ Cardinality(1 .. n) = n
  BY FS_Interval
<1>2. Cardinality((1 .. n) \ I) = Cardinality(1 .. n) - Cardinality((1 .. n) \cap I)
  BY <1>1, FS_Difference
<1>3. (1 .. n) \cap I = I
  OBVIOUS
<1> QED
  BY <1>1, <1>2, <1>3

LEMMA CountsAreRight == CountInv => SlotsAreCounted
<1> SUFFICES ASSUME CountInv, stage = "shown" PROVE SlotsAreCounted
  BY DEF SlotsAreCounted
<1>1. link.cut \/ link.bytes[1][2] = link.bytes[2][2]
  BY DEF CountInv
<1>2. call = TableCall /\ status = "done" /\ TransportInv
  BY DEF CountInv, SlotsInv
<1>3. ASSUME ~cut
      PROVE  /\ out \in Seq(Pairs) /\ DOMAIN out = 1 .. Slots
             /\ \A i \in 1 .. Slots : /\ out[i][1] = TableStart + i - 1
                                      /\ TableStart + i - 1 \in TableBytes
                                      /\ out[i][2] \in During
  <2>1. Len(out) = Slots /\ Exact(Slots) /\ call.start = TableStart
    BY <1>2, <1>3, Consequences DEF ReadsSpan, TableCall, ReadCall
  <2>2. out \in Seq(Pairs)
    BY <1>2 DEF TransportInv, TypeOK, Pairs, Versions
  <2>3. ASSUME NEW i \in 1 .. Slots
        PROVE  /\ out[i][1] = TableStart + i - 1 /\ out[i][2] \in since[out[i][1]]
               /\ TableStart + i - 1 \in TableBytes
    BY <2>1, SlotAddresses DEF Exact, TableBytes
  <2> QED
    BY <2>1, <2>2, <2>3 DEF During
<1>4. ASSUME ~cut, NEW vc \in Ids, \A v, w \in During : HeldBy(vc, v) = HeldBy(vc, w),
             NEW v \in During
      PROVE  Counts(vc) = Cardinality(HeldBy(vc, v))
  <2> DEFINE I == {i \in DOMAIN out : Id(out[i]) = vc}
  <2>1. I \in SUBSET (1 .. Slots)
    BY <1>3, <1>4
  <2>2. ASSUME NEW i \in 1 .. Slots
        PROVE  i \in I <=> TableStart + i - 1 \in HeldBy(vc, v)
    <3>1. HeldBy(vc, out[i][2]) = HeldBy(vc, v)
      BY <1>3, <1>4
    <3>2. i \in I <=> TableStart + i - 1 \in HeldBy(vc, out[i][2])
      BY <1>3, <1>4 DEF Id, HeldBy
    <3> QED
      BY <3>1, <3>2
  <2>3. \A a \in TableBytes : \E i \in 1 .. Slots : a = TableStart + i - 1
    <3>1. ASSUME NEW a \in TableBytes
          PROVE  a - TableStart + 1 \in 1 .. Slots /\ a = TableStart + (a - TableStart + 1) - 1
      BY SlotAddresses DEF TableBytes
    <3> QED
      BY <3>1
  <2>4. HeldBy(vc, v) \subseteq TableBytes
    BY DEF HeldBy
  <2>5. Cardinality(I) = Cardinality(HeldBy(vc, v))
    <3> DEFINE T == HeldBy(vc, v)
    <3> HIDE DEF I
    <3>1. \A i \in I : TableStart + i - 1 \in T
      BY <2>1, <2>2
    <3>2. \A t \in T : \E i \in I : t = TableStart + i - 1
      BY <2>2, <2>3, <2>4
    <3> HIDE DEF T
    <3>3. Cardinality(I) = Cardinality(T)
      BY <2>1, <3>1, <3>2, CountsAddresses
    <3> QED
      BY <3>3 DEF T
  <2> QED
    BY <2>5 DEF Counts
<1>5. ASSUME ~cut PROVE Allocated = Cardinality({i \in DOMAIN out : Id(out[i]) # 0})
  <2> DEFINE I == {i \in DOMAIN out : Id(out[i]) = 0}
  <2>1. I \in SUBSET (1 .. Slots) /\ {i \in DOMAIN out : Id(out[i]) # 0} = (1 .. Slots) \ I
    BY <1>3, <1>5
  <2>2. Slots - Cardinality(I) = Cardinality((1 .. Slots) \ I)
    <3> HIDE DEF I
    <3> QED
      BY <2>1, SlotAddresses, CountsRest
  <2> QED
    BY <2>1, <2>2 DEF Allocated, Counts
<1> QED
  BY <1>1, <1>4, <1>5 DEF SlotsAreCounted
-----------------------------------------------------------------------------
(* Theorems.                                                               *)

\* For every burst, DPCD and number of its changes: a call is placed in its span,
\* and what it has read or written is the part of the span behind its place.
THEOREM TransportInvariant == Spec => []TransportInv
<1>1. Init => TransportInv
  BY InitIsRight
<1>2. TransportInv /\ [Next]_vars => TransportInv'
  BY StepKeeps
<1> QED
  BY <1>1, <1>2, PTL DEF Spec

\* The same of both reads of read_slots, while the source trains and allocates.
THEOREM SlotsInvariant == SlotsSpec => []SlotsInv
<1>1. SlotsInit => SlotsInv
  BY InitIsRight DEF SlotsInit, SlotsInv, ReadCall
<1>2. SlotsInv /\ [SlotsNext]_<<vars, slots>> => SlotsInv'
  BY SlotsStepKeeps
<1> QED
  BY <1>1, <1>2, PTL DEF SlotsSpec

\* Types of the transport, of a single call and of read_slots.
THEOREM TransportTypes == (Spec \/ SlotsSpec) => []TypeOK
<1>1. (TransportInv => TypeOK) /\ (SlotsInv => TypeOK)
  BY DEF TransportInv, SlotsInv
<1> QED
  BY <1>1, TransportInvariant, SlotsInvariant, PTL

\* A read that returned without a short transaction holds the span, byte by byte as
\* it was during the call, and the drm backend always has a prefix of it.
THEOREM ReadsTheSpan == (Spec \/ SlotsSpec) => []ReadsSpan
<1>1. (TransportInv => ReadsSpan) /\ (SlotsInv => ReadsSpan)
  BY Consequences DEF SlotsInv
<1> QED
  BY <1>1, TransportInvariant, SlotsInvariant, PTL

\* A write that returned without a short transaction has covered its span, and no
\* write reaches an address outside it.
THEOREM WritesTheSpan == (Spec \/ SlotsSpec) => []WritesSpan
<1>1. (TransportInv => WritesSpan) /\ (SlotsInv => WritesSpan)
  BY Consequences DEF SlotsInv
<1> QED
  BY <1>1, TransportInvariant, SlotsInvariant, PTL

\* A slot table that was shown mixes allocations only where a stream was moved,
\* however many of them there were, if a transaction holds the two bytes of the link.
THEOREM SlotsCounted == Burst >= 2 => (SlotsSpec => []SlotsAreCounted)
<1> SUFFICES ASSUME Burst >= 2 PROVE SlotsSpec => []SlotsAreCounted
  OBVIOUS
<1>1. SlotsInit => CountInv
  <2> SUFFICES ASSUME SlotsInit PROVE CountInv
    OBVIOUS
  <2>1. SlotsInv
    BY InitIsRight DEF SlotsInit, SlotsInv, ReadCall
  <2>2. stage = "link" => LinkTogether
    BY SlotAddresses DEF SlotsInit, Init, LinkTogether, ReadCall
  <2> QED
    BY <2>1, <2>2 DEF SlotsInit, CountInv
<1>2. CountInv /\ [SlotsNext]_<<vars, slots>> => CountInv'
  BY CountStepKeeps
<1>3. CountInv => SlotsAreCounted
  BY CountsAreRight
<1> QED
  BY <1>1, <1>2, <1>3, PTL DEF SlotsSpec
=============================================================================
