-------------------------- MODULE RcSessionProofs --------------------------
(***************************************************************************)
(* The safety of a remote-control session, for every list of reads, every  *)
(* window, number of retries and runs, and every set of faults.  There is  *)
(* one lemma for each access of the tool, for each thing that happens to   *)
(* it from outside and for each step of the hub: it keeps SessionInv.      *)
(***************************************************************************)
EXTENDS RcSessionInv, TLAPS

\* An element of a sequence, and where it stands.
LEMMA ElementOfSeq ==
    ASSUME NEW S, NEW s \in Seq(S), NEW j \in DOMAIN s
    PROVE  s[j] \in S /\ j \in Nat /\ j > 0 /\ DOMAIN s = 1 .. Len(s) /\ j <= Len(s)
  OBVIOUS

\* The fields of a read of the session.
LEMMA JobFields ==
    ASSUME NEW j \in JobNum
    PROVE  /\ j \in Nat
           /\ Jobs[j].kind \in Kind
           /\ Jobs[j].addr \in Nat
           /\ Jobs[j].len \in Nat /\ Jobs[j].len > 0
<1>1. Jobs[j] \in [kind : Kind, addr : Nat, len : Nat \ {0}] /\ j \in Nat
  BY JobsAssumption, ElementOfSeq DEF JobNum
<1> QED
  BY <1>1

\* A session has a first read, or none.
LEMMA FirstJob == 1 \in JobNum \/ JobNum = {}
  BY JobsAssumption DEF JobNum

\* A chunk has at least one byte, and no more than are left or fit the window.
LEMMA ChunkType ==
    ASSUME remaining \in Nat
    PROVE  Chunk \in 0 .. Window /\ Chunk <= remaining
                 /\ (remaining > 0 => Chunk > 0)
  BY WindowAssumption DEF Chunk

\* What the call of a read sets up: its loop has not asked for anything yet.
LEMMA StartJobKeeps ==
    ASSUME SessionInv, NEW j \in Nat, StartJob(j), pc \in Access
    PROVE  /\ pc' \in Access /\ ctx' \in {"read", "cleanup"}
           /\ job' \in Nat /\ pos' \in Nat /\ remaining' \in Nat /\ out' \in Seq(Byte)
           /\ ctx' = "read" => /\ pc' = "offset" /\ job' \in JobNum
                               /\ pos' = Jobs[job'].addr
                               /\ remaining' = Jobs[job'].len /\ remaining' > 0
                               /\ out' = <<>>
           /\ ctx' = "cleanup" => pc' = "cmd"
<1>1. CASE j \in JobNum
  BY <1>1, JobFields DEF StartJob, Access
<1>2. CASE j \notin JobNum
  BY <1>2 DEF StartJob, Access, readVars, SessionInv, TypeOK
<1> QED
  BY <1>1, <1>2

\* A write that returned: a read it fell short for is on record.
LEMMA GoesOnFacts ==
    ASSUME SessionInv, pc \in Access, NEW q, NEW whole \in BOOLEAN, GoesOn(q, whole)
    PROVE  /\ pc' = q
           /\ UNCHANGED <<ctx, readVars, got, failed, closed, runs, abandoned>>
           /\ part' \subseteq JobNum /\ part \subseteq part'
           /\ ctx # "read" => part' = part
           /\ ctx = "read" /\ job \notin part' => whole /\ part' = part
<1>1. part \subseteq JobNum /\ (ctx = "read" => job \in JobNum)
  BY DEF SessionInv, TypeOK, LoopCounters, InJob
<1> QED
  BY <1>1 DEF GoesOn, GoTo

\* What was accepted stays exact while only the records of faults grow.
LEMMA FaithfulStays ==
    ASSUME ReadsFaithful, got' = got, abandoned' = abandoned,
           part \subseteq part', cut \subseteq cut'
    PROVE  ReadsFaithful'
  BY DEF ReadsFaithful, Exact, ExactBytes

\* An exception leaves the tool in the next read (the guarded one), in the finally
\* clause or at its exit; each of them may assume less than an access in progress.
LEMMA RaiseKeeps ==
    ASSUME SessionInv, Raise, pc \in Access,
           HubTypeOK', BusyIsVisible',
           tries' \in 0 .. Retries, dirty' \in BOOLEAN, unsent' \in BOOLEAN,
           cut' = cut, part' = part,
           ctx = "read" => /\ rcMode' = rcMode /\ task' = task /\ unsent' = unsent
                           /\ rcCmd'.active => rcCmd'.op = "read"
    PROVE  SessionInv'
<1> USE DEF SessionInv
<1>1. ~closed
  BY DEF ClosedIsOff, Access
<1>2. /\ closed' = closed /\ got' = got /\ runs' = runs
      /\ failed' \in BOOLEAN /\ abandoned' \in BOOLEAN
      /\ abandoned => abandoned'
  BY DEF Raise, SwallowBoard, RunFinally, SwallowDisable, TypeOK, HubTypeOK
<1>3. CASE SwallowBoard
  <2>1. ctx = "read" /\ job + 1 \in Nat
    BY <1>3 DEF SwallowBoard, Guarded, TypeOK
  <2>2. StartJob(job + 1) /\ (~abandoned' => ~rcCmd'.active)
    BY <1>3 DEF SwallowBoard
  <2>3. /\ pc' \in Access /\ ctx' \in {"read", "cleanup"}
        /\ job' \in Nat /\ pos' \in Nat /\ remaining' \in Nat /\ out' \in Seq(Byte)
        /\ ctx' = "read" => /\ pc' = "offset" /\ job' \in JobNum
                            /\ pos' = Jobs[job'].addr
                            /\ remaining' = Jobs[job'].len /\ remaining' > 0
                            /\ out' = <<>>
        /\ ctx' = "cleanup" => pc' = "cmd"
    BY <2>1, <2>2, StartJobKeeps
  <2>10. ~failed'
    BY <1>3, <2>1 DEF SwallowBoard, ProgramPoints
  <2>4. TypeOK' /\ ProgramPoints' /\ AbandonedInReads' /\ AtRest'
    BY <2>2, <2>3, <2>10, <1>2 DEF TypeOK, ProgramPoints, AbandonedInReads, AtRest, Call
  <2>5. OnlyReads'
    BY <2>1 DEF OnlyReads
  <2>6. EnableInFlight' /\ DisableInFlight' /\ ClosedIsOff'
    BY <2>3, <1>1, <1>2 DEF EnableInFlight, DisableInFlight, ClosedIsOff
  <2>7. LoopCounters' /\ Arguments' /\ ReadInFlight' /\ FetchFinds'
    BY <2>3, JobFields DEF LoopCounters, Arguments, ReadInFlight, FetchFinds, InJob
  <2>8. OutIsPrefix'
    BY <2>3, JobFields DEF OutIsPrefix, InJob, Done
  <2>9. ReadsFaithful'
    BY <1>2 DEF ReadsFaithful, Exact, ExactBytes
  <2> QED
    BY <2>4, <2>5, <2>6, <2>7, <2>8, <2>9
<1>4. CASE RunFinally
  <2>1. pc' = "cmd" /\ ctx' = "cleanup" /\ UNCHANGED readVars /\ UNCHANGED abandoned
    BY <1>4 DEF RunFinally
  <2>2. TypeOK' /\ ProgramPoints' /\ AbandonedInReads' /\ AtRest'
    BY <2>1, <1>2 DEF TypeOK, ProgramPoints, AbandonedInReads, AtRest, Call, Access, readVars
  <2>3. /\ EnableInFlight' /\ OnlyReads' /\ DisableInFlight' /\ ClosedIsOff'
        /\ LoopCounters' /\ Arguments' /\ ReadInFlight' /\ FetchFinds' /\ OutIsPrefix'
    BY <2>1, <1>1, <1>2 DEF EnableInFlight, OnlyReads, DisableInFlight, ClosedIsOff,
       LoopCounters, Arguments, ReadInFlight, FetchFinds, OutIsPrefix, InJob
  <2>4. ReadsFaithful'
    BY <1>2 DEF ReadsFaithful, Exact, ExactBytes
  <2> QED
    BY <2>2, <2>3, <2>4
<1>5. CASE SwallowDisable
  <2>1. pc' = "exit" /\ ctx' = "cleanup" /\ UNCHANGED readVars /\ UNCHANGED abandoned
    BY <1>5 DEF SwallowDisable
  <2>2. TypeOK' /\ ProgramPoints' /\ AbandonedInReads' /\ AtRest'
    BY <2>1, <1>2 DEF TypeOK, ProgramPoints, AbandonedInReads, AtRest, Call, Access, Over, readVars
  <2>3. /\ EnableInFlight' /\ OnlyReads' /\ DisableInFlight' /\ ClosedIsOff'
        /\ LoopCounters' /\ Arguments' /\ ReadInFlight' /\ FetchFinds' /\ OutIsPrefix'
    BY <2>1, <1>1, <1>2 DEF EnableInFlight, OnlyReads, DisableInFlight, ClosedIsOff,
       LoopCounters, Arguments, ReadInFlight, FetchFinds, OutIsPrefix, InJob
  <2>4. ReadsFaithful'
    BY <1>2 DEF ReadsFaithful, Exact, ExactBytes
  <2> QED
    BY <2>2, <2>3, <2>4
<1> QED
  BY <1>3, <1>4, <1>5 DEF Raise

\* The native reads of the identity do not touch the mailbox.
LEMMA ReadIdentityKeeps == SessionInv /\ ReadIdentity => SessionInv'
<1> SUFFICES ASSUME SessionInv, ReadIdentity
             PROVE  SessionInv'
  OBVIOUS
<1> USE DEF SessionInv
<1>1. pc = "ident" /\ pc \in Access /\ ctx \in {"start", "enabled"} /\ ~abandoned /\ ~closed
  BY DEF ReadIdentity, Access, ProgramPoints, AbandonedInReads, ClosedIsOff
<1>2. UNCHANGED <<hubVars, tries, cut, part, dirty, unsent>>
  BY DEF ReadIdentity
<1>3. HubTypeOK' /\ BusyIsVisible' /\ tries' \in 0 .. Retries /\ dirty' \in BOOLEAN /\ unsent' \in BOOLEAN
      /\ cut' = cut /\ part' = part
  BY <1>2 DEF hubVars, TypeOK, HubTypeOK, BusyIsVisible
<1>4. CASE ReplyFails
  BY <1>1, <1>3, <1>4, RaiseKeeps DEF ReplyFails
<1>5. CASE /\ IF ctx = "start" THEN StartEnable ELSE StartJob(1)
           /\ UNCHANGED <<got, failed, closed, runs, abandoned>>
  <2>1. ReadsFaithful'
    BY <1>2, <1>5 DEF ReadsFaithful, Exact, ExactBytes
  <2>2. CASE ctx = "start"
    <3>1. pc' = "cmd" /\ ctx' = "toggle" /\ UNCHANGED readVars
      BY <1>5, <2>2 DEF StartEnable
    <3>2. TypeOK' /\ ProgramPoints' /\ AbandonedInReads' /\ AtRest'
      BY <1>1, <1>2, <1>3, <1>5, <3>1 DEF TypeOK, ProgramPoints, AbandonedInReads, AtRest, Call,
         Access, readVars
    <3>3. /\ EnableInFlight' /\ OnlyReads' /\ DisableInFlight' /\ ClosedIsOff'
          /\ LoopCounters' /\ Arguments' /\ ReadInFlight' /\ FetchFinds' /\ OutIsPrefix'
      BY <1>1, <1>5, <3>1 DEF EnableInFlight, OnlyReads, DisableInFlight, ClosedIsOff,
         LoopCounters, Arguments, ReadInFlight, FetchFinds, OutIsPrefix, InJob
    <3> QED
      BY <1>3, <2>1, <3>2, <3>3
  <2>3. CASE ctx = "enabled"
    <3>1. /\ pc' \in Access /\ ctx' \in {"read", "cleanup"}
          /\ job' \in Nat /\ pos' \in Nat /\ remaining' \in Nat /\ out' \in Seq(Byte)
          /\ ctx' = "read" => /\ pc' = "offset" /\ job' \in JobNum
                              /\ pos' = Jobs[job'].addr
                              /\ remaining' = Jobs[job'].len /\ remaining' > 0
                              /\ out' = <<>>
          /\ ctx' = "cleanup" => pc' = "cmd"
      BY <1>1, <1>5, <2>3, StartJobKeeps
    <3>6. ~failed'
      BY <1>5, <2>3 DEF ProgramPoints
    <3>2. TypeOK' /\ ProgramPoints' /\ AbandonedInReads'
      BY <1>2, <1>3, <1>5, <3>1, <3>6 DEF TypeOK, ProgramPoints, AbandonedInReads, Call
    <3>3. AtRest' /\ OnlyReads'
      BY <1>1, <1>2, <2>3 DEF AtRest, OnlyReads, Access, hubVars
    <3>4. EnableInFlight' /\ DisableInFlight' /\ ClosedIsOff'
      BY <1>1, <1>5, <3>1 DEF EnableInFlight, DisableInFlight, ClosedIsOff
    <3>5. /\ LoopCounters' /\ Arguments' /\ ReadInFlight' /\ FetchFinds' /\ OutIsPrefix'
      BY <3>1, JobFields DEF LoopCounters, Arguments, ReadInFlight, FetchFinds, OutIsPrefix,
         InJob, Done
    <3> QED
      BY <1>3, <2>1, <3>2, <3>3, <3>4, <3>5
  <2> QED
    BY <1>1, <2>2, <2>3
<1> QED
  BY <1>4, <1>5 DEF ReadIdentity

\* The payload of ENABLE goes into a mailbox at rest.
LEMMA WriteDataKeeps == SessionInv /\ WriteData => SessionInv'
<1> SUFFICES ASSUME SessionInv, WriteData
             PROVE  SessionInv'
  OBVIOUS
<1> USE DEF SessionInv
<1>1. pc = "data" /\ pc \in Access /\ ctx = "enable" /\ ~closed
  BY DEF WriteData, Access, TypeOK, Call, ProgramPoints, ClosedIsOff
<1>2. UNCHANGED <<rcMode, rcCmd, rcResult, rcOffset, rcLen, task, tries, cut, dirty, unsent>>
  BY DEF WriteData
<1>3. rcData' \in [Slot -> Byte]
  BY DEF WriteData, TypeOK, HubTypeOK, Byte, Address
<1>4. HubTypeOK' /\ BusyIsVisible' /\ tries' \in 0 .. Retries /\ dirty' \in BOOLEAN /\ unsent' \in BOOLEAN
  BY <1>2, <1>3 DEF TypeOK, HubTypeOK, BusyIsVisible
<1>5. CASE AuxFails
  BY <1>1, <1>2, <1>4, <1>5, RaiseKeeps DEF AuxFails
<1>6. ASSUME NEW whole \in BOOLEAN, GoesOn("offset", whole)
      PROVE  SessionInv'
  <2>1. /\ pc' = "offset" /\ part' = part
        /\ UNCHANGED <<ctx, readVars, got, failed, closed, runs, abandoned>>
    BY <1>1, <1>6, GoesOnFacts
  <2>2. TypeOK' /\ ProgramPoints' /\ AbandonedInReads' /\ AtRest'
    BY <1>1, <1>2, <1>4, <2>1 DEF TypeOK, ProgramPoints, AbandonedInReads, AtRest, Access, readVars
  <2>3. /\ EnableInFlight' /\ OnlyReads' /\ DisableInFlight' /\ ClosedIsOff'
        /\ LoopCounters' /\ Arguments' /\ ReadInFlight' /\ FetchFinds' /\ OutIsPrefix'
    BY <1>1, <2>1 DEF EnableInFlight, OnlyReads, DisableInFlight, ClosedIsOff,
       LoopCounters, Arguments, ReadInFlight, FetchFinds, OutIsPrefix, InJob
  <2>4. ReadsFaithful'
    BY <1>2, <2>1, FaithfulStays
  <2> QED
    BY <1>4, <2>2, <2>3, <2>4
<1> QED
  BY <1>5, <1>6 DEF WriteData

\* The offset of the next command goes into a mailbox at rest.
LEMMA WriteOffsetKeeps == SessionInv /\ WriteOffset => SessionInv'
<1> SUFFICES ASSUME SessionInv, WriteOffset
             PROVE  SessionInv'
  OBVIOUS
<1> USE DEF SessionInv
<1>1. pc = "offset" /\ pc \in Access /\ ctx \in {"enable", "read"} /\ ~closed
  BY DEF WriteOffset, Access, TypeOK, Call, ProgramPoints, ClosedIsOff
<1>2. UNCHANGED <<rcMode, rcCmd, rcResult, rcLen, rcData, task, tries, cut, dirty, unsent>>
  BY DEF WriteOffset
<1>3. rcOffset' \in Address
  BY DEF WriteOffset, TypeOK, HubTypeOK, Address
<1>4. HubTypeOK' /\ BusyIsVisible' /\ tries' \in 0 .. Retries /\ dirty' \in BOOLEAN /\ unsent' \in BOOLEAN
  BY <1>2, <1>3 DEF TypeOK, HubTypeOK, BusyIsVisible
<1>5. CASE AuxFails
  BY <1>1, <1>2, <1>4, <1>5, RaiseKeeps DEF AuxFails, OnlyReads
<1>6. CASE GoesOn("len", rcOffset' = pos)
  <2>1. /\ pc' = "len" /\ UNCHANGED <<ctx, readVars, got, failed, closed, runs, abandoned>>
        /\ part' \subseteq JobNum /\ part \subseteq part'
        /\ ctx = "read" /\ job \notin part' => rcOffset' = pos /\ part' = part
    BY <1>1, <1>6, GoesOnFacts
  <2>2. TypeOK' /\ ProgramPoints' /\ AbandonedInReads' /\ AtRest'
    BY <1>1, <1>2, <1>4, <2>1 DEF TypeOK, ProgramPoints, AbandonedInReads, AtRest, Access, readVars
  <2>3. EnableInFlight' /\ OnlyReads' /\ DisableInFlight' /\ ClosedIsOff'
    BY <1>1, <1>2, <2>1 DEF EnableInFlight, OnlyReads, DisableInFlight, ClosedIsOff
  <2>4. LoopCounters' /\ Arguments' /\ ReadInFlight' /\ FetchFinds' /\ OutIsPrefix'
    BY <1>1, <1>2, <2>1 DEF LoopCounters, Arguments, ReadInFlight, FetchFinds,
       OutIsPrefix, InJob, Done, Access, readVars
  <2>5. ReadsFaithful'
    BY <1>2, <2>1, FaithfulStays
  <2> QED
    BY <1>4, <2>2, <2>3, <2>4, <2>5
<1> QED
  BY <1>5, <1>6 DEF WriteOffset

\* So does its length.
LEMMA WriteLenKeeps == SessionInv /\ WriteLen => SessionInv'
<1> SUFFICES ASSUME SessionInv, WriteLen
             PROVE  SessionInv'
  OBVIOUS
<1> USE DEF SessionInv
<1>1. pc = "len" /\ pc \in Access /\ ctx \in {"enable", "read"} /\ ~closed
  BY DEF WriteLen, Access, TypeOK, Call, ProgramPoints, ClosedIsOff
<1>2. UNCHANGED <<rcMode, rcCmd, rcResult, rcOffset, rcData, task, tries, cut, dirty, unsent>>
  BY DEF WriteLen
<1>3. rcLen' \in 0 .. Window
  BY ChunkType DEF WriteLen, TypeOK, HubTypeOK
<1>4. HubTypeOK' /\ BusyIsVisible' /\ tries' \in 0 .. Retries /\ dirty' \in BOOLEAN /\ unsent' \in BOOLEAN
  BY <1>2, <1>3 DEF TypeOK, HubTypeOK, BusyIsVisible
<1>5. CASE AuxFails
  BY <1>1, <1>2, <1>4, <1>5, RaiseKeeps DEF AuxFails, OnlyReads
<1>6. CASE GoesOn("cmd", rcLen' = Chunk)
  <2>1. /\ pc' = "cmd" /\ UNCHANGED <<ctx, readVars, got, failed, closed, runs, abandoned>>
        /\ part' \subseteq JobNum /\ part \subseteq part'
        /\ ctx = "read" /\ job \notin part' => rcLen' = Chunk /\ part' = part
    BY <1>1, <1>6, GoesOnFacts
  <2>2. TypeOK' /\ ProgramPoints' /\ AbandonedInReads' /\ AtRest'
    BY <1>1, <1>2, <1>4, <2>1 DEF TypeOK, ProgramPoints, AbandonedInReads, AtRest, Access, readVars
  <2>3. EnableInFlight' /\ OnlyReads' /\ DisableInFlight' /\ ClosedIsOff'
    BY <1>1, <1>2, <2>1 DEF EnableInFlight, OnlyReads, DisableInFlight, ClosedIsOff
  <2>4. LoopCounters' /\ Arguments' /\ ReadInFlight' /\ FetchFinds' /\ OutIsPrefix'
    BY <1>1, <1>2, <2>1 DEF LoopCounters, Arguments, ReadInFlight, FetchFinds,
       OutIsPrefix, InJob, Done, Access, readVars, Chunk
  <2>5. ReadsFaithful'
    BY <1>2, <2>1, FaithfulStays
  <2> QED
    BY <1>4, <2>2, <2>3, <2>4, <2>5
<1> QED
  BY <1>5, <1>6 DEF WriteLen

\* The trigger puts the command in flight; a DISABLE may be written over another.
LEMMA WriteCmdKeeps == SessionInv /\ WriteCmd => SessionInv'
<1> SUFFICES ASSUME SessionInv, WriteCmd
             PROVE  SessionInv'
  OBVIOUS
<1> USE DEF SessionInv
<1>1. pc = "cmd" /\ pc \in Access /\ ctx \in {"toggle", "enable", "read", "cleanup"} /\ ~closed
  BY DEF WriteCmd, Access, TypeOK, Call, ProgramPoints, ClosedIsOff
<1>2. /\ UNCHANGED <<rcMode, rcResult, rcOffset, rcLen, rcData, task, cut>>
      /\ tries' = 0 /\ dirty' = rcCmd.active
      /\ unsent' = IF ctx = "read" THEN unsent ELSE rcCmd' # Trigger
  BY DEF WriteCmd
<1>3. rcCmd' = [op |-> OpcodeOf[ctx], active |-> TRUE] \/ rcCmd' = rcCmd
  BY DEF WriteCmd, Trigger
<1>4. /\ rcCmd' \in [op : Opcode, active : BOOLEAN]
      /\ rcCmd.active => rcCmd'.active
      /\ ctx = "read" /\ rcCmd'.active => rcCmd'.op = "read"
  <2>1. CASE rcCmd' = rcCmd
    BY <1>1, <2>1 DEF TypeOK, HubTypeOK, OnlyReads
  <2>2. CASE rcCmd' = [op |-> OpcodeOf[ctx], active |-> TRUE]
    <3>1. OpcodeOf[ctx] \in Opcode /\ (ctx = "read" => OpcodeOf[ctx] = "read")
      BY <1>1 DEF OpcodeOf, Opcode
    <3> QED
      BY <2>2, <3>1
  <2> QED
    BY <1>3, <2>1, <2>2
<1>5. HubTypeOK' /\ BusyIsVisible' /\ tries' \in 0 .. Retries /\ dirty' \in BOOLEAN /\ unsent' \in BOOLEAN
  <2>1. unsent' \in BOOLEAN
    BY <1>2, Zenon DEF TypeOK
  <2> QED
    BY <1>2, <1>4, <2>1, BoundsAssumption DEF TypeOK, HubTypeOK, BusyIsVisible
<1>6. CASE AuxFails
  BY <1>1, <1>2, <1>4, <1>5, <1>6, RaiseKeeps DEF AuxFails
<1>7. CASE GoesOn("poll", rcCmd' = Trigger)
  <2>1. /\ pc' = "poll" /\ UNCHANGED <<ctx, readVars, got, failed, closed, runs, abandoned>>
        /\ part' \subseteq JobNum /\ part \subseteq part'
        /\ ctx = "read" /\ job \notin part' => rcCmd' = Trigger /\ part' = part
    BY <1>1, <1>7, GoesOnFacts
  <2>2. rcCmd' = Trigger => rcCmd'.active /\ rcCmd'.op = OpcodeOf[ctx]
    BY DEF Trigger
  <2>3. ~rcCmd.active => task = NoTask
    BY DEF BusyIsVisible
  <2>4. TypeOK' /\ ProgramPoints' /\ AbandonedInReads' /\ AtRest'
    BY <1>1, <1>2, <1>5, <2>1 DEF TypeOK, ProgramPoints, AbandonedInReads, AtRest, Access, readVars
  <2>5. EnableInFlight'
    <3> SUFFICES ASSUME ctx = "enable"
                 PROVE  /\ rcCmd'.active => rcCmd'.op = "enable"
                        /\ task' # NoTask => task'.op = "enable"
                        /\ ~rcCmd'.active /\ rcResult' \in OkToEnable =>
                             (rcMode' = "on" \/ unsent')
      BY <2>1 DEF EnableInFlight
    <3>1. ~rcCmd.active /\ task' = NoTask
      BY <1>1, <1>2, <2>3 DEF AtRest, AbandonedInReads, Access
    <3>2. CASE rcCmd' = Trigger
      BY <2>2, <3>1, <3>2 DEF OpcodeOf
    <3>3. CASE rcCmd' # Trigger
      BY <1>2, <1>3, <3>1, <3>3 DEF Trigger
    <3> QED
      BY <3>2, <3>3
  <2>6. OnlyReads' /\ ClosedIsOff'
    BY <1>1, <1>2, <1>4, <2>1 DEF OnlyReads, ClosedIsOff
  <2>7. DisableInFlight'
    <3> SUFFICES ASSUME ctx = "cleanup", ~dirty', ~unsent'
                 PROVE  /\ rcCmd'.active => rcCmd'.op = "disable"
                        /\ task' # NoTask => task'.op = "disable"
                        /\ ~rcCmd'.active /\ rcResult' \in OkToDisable => rcMode' = "off"
      BY <2>1 DEF DisableInFlight
    <3>1. rcCmd' = Trigger /\ task' = NoTask
      BY <1>2, <2>3
    <3> QED
      BY <2>2, <3>1 DEF OpcodeOf
  <2>8. ReadInFlight'
    <3> SUFFICES ASSUME ctx = "read", ~abandoned, job \notin part'
                 PROVE  task' = NoTask /\ rcCmd'.active
      BY <2>1 DEF ReadInFlight, InJob, readVars
    <3> QED
      BY <1>1, <1>2, <2>1, <2>2, <2>3 DEF AtRest, Access
  <2>9. LoopCounters' /\ Arguments' /\ FetchFinds' /\ OutIsPrefix'
    BY <1>1, <1>2, <2>1 DEF LoopCounters, Arguments, FetchFinds,
       OutIsPrefix, InJob, Done, Access, readVars, Chunk
  <2>10. ReadsFaithful'
    BY <1>2, <2>1, FaithfulStays
  <2> QED
    BY <1>5, <2>4, <2>5, <2>6, <2>7, <2>8, <2>9, <2>10
<1> QED
  BY <1>6, <1>7 DEF WriteCmd

\* A poll that is not the last of its command.
LEMMA PollBusyKeeps ==
    ASSUME SessionInv, pc = "poll", UNCHANGED <<hubVars, cut, part, dirty, unsent>>, PollBusy
    PROVE  SessionInv'
<1> USE DEF SessionInv
<1>1. pc' = "poll" /\ UNCHANGED <<ctx, readVars, got, failed, closed, runs, abandoned>>
  BY DEF PollBusy, GoTo
<1>2. tries' \in 0 .. Retries
  BY BoundsAssumption DEF PollBusy, TypeOK
<1>3. TypeOK' /\ ProgramPoints' /\ BusyIsVisible' /\ AbandonedInReads' /\ AtRest'
  BY <1>1, <1>2 DEF TypeOK, HubTypeOK, ProgramPoints, BusyIsVisible, AbandonedInReads, AtRest,
     hubVars, readVars
<1>4. EnableInFlight' /\ OnlyReads' /\ DisableInFlight' /\ ClosedIsOff'
  BY <1>1 DEF EnableInFlight, OnlyReads, DisableInFlight, ClosedIsOff, hubVars
<1>5. LoopCounters' /\ Arguments' /\ ReadInFlight' /\ FetchFinds' /\ OutIsPrefix'
  BY <1>1 DEF LoopCounters, Arguments, ReadInFlight, FetchFinds, OutIsPrefix, InJob, Done,
     WindowHoldsChunk, Chunk, hubVars, readVars
<1>6. ReadsFaithful'
  BY <1>1 DEF ReadsFaithful, Exact, ExactBytes
<1> QED
  BY <1>3, <1>4, <1>5, <1>6

\* disable() returns: in enable(), or in the finally clause.
LEMMA DisabledKeeps ==
    ASSUME SessionInv, pc = "poll", UNCHANGED <<hubVars, cut, part, dirty, unsent, tries>>,
           ~rcCmd.active, Disabled
    PROVE  SessionInv'
<1> USE DEF SessionInv
<1>1. UNCHANGED <<got, failed, runs, abandoned>> /\ rcResult \in OkToDisable
  BY DEF Disabled
<1>2. BusyIsVisible' /\ ReadsFaithful'
  BY <1>1 DEF BusyIsVisible, ReadsFaithful, Exact, ExactBytes, hubVars
<1>3. CASE ctx = "toggle"
  <2>1. /\ ctx' = "enable" /\ pc' = "data" /\ pos' = 0 /\ remaining' = 1
        /\ UNCHANGED <<job, out, closed>>
    BY <1>3 DEF Disabled
  <2>2. TypeOK' /\ ProgramPoints' /\ AbandonedInReads' /\ AtRest'
    BY <1>1, <1>3, <2>1 DEF TypeOK, HubTypeOK, ProgramPoints, AbandonedInReads, AtRest,
       Access, Call, hubVars
  <2>3. /\ EnableInFlight' /\ OnlyReads' /\ DisableInFlight' /\ ClosedIsOff'
        /\ LoopCounters' /\ Arguments' /\ ReadInFlight' /\ FetchFinds' /\ OutIsPrefix'
    BY <2>1 DEF EnableInFlight, OnlyReads, DisableInFlight, ClosedIsOff,
       LoopCounters, Arguments, ReadInFlight, FetchFinds, OutIsPrefix, InJob
  <2> QED
    BY <1>2, <2>2, <2>3
<1>4. CASE ctx = "cleanup"
  <2>1. ctx' = "cleanup" /\ pc' = "exit" /\ closed' = TRUE /\ UNCHANGED readVars
    BY <1>4 DEF Disabled
  <2>2. TypeOK' /\ ProgramPoints' /\ AbandonedInReads' /\ AtRest'
    BY <1>1, <1>4, <2>1 DEF TypeOK, HubTypeOK, ProgramPoints, AbandonedInReads, AtRest,
       Access, Over, Call, hubVars, readVars
  <2>3. ClosedIsOff'
    BY <1>1, <1>4, <2>1 DEF ClosedIsOff, DisableInFlight, hubVars
  <2>4. /\ EnableInFlight' /\ OnlyReads' /\ DisableInFlight'
        /\ LoopCounters' /\ Arguments' /\ ReadInFlight' /\ FetchFinds' /\ OutIsPrefix'
    BY <2>1 DEF EnableInFlight, OnlyReads, DisableInFlight,
       LoopCounters, Arguments, ReadInFlight, FetchFinds, OutIsPrefix, InJob
  <2> QED
    BY <1>2, <2>2, <2>3, <2>4
<1> QED
  BY <1>3, <1>4 DEF Disabled

\* ENABLE succeeded: the hub has entered the mode.
LEMMA EnabledKeeps ==
    ASSUME SessionInv, pc = "poll", UNCHANGED <<hubVars, cut, part, dirty, unsent, tries>>,
           ~rcCmd.active, Enabled
    PROVE  SessionInv'
<1> USE DEF SessionInv
<1>1. /\ ctx = "enable" /\ rcResult \in OkToEnable /\ ctx' = "enabled" /\ pc' = "ident"
      /\ UNCHANGED <<readVars, got, failed, closed, runs, abandoned>>
  BY DEF Enabled
<1>2. ~abandoned /\ task = NoTask
  BY <1>1 DEF AbandonedInReads, BusyIsVisible
<1>3. TypeOK' /\ ProgramPoints' /\ BusyIsVisible' /\ AbandonedInReads' /\ AtRest'
  BY <1>1, <1>2 DEF TypeOK, HubTypeOK, ProgramPoints, BusyIsVisible, AbandonedInReads, AtRest,
     Access, Call, hubVars, readVars
<1>4. OnlyReads'
  BY <1>1, <1>2 DEF OnlyReads, EnableInFlight, hubVars
<1>5. /\ EnableInFlight' /\ DisableInFlight' /\ ClosedIsOff'
      /\ LoopCounters' /\ Arguments' /\ ReadInFlight' /\ FetchFinds' /\ OutIsPrefix'
  BY <1>1 DEF EnableInFlight, DisableInFlight, ClosedIsOff,
     LoopCounters, Arguments, ReadInFlight, FetchFinds, OutIsPrefix, InJob
<1>6. ReadsFaithful'
  BY <1>1 DEF ReadsFaithful, Exact, ExactBytes
<1> QED
  BY <1>3, <1>4, <1>5, <1>6

\* A read succeeded: the window holds its chunk.
LEMMA AnsweredKeeps ==
    ASSUME SessionInv, pc = "poll", UNCHANGED <<hubVars, cut, part, dirty, unsent, tries>>,
           ~rcCmd.active, Answered
    PROVE  SessionInv'
<1> USE DEF SessionInv
<1>1. /\ ctx = "read" /\ rcResult \in OkToFetch /\ pc' = "fetch"
      /\ UNCHANGED <<ctx, readVars, got, failed, closed, runs, abandoned>>
  BY DEF Answered, GoTo
<1>2. TypeOK' /\ ProgramPoints' /\ BusyIsVisible' /\ AbandonedInReads' /\ AtRest'
  BY <1>1 DEF TypeOK, HubTypeOK, ProgramPoints, BusyIsVisible, AbandonedInReads, AtRest,
     Access, hubVars, readVars
<1>3. OnlyReads' /\ EnableInFlight' /\ DisableInFlight' /\ ClosedIsOff'
  BY <1>1 DEF OnlyReads, EnableInFlight, DisableInFlight, ClosedIsOff, hubVars
<1>4. FetchFinds'
  BY <1>1 DEF ReadInFlight, FetchFinds, InJob, WindowHoldsChunk, Chunk, Access, hubVars, readVars
<1>5. LoopCounters' /\ Arguments' /\ ReadInFlight' /\ OutIsPrefix'
  BY <1>1 DEF LoopCounters, Arguments, ReadInFlight, OutIsPrefix, InJob, Done, Access, readVars
<1>6. ReadsFaithful'
  BY <1>1 DEF ReadsFaithful, Exact, ExactBytes
<1> QED
  BY <1>2, <1>3, <1>4, <1>5, <1>6

\* A poll goes on, gives up, takes the result, refuses it or fails.
LEMMA PollKeeps == SessionInv /\ Poll => SessionInv'
<1> SUFFICES ASSUME SessionInv, Poll
             PROVE  SessionInv'
  OBVIOUS
<1>1. pc = "poll" /\ pc \in Access /\ UNCHANGED <<hubVars, cut, part, dirty, unsent>>
  BY DEF Poll, Access
<1>2. CASE PollBusy
  BY <1>1, <1>2, PollBusyKeeps
<1>3. ASSUME tries' = tries, Raise
      PROVE  SessionInv'
  <2>1. HubTypeOK' /\ BusyIsVisible' /\ tries' \in 0 .. Retries /\ dirty' \in BOOLEAN /\ unsent' \in BOOLEAN
      /\ cut' = cut /\ part' = part
    BY <1>1, <1>3 DEF SessionInv, TypeOK, HubTypeOK, BusyIsVisible, hubVars
  <2>2. ctx = "read" => /\ rcMode' = rcMode /\ task' = task /\ unsent' = unsent
                        /\ rcCmd'.active => rcCmd'.op = "read"
    BY <1>1 DEF SessionInv, OnlyReads, hubVars
  <2> QED
    BY <1>1, <1>3, <2>1, <2>2, RaiseKeeps
<1>4. CASE TimesOut \/ PollFails
  BY <1>3, <1>4 DEF TimesOut, PollFails, ReplyFails
<1>5. CASE PollDone
  <2>1. ~rcCmd.active /\ tries' = tries
    BY <1>5 DEF PollDone
  <2>2. CASE Refused
    BY <1>3, <2>1, <2>2 DEF Refused
  <2>3. CASE Disabled
    BY <1>1, <2>1, <2>3, DisabledKeeps
  <2>4. CASE Enabled
    BY <1>1, <2>1, <2>4, EnabledKeeps
  <2>5. CASE Answered
    BY <1>1, <2>1, <2>5, AnsweredKeeps
  <2> QED
    BY <1>5, <2>2, <2>3, <2>4, <2>5 DEF PollDone
<1> QED
  BY <1>2, <1>4, <1>5 DEF Poll

\* The elements of two sequences put together.
LEMMA ConcatFacts ==
    ASSUME NEW S, NEW s \in Seq(S), NEW t \in Seq(S)
    PROVE  /\ s \o t \in Seq(S)
           /\ Len(s) \in Nat /\ Len(t) \in Nat
           /\ Len(s \o t) = Len(s) + Len(t)
           /\ \A i \in 1 .. Len(s) : (s \o t)[i] = s[i]
           /\ \A i \in 1 .. Len(t) : (s \o t)[Len(s) + i] = t[i]
  OBVIOUS

\* Two sums are equal with neither part larger only when the parts are equal.
LEMMA Squeeze ==
    ASSUME NEW a \in Nat, NEW b \in Nat, NEW c \in Nat, NEW d \in Nat,
           a <= b, c <= d, a + c = b + d
    PROVE  a = b /\ c = d
  OBVIOUS

\* Regrouping an address: chunk start, bytes collected, place in the chunk.
LEMMA Shift ==
    ASSUME NEW a \in Nat, NEW b \in Nat, NEW c \in Nat
    PROVE  (a + b) + (c - 1) = a + (b + c) - 1
  OBVIOUS

\* The part of the window that a reply brings.
LEMMA InWindowFacts ==
    ASSUME rcData \in [Slot -> Byte], NEW n \in 0 .. Window
    PROVE  /\ InWindow(n) \in Seq(Byte)
           /\ Len(InWindow(n)) = n
           /\ \A i \in 1 .. n : InWindow(n)[i] = rcData[i - 1]
<1>1. n \in Nat /\ \A i \in 1 .. n : i - 1 \in Slot
  BY WindowAssumption DEF Slot
<1> QED
  BY <1>1 DEF InWindow

\* The reply of the data window extends what was collected, by the whole chunk or by
\* the part of it that came.
LEMMA ReadDataKeeps == SessionInv /\ ReadData => SessionInv'
<1> SUFFICES ASSUME SessionInv, ReadData
             PROVE  SessionInv'
  OBVIOUS
<1> USE DEF SessionInv
<1>1. pc = "fetch" /\ pc \in Access /\ ctx = "read" /\ ~closed /\ InJob
  BY DEF ReadData, Access, TypeOK, Call, ProgramPoints, ClosedIsOff, InJob
<1>2. UNCHANGED <<hubVars, tries, part, dirty, unsent>>
  BY DEF ReadData
<1>3. HubTypeOK' /\ BusyIsVisible' /\ tries' \in 0 .. Retries /\ dirty' \in BOOLEAN /\ unsent' \in BOOLEAN
  BY <1>2 DEF TypeOK, HubTypeOK, BusyIsVisible, hubVars
<1>4. CASE AuxFails /\ UNCHANGED cut
  BY <1>1, <1>2, <1>3, <1>4, RaiseKeeps DEF AuxFails, OnlyReads, hubVars
<1>5. ASSUME NEW n \in 0 .. Chunk,
             out' = out \o InWindow(n),
             cut' = IF n < Chunk THEN cut \cup {job} ELSE cut,
             pos' = pos + Chunk,
             remaining' = remaining - Chunk,
             pc' = IF remaining > Chunk THEN "offset" ELSE "return",
             UNCHANGED <<ctx, job, got, failed, closed, runs, abandoned>>
      PROVE  SessionInv'
  <2>1. /\ Chunk \in Nat /\ Chunk <= remaining /\ Chunk > 0 /\ n \in 0 .. Window /\ n \in Nat
        /\ job \in JobNum /\ Jobs[job].addr \in Nat /\ Jobs[job].len \in Nat
        /\ pos \in Nat /\ remaining \in Nat
    BY <1>1, <1>5, ChunkType, WindowAssumption, JobFields DEF LoopCounters, TypeOK
  <2>2. /\ out' \in Seq(Byte)
        /\ Len(out') = Len(out) + n
        /\ \A i \in 1 .. Len(out) : out'[i] = out[i]
        /\ \A i \in 1 .. n : out'[Len(out) + i] = rcData[i - 1]
    <3>1. out \in Seq(Byte) /\ rcData \in [Slot -> Byte]
      BY DEF TypeOK, HubTypeOK
    <3>2. /\ InWindow(n) \in Seq(Byte) /\ Len(InWindow(n)) = n
          /\ \A i \in 1 .. n : InWindow(n)[i] = rcData[i - 1]
      BY <2>1, <3>1, InWindowFacts
    <3> DEFINE w == InWindow(n)
    <3>3. w \in Seq(Byte)
      BY <3>2
    <3> HIDE DEF w
    <3>4. /\ out \o w \in Seq(Byte)
          /\ Len(out \o w) = Len(out) + Len(w)
          /\ \A i \in 1 .. Len(out) : (out \o w)[i] = out[i]
          /\ \A i \in 1 .. Len(w) : (out \o w)[Len(out) + i] = w[i]
      BY <3>1, <3>3, ConcatFacts
    <3> QED
      BY <1>5, <3>2, <3>4 DEF w
  <2>3. TypeOK' /\ ProgramPoints' /\ AbandonedInReads' /\ AtRest'
    BY <1>1, <1>2, <1>3, <1>5, <2>1, <2>2 DEF TypeOK, ProgramPoints, AbandonedInReads, AtRest,
       Access, Call, hubVars
  <2>4. OnlyReads' /\ EnableInFlight' /\ DisableInFlight' /\ ClosedIsOff'
    BY <1>1, <1>2, <1>5 DEF OnlyReads, EnableInFlight, DisableInFlight, ClosedIsOff, hubVars
  <2>5. LoopCounters'
    BY <1>1, <1>5, <2>1 DEF LoopCounters, InJob, Access
  <2>6. Arguments' /\ ReadInFlight' /\ FetchFinds'
    BY <1>1, <1>5 DEF Arguments, ReadInFlight, FetchFinds
  <2>7. OutIsPrefix'
    <3> SUFFICES ASSUME ~abandoned, job \notin part
                 PROVE  /\ Len(out') <= Done'
                        /\ job \notin cut' => Len(out') = Done'
                        /\ Len(out') = Done' =>
                             \A i \in 1 .. Len(out') : out'[i] = Jobs[job].addr + i - 1
      BY <1>2, <1>5 DEF OutIsPrefix
    <3>1. /\ Len(out) \in Nat /\ Done \in Nat /\ n <= Chunk
          /\ Done = pos - Jobs[job].addr /\ Done' = Done + Chunk
      <4>1. Len(out) \in Nat /\ n <= Chunk
        BY <1>5, <2>1 DEF TypeOK
      <4>2. Done = pos - Jobs[job].addr /\ Done \in Nat
        BY <1>1, <2>1 DEF Done, LoopCounters
      <4>3. Done' = (pos + Chunk) - Jobs[job].addr
        BY <1>5 DEF Done
      <4> QED
        BY <2>1, <4>1, <4>2, <4>3
    <3>2. Len(out) <= Done /\ (job \notin cut => Len(out) = Done)
      BY <1>1 DEF OutIsPrefix
    <3>3. Len(out') <= Done'
      BY <2>1, <2>2, <3>1, <3>2
    <3>4. ASSUME job \notin cut'
          PROVE  Len(out') = Done'
      <4>1. job \notin cut /\ ~(n < Chunk)
        BY <1>5, <3>4
      <4>2. Len(out) = Done
        BY <3>2, <4>1, Zenon
      <4> QED
        BY <2>1, <2>2, <3>1, <4>1, <4>2
    <3>5. ASSUME Len(out') = Done', NEW i \in 1 .. Len(out')
          PROVE  out'[i] = Jobs[job].addr + i - 1
      <4>1. Len(out) = Done /\ n = Chunk
        <5>1. Len(out) + n = Done + Chunk
          BY <2>2, <3>1, <3>5
        <5> QED
          BY <2>1, <3>1, <3>2, <5>1, Squeeze
      <4>2. \A m \in 1 .. Len(out) : out[m] = Jobs[job].addr + m - 1
        BY <1>1, <4>1 DEF OutIsPrefix
      <4>3. CASE i <= Len(out)
        BY <2>2, <3>1, <4>2, <4>3
      <4>4. CASE i > Len(out)
        <5>1. PICK k \in 1 .. n : i = Len(out) + k
          <6>1. i - Len(out) \in 1 .. n
            BY <2>1, <2>2, <3>1, <4>4
          <6> QED
            BY <3>1, <6>1
        <5>2. k - 1 \in Slot /\ k - 1 < Chunk
          BY <2>1, <4>1, <5>1, WindowAssumption DEF Slot
        <5>3. rcData[k - 1] = pos + (k - 1)
          BY <1>1, <5>2 DEF FetchFinds, WindowHoldsChunk
        <5>4. out'[i] = pos + (k - 1)
          BY <2>2, <5>1, <5>3
        <5>5. pos = Jobs[job].addr + Len(out)
          BY <2>1, <3>1, <4>1
        <5>6. pos + (k - 1) = Jobs[job].addr + i - 1
          <6> DEFINE a == Jobs[job].addr
                     b == Len(out)
          <6>1. a \in Nat /\ b \in Nat /\ k \in Nat
            BY <2>1, <3>1, <5>1
          <6>2. pos = a + b /\ i = b + k
            BY <5>1, <5>5
          <6> HIDE DEF a, b
          <6>3. (a + b) + (k - 1) = a + (b + k) - 1
            BY <6>1, Shift
          <6>4. pos + (k - 1) = a + i - 1
            BY <6>2, <6>3
          <6> QED
            BY <6>4 DEF a
        <5> QED
          BY <5>4, <5>6
      <4> QED
        BY <2>1, <2>2, <3>1, <4>3, <4>4
    <3> QED
      BY <3>3, <3>4, <3>5
  <2>8. ReadsFaithful'
    BY <1>2, <1>5, FaithfulStays
  <2> QED
    BY <1>3, <2>3, <2>4, <2>5, <2>6, <2>7, <2>8
<1> QED
  BY <1>4, <1>5 DEF ReadData

\* A read that returns is accepted; a span that cannot be unpacked raises.
LEMMA ReturnKeeps == SessionInv /\ Return => SessionInv'
<1> SUFFICES ASSUME SessionInv, Return
             PROVE  SessionInv'
  OBVIOUS
<1> USE DEF SessionInv
<1>1. /\ pc = "return" /\ pc \in Access /\ ctx = "read" /\ ~closed /\ InJob
      /\ job \in JobNum /\ job \in Nat /\ remaining = 0
  BY DEF Return, Access, TypeOK, Call, ProgramPoints, ClosedIsOff, InJob, LoopCounters
<1>2. UNCHANGED <<hubVars, tries, cut, part, dirty, unsent>>
  BY DEF Return
<1>3. HubTypeOK' /\ BusyIsVisible' /\ tries' \in 0 .. Retries /\ dirty' \in BOOLEAN /\ unsent' \in BOOLEAN
  BY <1>2 DEF TypeOK, HubTypeOK, BusyIsVisible, hubVars
<1>4. CASE Raise
  BY <1>1, <1>2, <1>3, <1>4, RaiseKeeps DEF OnlyReads, hubVars
<1>5. CASE /\ Unpacks
           /\ got' = Append(got, [job |-> job, bytes |-> out])
           /\ StartJob(job + 1)
           /\ UNCHANGED <<failed, closed, runs, abandoned>>
  <2>1. /\ pc' \in Access /\ ctx' \in {"read", "cleanup"}
        /\ job' \in Nat /\ pos' \in Nat /\ remaining' \in Nat /\ out' \in Seq(Byte)
        /\ ctx' = "read" => /\ pc' = "offset" /\ job' \in JobNum
                            /\ pos' = Jobs[job'].addr
                            /\ remaining' = Jobs[job'].len /\ remaining' > 0
                            /\ out' = <<>>
        /\ ctx' = "cleanup" => pc' = "cmd"
    BY <1>1, <1>5, StartJobKeeps
  <2>2. /\ got' \in Seq([job : JobNum, bytes : Seq(Byte)])
        /\ DOMAIN got' = 1 .. Len(got) + 1
        /\ \A i \in DOMAIN got : i \in DOMAIN got' /\ got'[i] = got[i]
        /\ got'[Len(got) + 1] = [job |-> job, bytes |-> out]
        /\ Len(got) \in Nat /\ DOMAIN got = 1 .. Len(got)
    BY <1>1, <1>5 DEF TypeOK
  <2>11. ~failed'
    BY <1>1, <1>5 DEF ProgramPoints
  <2>3. TypeOK' /\ ProgramPoints' /\ AbandonedInReads'
    BY <1>2, <1>3, <1>5, <2>1, <2>2, <2>11 DEF TypeOK, ProgramPoints, AbandonedInReads, Call
  <2>4. AtRest' /\ OnlyReads'
    BY <1>1, <1>2, <1>5, <2>1 DEF AtRest, OnlyReads, hubVars
  <2>5. EnableInFlight' /\ DisableInFlight' /\ ClosedIsOff'
    BY <1>1, <1>5, <2>1 DEF EnableInFlight, DisableInFlight, ClosedIsOff
  <2>6. /\ LoopCounters' /\ Arguments' /\ ReadInFlight' /\ FetchFinds' /\ OutIsPrefix'
    BY <2>1, JobFields DEF LoopCounters, Arguments, ReadInFlight, FetchFinds, OutIsPrefix,
       InJob, Done
  <2>7. ASSUME ~abandoned, job \notin part, Len(out) = Jobs[job].len
        PROVE  out = ExactBytes(job)
    <3>1. pos - Jobs[job].addr = Jobs[job].len
      BY <1>1, JobFields DEF LoopCounters, TypeOK
    <3>2. \A i \in 1 .. Len(out) : out[i] = Jobs[job].addr + i - 1
      BY <1>1, <2>7, <3>1 DEF OutIsPrefix, Done
    <3> QED
      BY <2>7, <3>2 DEF ExactBytes, TypeOK
  <2>8. ASSUME ~abandoned, job \notin part, job \notin cut
        PROVE  Len(out) = Jobs[job].len
    BY <1>1, <2>8, JobFields DEF OutIsPrefix, Done, LoopCounters, TypeOK
  <2>9. ASSUME Jobs[job].kind = "regs"
        PROVE  Len(out) = Jobs[job].len
    BY <1>5, <2>9 DEF Unpacks
  <2>10. ReadsFaithful'
    <3> DEFINE Excused(j) == j \in part \/ (j \in cut /\ Jobs[j].kind # "regs")
    <3>1. ~abandoned /\ ~Excused(job) => out = ExactBytes(job)
      BY <2>7, <2>8, <2>9
    <3>2. \A i \in DOMAIN got' : i \in DOMAIN got \/ i = Len(got) + 1
      BY <2>2
    <3>3. UNCHANGED <<abandoned, cut, part>>
      BY <1>2, <1>5
    <3>4. ASSUME ~abandoned, NEW i \in DOMAIN got', ~Excused(got'[i].job)
          PROVE  got'[i].bytes = ExactBytes(got'[i].job)
      <4>1. CASE i \in DOMAIN got
        BY <2>2, <3>4, <4>1 DEF ReadsFaithful, Exact
      <4>2. CASE i = Len(got) + 1
        BY <2>2, <3>1, <3>4, <4>2
      <4> QED
        BY <3>2, <4>1, <4>2
    <3> QED
      BY <3>3, <3>4 DEF ReadsFaithful, Exact, ExactBytes
  <2> QED
    BY <1>3, <2>3, <2>4, <2>5, <2>6, <2>10
<1> QED
  BY <1>4, <1>5 DEF Return

\* An interrupt ends a read anywhere; the finally clause assumes nothing of it.
LEMMA InterruptKeeps == SessionInv /\ Interrupt => SessionInv'
<1> SUFFICES ASSUME SessionInv, Interrupt
             PROVE  SessionInv'
  OBVIOUS
<1> USE DEF SessionInv
<1>1. /\ pc \in Access /\ ~closed /\ ctx' = "cleanup"
      /\ (pc' = "dead" /\ failed' = failed) \/ (pc' = "cmd" /\ failed' = TRUE)
      /\ UNCHANGED <<hubVars, tries, readVars, got, closed, runs, abandoned, cut, part, dirty, unsent>>
  BY DEF Interrupt, ClosedIsOff, Access
<1>2. TypeOK' /\ ProgramPoints' /\ BusyIsVisible' /\ AbandonedInReads' /\ AtRest'
  BY <1>1 DEF TypeOK, HubTypeOK, ProgramPoints, BusyIsVisible, AbandonedInReads, AtRest,
     Access, Over, Call, hubVars, readVars
<1>3. /\ EnableInFlight' /\ OnlyReads' /\ DisableInFlight' /\ ClosedIsOff'
      /\ LoopCounters' /\ Arguments' /\ ReadInFlight' /\ FetchFinds' /\ OutIsPrefix'
  BY <1>1 DEF EnableInFlight, OnlyReads, DisableInFlight, ClosedIsOff,
     LoopCounters, Arguments, ReadInFlight, FetchFinds, OutIsPrefix, InJob
<1>4. ReadsFaithful'
  BY <1>1 DEF ReadsFaithful, Exact, ExactBytes
<1> QED
  BY <1>2, <1>3, <1>4

\* A dead tool claims nothing.
LEMMA KillKeeps == SessionInv /\ Kill => SessionInv'
<1> SUFFICES ASSUME SessionInv, Kill
             PROVE  SessionInv'
  OBVIOUS
<1> USE DEF SessionInv
<1>1. /\ pc \in Access /\ pc' = "dead" /\ ~closed
      /\ UNCHANGED <<hubVars, ctx, tries, readVars, got, failed, closed, runs,
                     abandoned, cut, part, dirty, unsent>>
  BY DEF Kill, ClosedIsOff, Access
<1>2. TypeOK' /\ ProgramPoints' /\ BusyIsVisible' /\ AbandonedInReads' /\ AtRest'
  BY <1>1 DEF TypeOK, HubTypeOK, ProgramPoints, BusyIsVisible, AbandonedInReads, AtRest,
     Access, Over, hubVars, readVars
<1>3. /\ EnableInFlight' /\ OnlyReads' /\ DisableInFlight' /\ ClosedIsOff'
      /\ LoopCounters' /\ Arguments' /\ ReadInFlight' /\ FetchFinds' /\ OutIsPrefix'
  BY <1>1 DEF EnableInFlight, OnlyReads, DisableInFlight, ClosedIsOff, hubVars,
     LoopCounters, Arguments, ReadInFlight, FetchFinds, OutIsPrefix, InJob, Access
<1>4. ReadsFaithful'
  BY <1>1 DEF ReadsFaithful, Exact, ExactBytes
<1> QED
  BY <1>2, <1>3, <1>4

\* The first access of a run.
LEMMA Start ==
    /\ "ident" \in Access /\ "start" \in Call
    /\ 0 \in 0 .. Retries /\ 1 \in 1 .. MaxRuns /\ 0 \in Nat /\ 1 \in Nat
  BY BoundsAssumption DEF Access, Call

\* A new run begins on whatever mailbox the last one left.
LEMMA RestartKeeps == SessionInv /\ Restart => SessionInv'
<1> SUFFICES ASSUME SessionInv, Restart
             PROVE  SessionInv'
  OBVIOUS
<1> USE DEF SessionInv
<1>1. TypeOK'
  <2>1. HubTypeOK' /\ runs' \in 1 .. MaxRuns
    BY BoundsAssumption DEF Restart, TypeOK, HubTypeOK, hubVars
  <2>2. out' = <<>> /\ got' = <<>>
    BY DEF Restart
  <2>3. out' \in Seq(Byte) /\ got' \in Seq([job : JobNum, bytes : Seq(Byte)])
    BY <2>2
  <2> QED
    BY <2>1, <2>3, BoundsAssumption, Start DEF Restart, TypeOK
<1>4. ProgramPoints' /\ BusyIsVisible' /\ AbandonedInReads' /\ AtRest'
  BY DEF Restart, SessionInv, ProgramPoints, BusyIsVisible, AbandonedInReads, AtRest, Access, hubVars
<1>2. /\ EnableInFlight' /\ OnlyReads' /\ DisableInFlight' /\ ClosedIsOff'
      /\ LoopCounters' /\ Arguments' /\ ReadInFlight' /\ FetchFinds' /\ OutIsPrefix'
  BY DEF Restart, EnableInFlight, OnlyReads, DisableInFlight, ClosedIsOff,
     LoopCounters, Arguments, ReadInFlight, FetchFinds, OutIsPrefix, InJob
<1>3. ReadsFaithful'
  BY DEF Restart, ReadsFaithful
<1> QED
  BY <1>1, <1>2, <1>3, <1>4

\* The hub takes the command.
LEMMA HubLatchKeeps ==
    ASSUME SessionInv, HubLatch,
           UNCHANGED <<pc, ctx, tries, readVars, got, failed, closed, runs,
                       abandoned, cut, part, dirty, unsent>>
    PROVE  SessionInv'
<1> USE DEF SessionInv
<1>1. /\ rcCmd.active
      /\ task' = [op |-> rcCmd.op, offset |-> rcOffset, len |-> rcLen]
      /\ UNCHANGED <<rcMode, rcCmd, rcResult, rcOffset, rcLen, rcData>>
      /\ UNCHANGED Chunk
  BY DEF HubLatch, Chunk, readVars
<1>2. task'.op = rcCmd.op
  BY <1>1
<1>3. HubTypeOK'
  BY <1>1 DEF TypeOK, HubTypeOK
<1>4. TypeOK' /\ ProgramPoints' /\ BusyIsVisible' /\ AbandonedInReads' /\ AtRest'
  BY <1>1, <1>3 DEF TypeOK, ProgramPoints, BusyIsVisible, AbandonedInReads, AtRest, readVars
<1>5. EnableInFlight' /\ OnlyReads' /\ DisableInFlight' /\ ClosedIsOff'
  BY <1>1, <1>2 DEF EnableInFlight, OnlyReads, DisableInFlight, ClosedIsOff
<1>6. ReadInFlight'
  BY <1>1 DEF ReadInFlight, OnlyReads, Arguments, InJob, readVars
<1>7. LoopCounters' /\ Arguments' /\ FetchFinds' /\ OutIsPrefix'
  BY <1>1 DEF LoopCounters, Arguments, FetchFinds, OutIsPrefix, WindowHoldsChunk, InJob, Done,
     readVars
<1>8. ReadsFaithful'
  BY DEF ReadsFaithful, Exact, ExactBytes
<1> QED
  BY <1>4, <1>5, <1>6, <1>7, <1>8

\* The hub answers.
LEMMA HubAnswerKeeps ==
    ASSUME SessionInv, HubAnswer,
           UNCHANGED <<pc, ctx, tries, readVars, got, failed, closed, runs,
                       abandoned, cut, part, dirty, unsent>>
    PROVE  SessionInv'
<1> USE DEF SessionInv
<1>1. /\ task # NoTask /\ task' = NoTask /\ rcCmd.active /\ ~rcCmd'.active
      /\ rcCmd' \in [op : Opcode, active : BOOLEAN]
      /\ UNCHANGED <<rcOffset, rcLen>>
      /\ UNCHANGED Chunk
  BY DEF HubAnswer, Chunk, readVars, BusyIsVisible, TypeOK, HubTypeOK
<1>2. \/ task.op = "disable" /\ rcMode' = "off" /\ rcData' = rcData
         /\ rcResult' \in {"success", "disabled"}
      \/ task.op = "enable" /\ rcMode' = "on" /\ rcResult' = "success" /\ rcData' = rcData
      \/ /\ task.op = "read" /\ rcMode' = rcMode /\ rcResult' = "success"
         /\ rcData' = [s \in Slot |->
                         IF s < task.len THEN ByteAt(task.offset, s) ELSE rcData[s]]
      \/ /\ rcMode' = rcMode /\ rcData' = rcData
         /\ rcResult' \in {"failed", "disabled"}
         /\ rcResult' = "disabled" => task.op = "read"
  BY DEF HubAnswer, Disable, Enable, ReadFromMemory, Refuse
<1>3. HubTypeOK'
  <2>1. rcData' \in [Slot -> Byte]
    <3>1. \A s \in Slot : ByteAt(task.offset, s) \in Byte
      BY WindowAssumption DEF TypeOK, HubTypeOK, Address, Byte, Slot, ByteAt
    <3> QED
      BY <1>2, <3>1 DEF TypeOK, HubTypeOK
  <2>2. rcMode' \in {"on", "off"} /\ rcResult' \in Result
    BY <1>2 DEF TypeOK, HubTypeOK, Result
  <2>3. task' \in [op : Opcode \cup {"none"}, offset : Address, len : 0 .. Window]
    BY <1>1, WindowAssumption DEF NoTask, Address
  <2> QED
    BY <1>1, <2>1, <2>2, <2>3 DEF TypeOK, HubTypeOK
<1>4. TypeOK' /\ ProgramPoints' /\ BusyIsVisible' /\ AbandonedInReads' /\ AtRest'
  BY <1>1, <1>3 DEF TypeOK, ProgramPoints, BusyIsVisible, AbandonedInReads, AtRest, readVars
<1>5. EnableInFlight' /\ OnlyReads' /\ DisableInFlight'
  BY <1>1, <1>2 DEF EnableInFlight, OnlyReads, DisableInFlight, OkToEnable, OkToDisable
<1>6. ClosedIsOff'
  BY <1>1 DEF ClosedIsOff
<1>7. ReadInFlight'
  <2> SUFFICES ASSUME InJob, pc = "poll", ~abandoned, job \notin part, rcResult' \in OkToFetch,
                      NEW s \in Slot, s < Chunk
               PROVE  rcData'[s] = pos + s
    BY <1>1 DEF ReadInFlight, WindowHoldsChunk, InJob, readVars
  <2>1. task.op = "read" /\ task.offset = pos /\ task.len = Chunk
    BY <1>1 DEF ReadInFlight
  <2>2. ByteAt(pos, s) = pos + s
    BY DEF ByteAt, Stray, TypeOK
  <2> QED
    BY <1>2, <2>1, <2>2 DEF OkToFetch
<1>8. FetchFinds'
  BY <1>1 DEF FetchFinds, AtRest, InJob
<1>9. LoopCounters' /\ Arguments' /\ OutIsPrefix'
  BY <1>1 DEF LoopCounters, Arguments, OutIsPrefix, InJob, Done, readVars
<1>10. ReadsFaithful'
  BY DEF ReadsFaithful, Exact, ExactBytes
<1> QED
  BY <1>4, <1>5, <1>6, <1>7, <1>8, <1>9, <1>10

\* A step that changes nothing keeps the invariant.
LEMMA StutterKeeps == SessionInv /\ UNCHANGED vars => SessionInv'
<1> SUFFICES ASSUME SessionInv, UNCHANGED vars
             PROVE  SessionInv'
  OBVIOUS
<1> USE DEF SessionInv, vars, hubVars, readVars
<1>1. TypeOK' /\ ProgramPoints' /\ BusyIsVisible' /\ AbandonedInReads' /\ AtRest'
  BY DEF TypeOK, HubTypeOK, ProgramPoints, BusyIsVisible, AbandonedInReads, AtRest
<1>2. EnableInFlight' /\ OnlyReads' /\ DisableInFlight' /\ ClosedIsOff'
  BY DEF EnableInFlight, OnlyReads, DisableInFlight, ClosedIsOff
<1>3. LoopCounters' /\ Arguments' /\ ReadInFlight' /\ FetchFinds' /\ OutIsPrefix'
  BY DEF LoopCounters, Arguments, ReadInFlight, FetchFinds, OutIsPrefix, InJob, Done,
     WindowHoldsChunk, Chunk
<1>4. ReadsFaithful'
  BY DEF ReadsFaithful, Exact, ExactBytes
<1> QED
  BY <1>1, <1>2, <1>3, <1>4
----------------------------------------------------------------------------
\* The inductive invariant holds in every reachable state, whatever the jobs,
\* the window, the retries and the faults.
THEOREM SessionInvariant == Spec => []SessionInv
<1>1. Init => SessionInv
  <2> SUFFICES ASSUME Init
               PROVE  SessionInv
    OBVIOUS
  <2>1. HubTypeOK
    <3>1. task \in [op : Opcode \cup {"none"}, offset : Address, len : 0 .. Window]
      BY WindowAssumption DEF Init, HubInit, NoTask, Address
    <3>2. rcData \in [Slot -> Byte]
      BY DEF Init, HubInit, Byte, Address
    <3> QED
      BY <3>1, <3>2, WindowAssumption DEF Init, HubInit, HubTypeOK, Opcode, Result, Address
  <2>2. out \in Seq(Byte) /\ got \in Seq([job : JobNum, bytes : Seq(Byte)])
    <3>1. out = <<>> /\ got = <<>>
      BY DEF Init, FreshRun
    <3> QED
      BY <3>1
  <2>3. TypeOK
    BY <2>1, <2>2, BoundsAssumption, Start DEF Init, FreshRun, TypeOK
  <2>4. ProgramPoints /\ BusyIsVisible /\ AbandonedInReads /\ AtRest
    BY DEF Init, HubInit, FreshRun, ProgramPoints, BusyIsVisible, AbandonedInReads, AtRest
  <2>5. /\ EnableInFlight /\ OnlyReads /\ DisableInFlight /\ ClosedIsOff
        /\ LoopCounters /\ Arguments /\ ReadInFlight /\ FetchFinds /\ OutIsPrefix
    BY DEF Init, FreshRun, EnableInFlight, OnlyReads, DisableInFlight, ClosedIsOff,
       LoopCounters, Arguments, ReadInFlight, FetchFinds, OutIsPrefix, InJob
  <2>6. ReadsFaithful
    BY DEF Init, FreshRun, ReadsFaithful
  <2> QED
    BY <2>3, <2>4, <2>5, <2>6 DEF SessionInv
<1>2. SessionInv /\ [Next]_vars => SessionInv'
  <2> SUFFICES ASSUME SessionInv, [Next]_vars
               PROVE  SessionInv'
    OBVIOUS
  <2>1. CASE Tool
    BY <2>1, ReadIdentityKeeps, WriteDataKeeps, WriteOffsetKeeps, WriteLenKeeps,
       WriteCmdKeeps, PollKeeps, ReadDataKeeps, ReturnKeeps DEF Tool
  <2>2. CASE Interrupt \/ Kill \/ Restart
    BY <2>2, InterruptKeeps, KillKeeps, RestartKeeps
  <2>3. CASE Hub
    BY <2>3, HubLatchKeeps, HubAnswerKeeps DEF Hub, HubNext
  <2>4. CASE UNCHANGED vars
    BY <2>4, StutterKeeps
  <2> QED
    BY <2>1, <2>2, <2>3, <2>4 DEF Next
<1> QED
  BY <1>1, <1>2, PTL DEF Spec

\* TypeOK, for every value of the constants.
THEOREM TypeCorrect == Spec => []TypeOK
<1>1. SessionInv => TypeOK
  BY DEF SessionInv
<1> QED
  BY <1>1, SessionInvariant, PTL

\* After enable() the chip is in remote-control mode until the finally clause,
\* whatever earlier runs left in the mailbox, unless its trigger was not sent.
THEOREM SessionIsOpen == Spec => []ReadOnlyInSession
<1>1. SessionInv => ReadOnlyInSession
  BY DEF SessionInv, OnlyReads, ReadOnlyInSession
<1> QED
  BY <1>1, SessionInvariant, PTL

\* Only a swallowed failure makes a read trigger over a command in flight.
THEOREM TriggersAreQuiet == Spec => []QuietAtTrigger
<1>1. SessionInv => QuietAtTrigger
  BY DEF SessionInv, AtRest, QuietAtTrigger, Access
<1> QED
  BY <1>1, SessionInvariant, PTL

\* The answers the session accepts are the chip's bytes, unless a read was
\* abandoned in flight or this one had a short write or (but for register
\* spans) a short reply.
THEOREM ReadsAreFaithful == Spec => []ReadsFaithful
<1>1. SessionInv => ReadsFaithful
  BY DEF SessionInv
<1> QED
  BY <1>1, SessionInvariant, PTL

\* A disable() that returned normally, whose trigger was sent, and not over a
\* command in flight, has turned remote-control mode off.
THEOREM LeftOpenOnlyByFailure == Spec => []LeftOpenOnlyIf
<1>1. SessionInv => LeftOpenOnlyIf
  BY DEF SessionInv, ClosedIsOff, LeftOpenOnlyIf
<1> QED
  BY <1>1, SessionInvariant, PTL
-----------------------------------------------------------------------------
(***************************************************************************)
(* A session implements RemoteReads, for every value of the constants: the *)
(* first state maps to an idle reader, and every step of the tool, of its  *)
(* environment and of the hub to a step of the reader or to none.          *)
(*                                                                         *)
(* Most accesses are invisible; what is seen are the opening of the        *)
(* session, a read that returns, is passed over or goes wrong, and the     *)
(* end.  That an answer delivered is exact is what SessionInv is for.      *)
(***************************************************************************)

\* The reader has one answer for each read of the session.
LEMMA AnswerCount ==
    /\ Len([j \in JobNum |-> ExactBytes(j)]) = Len(Jobs)
    /\ Len(Jobs) \in Nat /\ JobNum = 1 .. Len(Jobs)
<1>1. Len(Jobs) \in Nat /\ JobNum = 1 .. Len(Jobs)
  BY JobsAssumption DEF JobNum
<1> QED
  BY <1>1

\* The last read is the one no other follows.
LEMMA LastJob ==
    ASSUME NEW n \in Nat, NEW j \in 1 .. n
    PROVE  j \in Nat /\ (j + 1 \in 1 .. n <=> j # n)
  OBVIOUS

\* The phases of a session that is not lost.
LEMMA PhaseFacts ==
    ASSUME SessionInv
    PROVE  /\ Lost => Phase = "lost"
           /\ ~Lost /\ ctx = "cleanup" => Phase = IF failed THEN "failed" ELSE "done"
           /\ ~Lost /\ ctx # "cleanup" /\ pc = "dead" => Phase = "failed"
           /\ ~Lost /\ ctx \in {"enabled", "read"} /\ pc # "dead" => Phase = "open"
           /\ ~Lost /\ ctx \in {"start", "toggle", "enable"} /\ pc # "dead" => Phase = "idle"
<1>1. ctx \in Call /\ (failed => ctx = "cleanup") /\ failed \in BOOLEAN
  BY DEF SessionInv, TypeOK, ProgramPoints
<1> QED
  BY <1>1 DEF Phase, Call

\* A step inside a call is invisible.
LEMMA InsideCall ==
    ASSUME SessionInv, SessionInv', pc \in Access, pc' \in Access,
           ctx' = ctx, job' = job, got' = got, failed' = failed, Lost' = Lost
    PROVE  UNCHANGED Reader!vars
<1>1. pc # "dead" /\ pc' # "dead"
  BY DEF Access
<1>2. Phase' = Phase
  BY <1>1 DEF Phase
<1> QED
  BY <1>2 DEF Reader!vars, NextRead, Delivered

\* A read of the session is over and the next one begins, or the finally clause.
LEMMA NextReadAdvances ==
    ASSUME SessionInv, SessionInv', ctx = "read", pc \in Access, ~Lost, ~Lost',
           StartJob(job + 1), ~failed'
    PROVE  Reader!Advance /\ NextRead = job
<1>1. pc # "dead" /\ job \in JobNum /\ job \in Nat
  BY DEF Access, SessionInv, TypeOK, LoopCounters, InJob
<1>2. Phase = "open" /\ NextRead = job
  BY <1>1, PhaseFacts DEF NextRead
<1>3. CASE job + 1 \in JobNum
  <2>1. ctx' = "read" /\ pc' = "offset" /\ job' = job + 1
    BY <1>3 DEF StartJob
  <2>2. Phase' = "open"
    BY <2>1 DEF Phase
  <2>3. NextRead' = job + 1
    BY <2>1, <2>2 DEF NextRead
  <2>4. job # Len(Jobs)
    BY <1>1, <1>3, AnswerCount, LastJob
  <2> QED
    BY <1>2, <2>2, <2>3, <2>4, AnswerCount DEF Reader!Advance
<1>4. CASE job + 1 \notin JobNum
  <2>1. ctx' = "cleanup" /\ pc' = "cmd"
    BY <1>4 DEF StartJob
  <2>2. Phase' = "done"
    BY <2>1 DEF Phase
  <2>3. job = Len(Jobs)
    BY <1>1, <1>4, AnswerCount, LastJob
  <2>4. NextRead' = job + 1
    BY <2>2, <2>3 DEF NextRead
  <2> QED
    BY <1>2, <2>2, <2>3, <2>4, AnswerCount DEF Reader!Advance
<1> QED
  BY <1>3, <1>4

\* An exception: the guarded read is passed over, or the session is lost, or it
\* fails; the finally clause keeps its own exceptions to itself.
LEMMA RaiseRefines ==
    ASSUME SessionInv, SessionInv', Raise, pc \in Access, cut' = cut, part' = part
    PROVE  Reader!Next \/ UNCHANGED Reader!vars
<1>1. got' = got
  BY DEF Raise
<1>2. pc # "dead"
  BY DEF Access
<1>3. CASE SwallowBoard
  <2>1. /\ ctx = "read" /\ ~failed /\ ~failed' /\ (abandoned => abandoned')
        /\ StartJob(job + 1) /\ job \in JobNum /\ Jobs[job].kind = "board"
    BY <1>3 DEF SwallowBoard, Guarded, SessionInv, ProgramPoints, LoopCounters, InJob
  <2>2. CASE Lost
    <3>1. Lost'
      BY <2>1, <2>2 DEF Lost
    <3> QED
      BY <2>2, <3>1, PhaseFacts DEF Phase, NextRead, Delivered, Reader!vars
  <2>3. CASE ~Lost /\ Lost'
    <3>1. Phase = "open" /\ Phase' = "lost"
      BY <1>2, <2>1, <2>3, PhaseFacts DEF Phase
    <3> QED
      BY <2>3, <3>1 DEF NextRead, Delivered, Reader!Lose, Reader!Next
  <2>4. CASE ~Lost /\ ~Lost'
    <3>1. Reader!Advance /\ NextRead = job
      BY <2>1, <2>4, NextReadAdvances
    <3>2. Delivered' = Delivered
      BY <1>1, <2>4 DEF Delivered
    <3> QED
      BY <2>1, <3>1, <3>2 DEF Reader!PassOver, Reader!Next
  <2> QED
    BY <2>2, <2>3, <2>4
<1>4. CASE RunFinally
  <2>1. /\ ctx # "cleanup" /\ ~failed /\ ctx \in Call
        /\ ctx' = "cleanup" /\ failed' /\ job' = job /\ Lost' = Lost
    BY <1>4 DEF RunFinally, readVars, Lost, SessionInv, TypeOK, ProgramPoints
  <2>2. CASE Lost
    BY <2>1, <2>2 DEF Phase, NextRead, Delivered, Reader!vars
  <2>3. CASE ~Lost
    <3>1. Phase \in {"idle", "open"} /\ Phase' = "failed"
      BY <1>2, <2>1, <2>3, PhaseFacts DEF Call, Phase
    <3>2. NextRead' = NextRead /\ Delivered' = Delivered
      BY <1>1, <2>1, <2>3, <3>1 DEF NextRead, Delivered
    <3> QED
      BY <3>1, <3>2 DEF Reader!Fail, Reader!Next
  <2> QED
    BY <2>2, <2>3
<1>5. CASE SwallowDisable
  <2>1. /\ ctx = "cleanup" /\ ctx' = "cleanup" /\ failed' = failed
        /\ job' = job /\ Lost' = Lost
    BY <1>5 DEF SwallowDisable, readVars, Lost
  <2>2. Phase' = Phase
    BY <2>1 DEF Phase
  <2> QED
    BY <1>1, <2>1, <2>2 DEF NextRead, Delivered, Reader!vars
<1> QED
  BY <1>3, <1>4, <1>5 DEF Raise

\* The native reads: those before enable() are invisible, those after it end
\* with the first read of the session.
LEMMA ReadIdentityRefines ==
    ASSUME SessionInv, SessionInv', ReadIdentity
    PROVE  Reader!Next \/ UNCHANGED Reader!vars
<1>1. /\ pc = "ident" /\ pc \in Access /\ pc # "dead" /\ ctx \in {"start", "enabled"}
      /\ cut' = cut /\ part' = part /\ ~failed
  BY DEF ReadIdentity, SessionInv, ProgramPoints, Access
<1>2. CASE Raise
  BY <1>1, <1>2, RaiseRefines
<1>3. CASE /\ IF ctx = "start" THEN StartEnable ELSE StartJob(1)
           /\ UNCHANGED <<got, failed, closed, runs, abandoned>>
  <2>1. Lost' = Lost /\ got' = got /\ failed' = failed
    BY <1>1, <1>3 DEF Lost
  <2>2. CASE Lost
    BY <2>1, <2>2 DEF Phase, NextRead, Delivered, Reader!vars
  <2>3. CASE ~Lost /\ ctx = "start"
    <3>1. ctx' = "toggle" /\ pc' = "cmd" /\ job' = job
      BY <1>3, <2>3 DEF StartEnable, readVars
    <3>2. Phase = "idle" /\ Phase' = "idle"
      BY <1>1, <2>1, <2>3, <3>1, PhaseFacts DEF Phase
    <3> QED
      BY <2>1, <2>3, <3>1, <3>2 DEF NextRead, Delivered, Reader!vars
  <2>4. CASE ~Lost /\ ctx = "enabled"
    <3>1. 1 \in JobNum
      BY AnswerCount, JobsAssumption
    <3>2. ctx' = "read" /\ pc' = "offset" /\ job' = 1
      BY <1>3, <2>4, <3>1 DEF StartJob
    <3>3. Phase = "open" /\ Phase' = "open"
      BY <1>1, <2>1, <2>4, <3>2, PhaseFacts DEF Phase
    <3>4. job = 1
      BY <2>4 DEF SessionInv, ProgramPoints
    <3> QED
      BY <2>1, <2>4, <3>2, <3>3, <3>4 DEF NextRead, Delivered, Reader!vars
  <2> QED
    BY <1>1, <2>2, <2>3, <2>4
<1> QED
  BY <1>2, <1>3 DEF ReadIdentity, ReplyFails

\* A step inside a call that may find the session lost.
LEMMA MayLose ==
    ASSUME SessionInv, SessionInv', pc \in Access, pc' \in Access,
           ctx' = ctx, job' = job, got' = got, failed' = failed,
           Lost => Lost', ctx # "read" => Lost' = Lost
    PROVE  Reader!Next \/ UNCHANGED Reader!vars
<1>1. Lost \in BOOLEAN /\ Lost' \in BOOLEAN
  BY DEF Lost, SessionInv, TypeOK
<1>2. CASE Lost' = Lost
  BY <1>2, InsideCall
<1>3. CASE ~Lost /\ Lost' /\ ctx = "read"
  <2>1. Phase = "open" /\ Phase' = "lost"
    BY <1>3, PhaseFacts DEF Phase, Access
  <2> QED
    BY <1>3, <2>1 DEF NextRead, Delivered, Reader!Lose, Reader!Next
<1> QED
  BY <1>1, <1>2, <1>3

\* The writes: invisible, unless they fail or a read's is short.
LEMMA WriteRefines ==
    ASSUME SessionInv, SessionInv', WriteData \/ WriteOffset \/ WriteLen \/ WriteCmd
    PROVE  Reader!Next \/ UNCHANGED Reader!vars
<1>1. pc \in Access /\ cut' = cut
  BY DEF WriteData, WriteOffset, WriteLen, WriteCmd, Access
<1>2. CASE AuxFails
  BY <1>1, <1>2, RaiseRefines DEF AuxFails
<1>3. ASSUME NEW q \in Access, NEW whole \in BOOLEAN, GoesOn(q, whole)
      PROVE  Reader!Next \/ UNCHANGED Reader!vars
  <2>1. /\ pc' = q /\ UNCHANGED <<ctx, readVars, got, failed, closed, runs, abandoned>>
        /\ part \subseteq part'
        /\ ctx # "read" => part' = part
    BY <1>1, <1>3, GoesOnFacts
  <2>2. (Lost => Lost') /\ (ctx # "read" => Lost' = Lost)
    BY <1>1, <2>1 DEF Lost
  <2>3. pc' \in Access /\ ctx' = ctx /\ job' = job /\ got' = got /\ failed' = failed
    BY <1>3, <2>1 DEF readVars
  <2> QED
    BY <1>1, <2>2, <2>3, MayLose
<1>4. AuxFails \/ \E q \in Access, whole \in BOOLEAN : GoesOn(q, whole)
  <2>1. {"offset", "len", "cmd", "poll"} \subseteq Access
    BY DEF Access
  <2>2. CASE WriteData
    BY <2>1, <2>2 DEF WriteData
  <2>3. CASE WriteOffset
    BY <2>1, <2>3 DEF WriteOffset
  <2>4. CASE WriteLen
    BY <2>1, <2>4 DEF WriteLen
  <2>5. CASE WriteCmd
    BY <2>1, <2>5 DEF WriteCmd
  <2> QED
    BY <2>2, <2>3, <2>4, <2>5
<1> QED
  BY <1>2, <1>3, <1>4

\* A poll: seen are the answer to ENABLE, which opens the session, and failures.
LEMMA PollRefines ==
    ASSUME SessionInv, SessionInv', Poll
    PROVE  Reader!Next \/ UNCHANGED Reader!vars
<1>1. /\ pc = "poll" /\ pc \in Access /\ pc # "dead" /\ ctx \in Call
      /\ cut' = cut /\ part' = part
  BY DEF Poll, Access, SessionInv, TypeOK
<1>2. CASE Raise
  BY <1>1, <1>2, RaiseRefines
<1>3. CASE \E q \in {"poll", "fetch"} : GoTo(q)
  <2>1. pc' \in Access /\ ctx' = ctx /\ job' = job /\ got' = got /\ failed' = failed
    BY <1>3 DEF GoTo, readVars, Access
  <2>2. Lost' = Lost
    BY <1>1, <1>3 DEF GoTo, Lost
  <2> QED
    BY <1>1, <2>1, <2>2, InsideCall
<1>4. CASE Disabled
  <2>1. /\ job' = job /\ got' = got /\ failed' = failed /\ Lost' = Lost
        /\ \/ ctx = "toggle" /\ ctx' = "enable" /\ pc' = "data"
           \/ ctx = "cleanup" /\ ctx' = "cleanup" /\ pc' = "exit"
    BY <1>1, <1>4 DEF Disabled, readVars, Lost
  <2>2. Phase' = Phase
    BY <1>1, <2>1 DEF Phase
  <2> QED
    BY <2>1, <2>2 DEF NextRead, Delivered, Reader!vars
<1>5. CASE Enabled
  <2>1. /\ job' = job /\ got' = got /\ failed' = failed /\ Lost' = Lost
        /\ ctx = "enable" /\ ctx' = "enabled" /\ pc' = "ident" /\ ~failed
    BY <1>1, <1>5 DEF Enabled, readVars, Lost, SessionInv, ProgramPoints
  <2>2. CASE Lost
    BY <2>1, <2>2 DEF Phase, NextRead, Delivered, Reader!vars
  <2>3. CASE ~Lost
    <3>1. Phase = "idle" /\ Phase' = "open"
      BY <1>1, <2>1, <2>3, PhaseFacts DEF Phase
    <3> QED
      BY <2>1, <2>3, <3>1 DEF NextRead, Delivered, Reader!Open, Reader!Next
  <2> QED
    BY <2>2, <2>3
<1> QED
  BY <1>2, <1>3, <1>4, <1>5 DEF Poll, PollBusy, TimesOut, PollDone, PollFails, Answered,
     Refused, ReplyFails

\* The data window: invisible, unless the reply was short and the session is lost.
LEMMA ReadDataRefines ==
    ASSUME SessionInv, SessionInv', ReadData
    PROVE  Reader!Next \/ UNCHANGED Reader!vars
<1>1. pc = "fetch" /\ pc \in Access /\ pc # "dead"
  BY DEF ReadData, Access
<1>2. ctx = "read" /\ ~failed
  BY <1>1 DEF SessionInv, ProgramPoints, TypeOK, Call
<1>5. part' = part
  BY DEF ReadData
<1>3. CASE AuxFails /\ UNCHANGED cut
  BY <1>1, <1>3, <1>5, RaiseRefines DEF AuxFails
<1>4. CASE /\ pc' = IF remaining > Chunk THEN "offset" ELSE "return"
           /\ cut \subseteq cut'
           /\ UNCHANGED <<ctx, job, got, failed, closed, runs, abandoned>>
  <2>1. pc' \in Access
    BY <1>4 DEF Access
  <2>2. Lost => Lost'
    BY <1>4, <1>5 DEF Lost
  <2> QED
    BY <1>1, <1>2, <1>4, <2>1, <2>2, MayLose
<1> QED
  BY <1>3, <1>4 DEF ReadData

\* A read returns: it is delivered, with exactly its bytes.
LEMMA ReturnRefines ==
    ASSUME SessionInv, SessionInv', Return
    PROVE  Reader!Next \/ UNCHANGED Reader!vars
<1>1. /\ pc = "return" /\ pc \in Access /\ ctx = "read" /\ ~failed
      /\ cut' = cut /\ part' = part /\ job \in JobNum
  BY DEF Return, Access, SessionInv, ProgramPoints, TypeOK, Call, LoopCounters, InJob
<1>2. CASE Raise
  BY <1>1, <1>2, RaiseRefines
<1>3. CASE /\ got' = Append(got, [job |-> job, bytes |-> out])
           /\ StartJob(job + 1)
           /\ UNCHANGED <<failed, closed, runs, abandoned>>
  <2>1. Lost' = Lost
    BY <1>1, <1>3 DEF Lost
  <2>2. CASE Lost
    BY <2>1, <2>2 DEF Phase, NextRead, Delivered, Reader!vars
  <2>3. CASE ~Lost
    <3>1. Reader!Advance /\ NextRead = job
      BY <1>1, <1>3, <2>1, <2>3, NextReadAdvances
    <3>2. /\ Len(got) + 1 \in DOMAIN got'
          /\ got'[Len(got) + 1] = [job |-> job, bytes |-> out]
      <4>1. got \in Seq([job : JobNum, bytes : Seq(Byte)]) /\ out \in Seq(Byte)
        BY DEF SessionInv, TypeOK
      <4> QED
        BY <1>1, <1>3, <4>1
    <3>3. \A i \in DOMAIN got' : got'[i].bytes = ExactBytes(got'[i].job)
      BY <2>1, <2>3 DEF SessionInv, ReadsFaithful, Lost, Exact, ExactBytes
    <3>4. out = ExactBytes(job)
      BY <3>2, <3>3
    <3>5. Delivered' = Append(Delivered, [job |-> job, bytes |-> ExactBytes(job)])
      BY <1>3, <2>1, <2>3, <3>4 DEF Delivered
    <3> QED
      BY <1>1, <3>1, <3>5 DEF Reader!Deliver, Reader!Next
  <2> QED
    BY <2>2, <2>3
<1> QED
  BY <1>2, <1>3 DEF Return

\* An interrupt and a kill make the session fail, if it had not come to its end.
LEMMA OutsideRefines ==
    ASSUME SessionInv, SessionInv', Interrupt \/ Kill
    PROVE  Reader!Next \/ UNCHANGED Reader!vars
<1>1. /\ pc \in Access /\ pc # "dead" /\ ctx \in Call
      /\ job' = job /\ got' = got /\ Lost' = Lost /\ (failed => ctx = "cleanup")
  BY DEF Interrupt, Kill, readVars, Lost, Access, SessionInv, TypeOK, ProgramPoints
<1>2. \/ ctx' = ctx /\ failed' = failed /\ pc' = "dead"
      \/ ctx # "cleanup" /\ ctx' = "cleanup" /\ failed' = TRUE
  BY DEF Interrupt, Kill
<1>3. CASE Lost
  BY <1>1, <1>3 DEF Phase, NextRead, Delivered, Reader!vars
<1>4. CASE ~Lost /\ ctx = "cleanup"
  <2>1. Phase' = Phase
    BY <1>1, <1>2, <1>4 DEF Phase
  <2> QED
    BY <1>1, <2>1 DEF NextRead, Delivered, Reader!vars
<1>5. CASE ~Lost /\ ctx # "cleanup"
  <2>1. Phase \in {"idle", "open"}
    BY <1>1, <1>5, PhaseFacts DEF Call
  <2>2. Phase' = "failed"
    BY <1>1, <1>2, <1>5, PhaseFacts DEF Phase
  <2> QED
    BY <1>1, <1>5, <2>1, <2>2 DEF NextRead, Delivered, Reader!Fail, Reader!Next
<1> QED
  BY <1>3, <1>4, <1>5

\* A new run is a new reader, whatever became of the last.
LEMMA RestartRefines ==
    ASSUME SessionInv, SessionInv', Restart
    PROVE  Reader!Next \/ UNCHANGED Reader!vars
<1>1. (pc = "exit" /\ ctx = "cleanup") \/ pc = "dead"
  BY DEF Restart, Over, SessionInv, ProgramPoints
<1>2. ctx \in Call /\ Lost \in BOOLEAN
  BY DEF SessionInv, TypeOK, Lost
<1>3. Phase \in {"done", "failed", "lost"}
  BY <1>1, <1>2, PhaseFacts
<1>4. ~Lost' /\ Phase' = "idle" /\ NextRead' = 1 /\ Delivered' = <<>>
  BY DEF Restart, Lost, Phase, NextRead, Delivered
<1> QED
  BY <1>3, <1>4 DEF Reader!Again, Reader!Next

\* The reader does not see the hub, nor a step that changes nothing.
LEMMA HubRefines ==
    ASSUME Hub \/ UNCHANGED vars
    PROVE  UNCHANGED Reader!vars
<1>1. UNCHANGED <<pc, ctx, job, got, failed, abandoned, cut, part>>
  BY DEF Hub, vars, readVars
<1> QED
  BY <1>1 DEF Phase, Lost, NextRead, Delivered, Reader!vars

\* A session implements an atomic reader of the chip: every read is answered at
\* most once, in order and with exactly its bytes, until a read is abandoned in
\* flight or has a short reply or write, and again in every later run.
THEOREM SessionReads == Spec => ReadsAtomically
<1>1. Init => Reader!Init
  BY DEF Init, FreshRun, Reader!Init, Phase, Lost, NextRead, Delivered
<1>2. SessionInv /\ SessionInv' /\ [Next]_vars => [Reader!Next]_(Reader!vars)
  <2> SUFFICES ASSUME SessionInv, SessionInv', [Next]_vars
               PROVE  Reader!Next \/ UNCHANGED Reader!vars
    OBVIOUS
  <2>1. CASE ReadIdentity
    BY <2>1, ReadIdentityRefines
  <2>2. CASE WriteData \/ WriteOffset \/ WriteLen \/ WriteCmd
    BY <2>2, WriteRefines
  <2>3. CASE Poll
    BY <2>3, PollRefines
  <2>4. CASE ReadData
    BY <2>4, ReadDataRefines
  <2>5. CASE Return
    BY <2>5, ReturnRefines
  <2>6. CASE Interrupt \/ Kill
    BY <2>6, OutsideRefines
  <2>7. CASE Restart
    BY <2>7, RestartRefines
  <2>8. CASE Hub \/ UNCHANGED vars
    BY <2>8, HubRefines
  <2> QED
    BY <2>1, <2>2, <2>3, <2>4, <2>5, <2>6, <2>7, <2>8 DEF Next, Tool
<1> QED
  BY <1>1, <1>2, SessionInvariant, PTL DEF Spec, ReadsAtomically, Reader!Spec
=============================================================================
