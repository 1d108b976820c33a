----------------------------- MODULE RcSession -----------------------------
(***************************************************************************)
(* A remote-control session of vmmdump: cli.cmd_live and, under it,        *)
(* SynapticsRC (rc.py), one DPCD access per step, over the hub's mailbox   *)
(* of RcHub.  The session is                                               *)
(*                                                                         *)
(*   identity; enable() = DISABLE toggle, then ENABLE with PRIUS;          *)
(*   identity again, whose board-id read is guarded by except Exception;   *)
(*   the remaining reads; in the finally clause, disable().                *)
(*                                                                         *)
(* Any access can fail on the AUX channel, a poll can run out of retries,  *)
(* a reply or a write can be short, the user can interrupt the tool, and   *)
(* the process can be killed and the tool started again on the hub it left *)
(* behind.  The transports check neither the length of a reply nor how     *)
(* much of a write went out (DpcdTransport): a short one is no error.      *)
(***************************************************************************)
EXTENDS RcHub, Sequences

CONSTANTS
    Jobs,       \* the read_memory calls of a session, in order
    Retries,    \* polls of RC_CMD before a command is given up
    MaxRuns,    \* bound: how often the tool is started
    Faults      \* which of FaultKind the environment shows

Kind == {"board", "regs", "sram"}
FaultKind == {"aux", "short", "slow", "intr", "kill"}

ASSUME JobsAssumption ==
    Jobs \in Seq([kind : Kind, addr : Nat, len : Nat \ {0}]) /\ Len(Jobs) > 0
ASSUME BoundsAssumption == Retries \in Nat \ {0} /\ MaxRuns \in Nat \ {0}
ASSUME FaultsAssumption == Faults \subseteq FaultKind

VARIABLES
    pc,         \* the DPCD access the tool makes next
    ctx,        \* the call it is in
    tries,      \* polls made for the command in progress
    job,        \* the read in progress, an index of Jobs
    pos,        \* _get_command: the chip address of the next chunk
    remaining,  \* _get_command: the bytes still to ask for
    out,        \* _get_command: the bytes collected
    got,        \* the answers the session accepted: job and bytes
    failed,     \* an exception is on its way through the finally clause
    closed,     \* the disable() of the finally clause returned normally
    runs,       \* how often the tool was started
    \* history, never read by an action:
    abandoned,  \* the guarded read was given up with bit 7 still set
    cut,        \* the reads that had a short reply
    part,       \* the reads that had a short write
    dirty,      \* the last DISABLE was written over a command in flight
    unsent      \* the last trigger outside the reads never reached RC_CMD

readVars == <<job, pos, remaining, out>>
vars == <<hubVars, pc, ctx, tries, readVars, got, failed, closed, runs,
          abandoned, cut, part, dirty, unsent>>

Access == {"ident", "data", "offset", "len", "cmd", "poll", "fetch", "return"}
Over   == {"exit", "dead"}
Call   == {"start", "toggle", "enable", "enabled", "read", "cleanup"}
JobNum == DOMAIN Jobs

TypeOK ==
    /\ HubTypeOK
    /\ pc \in Access \cup Over
    /\ ctx \in Call
    /\ tries \in 0 .. Retries
    /\ job \in Nat
    /\ pos \in Nat
    /\ remaining \in Nat
    /\ out \in Seq(Byte)
    /\ got \in Seq([job : JobNum, bytes : Seq(Byte)])
    /\ runs \in 1 .. MaxRuns
    /\ failed \in BOOLEAN /\ closed \in BOOLEAN
    /\ abandoned \in BOOLEAN /\ dirty \in BOOLEAN /\ unsent \in BOOLEAN
    /\ cut \subseteq JobNum /\ part \subseteq JobNum

FreshRun ==
    /\ pc = "ident" /\ ctx = "start" /\ tries = 0
    /\ job = 1 /\ pos = 0 /\ remaining = 0 /\ out = <<>>
    /\ got = <<>> /\ failed = FALSE /\ closed = FALSE
    /\ abandoned = FALSE /\ cut = {} /\ part = {} /\ dirty = FALSE /\ unsent = FALSE

Init == HubInit /\ FreshRun /\ runs = 1
----------------------------------------------------------------------------
(* Where control goes.                                                     *)

\* Mutants: a result code that the callers must not take for success.
DisableTakesAnything == Result
FetchTakesAnything   == Result

OkToDisable == {"success", "disabled"}
OkToEnable  == {"success"}
OkToFetch   == {"success"}

\* The call of read_memory for job j, or the finally clause after the last.
StartJob(j) ==
    IF j \in JobNum
    THEN /\ ctx' = "read" /\ pc' = "offset"
         /\ job' = j /\ pos' = Jobs[j].addr /\ remaining' = Jobs[j].len
         /\ out' = <<>>
    ELSE ctx' = "cleanup" /\ pc' = "cmd" /\ UNCHANGED readVars

\* Mutant: enable() without its toggle.
EnableWithoutToggle == ctx' = "enable" /\ pc' = "data" /\ UNCHANGED readVars

\* enable() begins with the DISABLE toggle.
StartEnable == ctx' = "toggle" /\ pc' = "cmd" /\ UNCHANGED readVars

\* read_identity swallows what its board-id read raises.
Guarded == ctx = "read" /\ Jobs[job].kind = "board"

SwallowBoard ==
    /\ Guarded
    /\ StartJob(job + 1)
    /\ abandoned' = (abandoned \/ rcCmd'.active)
    /\ UNCHANGED <<failed, closed>>

\* Any other exception of the try block goes through the finally clause.
RunFinally ==
    /\ ctx # "cleanup" /\ ~Guarded
    /\ ctx' = "cleanup" /\ pc' = "cmd" /\ failed' = TRUE
    /\ UNCHANGED <<readVars, closed, abandoned>>

\* The finally clause swallows what its disable() raises.
SwallowDisable ==
    /\ ctx = "cleanup"
    /\ pc' = "exit"
    /\ UNCHANGED <<readVars, ctx, failed, closed, abandoned>>

Raise ==
    /\ SwallowBoard \/ RunFinally \/ SwallowDisable
    /\ UNCHANGED <<got, runs>>

\* The access succeeded; q is next.
GoTo(q) ==
    /\ pc' = q
    /\ UNCHANGED <<ctx, readVars, got, failed, closed, runs, abandoned>>

\* The AUX transaction of the access failed: OSError.
AuxFails == "aux" \in Faults /\ Raise /\ UNCHANGED part

\* The write returned normally: whole, or short and nobody noticed.
GoesOn(q, whole) ==
    /\ whole \/ "short" \in Faults
    /\ GoTo(q)
    /\ part' = IF whole \/ ctx # "read" THEN part ELSE part \cup {job}

\* It failed, or its reply lacks the byte the caller takes from it: IndexError.
ReplyFails == {"aux", "short"} \cap Faults # {} /\ Raise
----------------------------------------------------------------------------
(* The DPCD accesses.  A write that fails may or may not have taken effect, *)
(* wholly or in part; so may one that is short, and the tool goes on.       *)

\* The six native reads of read_identity (no mailbox register among them).
ReadIdentity ==
    /\ pc = "ident"
    /\ UNCHANGED <<hubVars, tries, cut, part, dirty, unsent>>
    /\ \/ /\ IF ctx = "start" THEN StartEnable ELSE StartJob(1)
          /\ UNCHANGED <<got, failed, closed, runs, abandoned>>
       \/ ReplyFails

\* _set_command: the payload of ENABLE.
WriteData ==
    /\ pc = "data"
    /\ UNCHANGED <<rcMode, rcCmd, rcResult, rcOffset, rcLen, task, tries, cut, dirty, unsent>>
    /\ \E head \in {Prius, Stray} :
          /\ rcData' = [rcData EXCEPT ![0] = head]
          /\ GoesOn("offset", head = Prius) \/ AuxFails

WriteOffset ==
    /\ pc = "offset"
    /\ UNCHANGED <<rcMode, rcCmd, rcResult, rcLen, rcData, task, tries, cut, dirty, unsent>>
    /\ rcOffset' \in {pos, Stray}
    /\ GoesOn("len", rcOffset' = pos) \/ AuxFails

\* Mutant: every chunk is a full window.
FullChunk == Window

\* n = min(remaining, unit)
Chunk == IF remaining < Window THEN remaining ELSE Window

\* The length is below 256 and goes out low byte first: it lands whole or not
\* at all.
WriteLen ==
    /\ pc = "len"
    /\ UNCHANGED <<rcMode, rcCmd, rcResult, rcOffset, rcData, task, tries, cut, dirty, unsent>>
    /\ rcLen' \in {Chunk, rcLen}
    /\ GoesOn("cmd", rcLen' = Chunk) \/ AuxFails

OpcodeOf == [toggle |-> "disable", enable |-> "enable", read |-> "read",
             cleanup |-> "disable"]
Trigger  == [op |-> OpcodeOf[ctx], active |-> TRUE]

\* _trigger: the opcode goes out with bit 7, whatever the hub is doing.  When
\* its one byte does not get there, the polls find bit 7 clear and the result
\* of an earlier command.
WriteCmd ==
    /\ pc = "cmd"
    /\ rcCmd' \in {Trigger, rcCmd}
    /\ GoesOn("poll", rcCmd' = Trigger) \/ AuxFails
    /\ tries' = 0
    /\ dirty' = rcCmd.active
    /\ unsent' = IF ctx = "read" THEN unsent ELSE rcCmd' # Trigger
    /\ UNCHANGED <<rcMode, rcResult, rcOffset, rcLen, rcData, task, cut>>

\* Mutant: the loop starts over where it should give up.
PollBusyForever ==
    /\ rcCmd.active
    /\ tries' = IF tries + 1 < Retries THEN tries + 1 ELSE 0
    /\ GoTo("poll")

\* _trigger's loop: one read of RC_CMD and RC_RESULT together, and what the
\* caller makes of the result.
PollBusy ==
    /\ rcCmd.active
    /\ tries + 1 < Retries
    /\ tries' = tries + 1
    /\ GoTo("poll")

TimesOut ==
    /\ "slow" \in Faults
    /\ rcCmd.active
    /\ tries + 1 = Retries
    /\ tries' = tries
    /\ Raise

Disabled ==
    /\ rcResult \in OkToDisable
    /\ \/ /\ ctx = "toggle"
          /\ ctx' = "enable" /\ pc' = "data"
          /\ pos' = 0 /\ remaining' = 1       \* the payload: one data slot
          /\ UNCHANGED <<job, out, closed>>
       \/ /\ ctx = "cleanup"
          /\ pc' = "exit" /\ closed' = TRUE
          /\ UNCHANGED <<ctx, readVars>>
    /\ UNCHANGED <<got, failed, runs, abandoned>>

Enabled ==
    /\ ctx = "enable" /\ rcResult \in OkToEnable
    /\ ctx' = "enabled" /\ pc' = "ident"
    /\ UNCHANGED <<readVars, got, failed, closed, runs, abandoned>>

Answered == ctx = "read" /\ rcResult \in OkToFetch /\ GoTo("fetch")

Refused ==
    /\ \/ ctx \in {"toggle", "cleanup"} /\ rcResult \notin OkToDisable
       \/ ctx = "enable" /\ rcResult \notin OkToEnable
       \/ ctx = "read" /\ rcResult \notin OkToFetch
    /\ Raise

\* Mutant: the result is taken without looking at bit 7.
PollDoneAnyway ==
    /\ tries' = tries
    /\ Disabled \/ Enabled \/ Answered \/ Refused

PollDone ==
    /\ ~rcCmd.active
    /\ tries' = tries
    /\ Disabled \/ Enabled \/ Answered \/ Refused

PollFails == tries' = tries /\ ReplyFails

Poll ==
    /\ pc = "poll"
    /\ UNCHANGED <<hubVars, cut, part, dirty, unsent>>
    /\ PollBusy \/ TimesOut \/ PollDone \/ PollFails

\* The data window, of which a short reply brings the first bytes only; the
\* loop advances by what it asked for.
InWindow(n) == [i \in 1 .. n |-> rcData[i - 1]]

ReadData ==
    /\ pc = "fetch"
    /\ UNCHANGED <<hubVars, tries, part, dirty, unsent>>
    /\ \/ \E n \in 0 .. Chunk :
             /\ n = Chunk \/ "short" \in Faults
             /\ out' = out \o InWindow(n)
             /\ cut' = IF n < Chunk THEN cut \cup {job} ELSE cut
             /\ pos' = pos + Chunk
             /\ remaining' = remaining - Chunk
             /\ pc' = IF remaining > Chunk THEN "offset" ELSE "return"
             /\ UNCHANGED <<ctx, job, got, failed, closed, runs, abandoned>>
       \/ AuxFails /\ UNCHANGED cut

\* Mutant: an unpacking that is content with what came.
UnpacksAnything == TRUE

\* The caller of read_memory unpacks a register span, which needs all of its
\* bytes (struct.error); the other callers take whatever came.
Unpacks == Jobs[job].kind = "regs" => Len(out) = Jobs[job].len

Return ==
    /\ pc = "return"
    /\ UNCHANGED <<hubVars, tries, cut, part, dirty, unsent>>
    /\ \/ /\ Unpacks
          /\ got' = Append(got, [job |-> job, bytes |-> out])
          /\ StartJob(job + 1)
          /\ UNCHANGED <<failed, closed, runs, abandoned>>
       \/ ~Unpacks /\ Raise

Tool ==
    \/ ReadIdentity \/ WriteData \/ WriteOffset \/ WriteLen \/ WriteCmd
    \/ Poll \/ ReadData \/ Return
----------------------------------------------------------------------------
(* What happens to the tool from outside.                                  *)

\* KeyboardInterrupt is no Exception: the guard lets it through, and in the
\* finally clause it escapes before the handle is closed.
Interrupt ==
    /\ "intr" \in Faults
    /\ pc \in Access
    /\ IF ctx = "cleanup" THEN pc' = "dead" /\ UNCHANGED <<ctx, failed>>
                          ELSE ctx' = "cleanup" /\ pc' = "cmd" /\ failed' = TRUE
    /\ UNCHANGED <<hubVars, tries, readVars, got, closed, runs,
                   abandoned, cut, part, dirty, unsent>>

\* SIGKILL, an unplugged host: no finally clause runs.
Kill ==
    /\ "kill" \in Faults
    /\ pc \in Access
    /\ pc' = "dead"
    /\ UNCHANGED <<hubVars, ctx, tries, readVars, got, failed, closed, runs,
                   abandoned, cut, part, dirty, unsent>>

\* The tool is started again; the hub is as the last run left it.
Restart ==
    /\ pc \in Over
    /\ runs < MaxRuns
    /\ runs' = runs + 1
    /\ pc' = "ident" /\ ctx' = "start" /\ tries' = 0
    /\ job' = 1 /\ pos' = 0 /\ remaining' = 0 /\ out' = <<>>
    /\ got' = <<>> /\ failed' = FALSE /\ closed' = FALSE
    /\ abandoned' = FALSE /\ cut' = {} /\ part' = {} /\ dirty' = FALSE /\ unsent' = FALSE
    /\ UNCHANGED hubVars

Hub == HubNext /\ UNCHANGED <<pc, ctx, tries, readVars, got, failed, closed, runs,
                              abandoned, cut, part, dirty, unsent>>

Next == Tool \/ Interrupt \/ Kill \/ Restart \/ Hub

\* The tool runs as long as it is alive.  Nothing is assumed of the hub: one
\* that never answers again is met by the retries.
Spec == Init /\ [][Next]_vars /\ WF_vars(Tool)
----------------------------------------------------------------------------
(* Properties.                                                             *)

\* What a call of read_memory promises: its docstring, rc.py:157.
ExactBytes(j) == [i \in 1 .. Jobs[j].len |-> Jobs[j].addr + i - 1]
Exact(a) == a.bytes = ExactBytes(a.job)

\* The toggle of enable() resynchronizes the tool with a hub that an earlier
\* run left in any state, a command still in flight included: after enable()
\* the chip is in remote-control mode until the finally clause, so no read is
\* refused for want of it and no late DISABLE ends the session.  The one way
\* for enable() to return without the mode is that its trigger was not sent:
\* the result it then finds is the toggle's.
ReadOnlyInSession == ctx \in {"enabled", "read"} => rcMode = "on" \/ unsent

\* The protocol has no tags: a trigger over a command in flight would take the
\* earlier command's answer for its own.  In the reads this happens only when
\* read_identity swallowed a failure that left bit 7 set.
QuietAtTrigger ==
    pc = "cmd" /\ ctx = "read" /\ rcCmd.active => abandoned

\* Every answer the session accepts holds the bytes that were asked for, in
\* every run, whatever failed, whatever the hub had in its registers before,
\* unless a read was abandoned in flight or this very read had a short write or
\* a short reply: what goes wrong with one read does not reach the next.  The
\* register spans are safe from short replies, unpacking them needs every byte,
\* but not from short writes.
ReadsFaithful ==
    ~abandoned =>
        \A i \in DOMAIN got :
            /\ got[i].job \notin part
            /\ got[i].job \notin cut \/ Jobs[got[i].job].kind = "regs"
            => Exact(got[i])

\* A tool that ran to its exit leaves remote-control mode on only if the last
\* disable() failed, which the finally clause keeps to itself, or its trigger
\* was written over a command in flight, or was not sent at all: in both cases
\* another command's result was taken for its own.
LeftOpenOnlyIf ==
    pc = "exit" /\ rcMode = "on" => ~closed \/ dirty \/ unsent

\* A hub that stops answering, for good, cannot hang the tool.
EveryRunEnds == pc \in Access ~> pc \in Over

\* A session is an atomic reader of the chip, whatever fails, until a read is
\* abandoned in flight or a reply or a write of a read is short: RemoteReads.
Lost == abandoned \/ cut # {} \/ part # {}
Phase ==
    CASE Lost                                                -> "lost"
      [] ~Lost /\ failed                                     -> "failed"
      [] ~Lost /\ ~failed /\ ctx = "cleanup"                 -> "done"
      [] ~Lost /\ ~failed /\ ctx # "cleanup" /\ pc = "dead"  -> "failed"
      [] ~Lost /\ ~failed /\ ctx \in {"enabled", "read"} /\ pc # "dead" -> "open"
      [] ~Lost /\ ~failed /\ ctx \in {"start", "toggle", "enable"} /\ pc # "dead" -> "idle"

NextRead  == IF Lost THEN 1 ELSE IF Phase = "done" THEN Len(Jobs) + 1 ELSE job
Delivered == IF Lost THEN <<>> ELSE got

Reader == INSTANCE RemoteReads WITH
    Answers   <- [j \in JobNum |-> ExactBytes(j)],
    Optional  <- {j \in JobNum : Jobs[j].kind = "board"},
    phase     <- Phase,
    read      <- NextRead,
    delivered <- Delivered

ReadsAtomically == Reader!Spec
=============================================================================
