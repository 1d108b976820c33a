# A verification of vmmdump and vlidump

The repository takes a Synaptics VMM53xx DisplayPort MST hub apart with two
Python tools.  `vmmdump` talks to the hub over the DisplayPort AUX channel and
dumps its registers and memory; `vlidump` talks to the VIA hub chip of the same
dock over USB, reads its flash and maps its 8051 firmware.  This directory holds
TLA+ models of both, translated from the Python source, the TLC runs that check
them, and proofs that TLAPS checks.

Paths below are relative to `src/`.  `PROJECT.json` maps every definition that
models code to the lines it models, and lists the runs, the theorems, the
hazards and, for each property, a mutation of the code that violates it.

## The system

| Component | Source | State | Operations |
|---|---|---|---|
| remote-control session | `vmmdump/rc.py`, `cli.py` `cmd_live` | the mailbox in the hub, the progress of a command, what was read | `enable`, `disable`, `read_memory` |
| AUX transports | `vmmdump/transport/` | file descriptors, the progress of a call | `read_dpcd`, `write_dpcd` of two backends |
| discovery | `vmmdump/detect.py`, `NvRmClient` | candidates, open handles | `discover`, `find_hub`, `close`, `nvrm.probe` |
| register dump | `vmmdump/addresses.py` `coalesce`, `dumper.py` | runs, registers | `coalesce`, `dump_registers` |
| SRAM dump, EDID scan | `vmmdump/dumper.py`, `edid.py` | a growing block, the place of the search | `dump_memory`, `scan_edids` |
| dump files | `vmmdump/report.py`, `addresses.py`, `cli.py` `cmd_offline` | a text file | `write_raw`, `parse_registers`, `parse_memory` |
| live decoding | `vmmdump/decode.py` | registers read so far | `read_decode_regs`, `decode_all` |
| identity | `vmmdump/identity.py` | none | `read_identity` |
| payload slots | `vmmdump/slots.py` | none | `read_slots` |
| 8051 decoder | `vlidump/i8051.py` | none | `decode_one` |
| code map | `vlidump/trace.py` | worklist, map, bodies, pairs | `entry_points`, `follow`, `function_bodies`, `fingerprints`, `diff_functions` |
| USB hub access | `vlidump/usbfs.py`, `vli.py`, `cli.py` | a device handle, the flash image | `find_device`, `UsbfsDevice`, `reg_read`, `identify`, `spi_read`, `_read_sysfs_bcd`, `main` |
| firmware image | `vlidump/fw.py` | none | `decode_container`, `disasm`, `find_descriptors`, `find_strings`, `render` |

How they interact.  `cmd_live` asks discovery for a hub and gets an open
transport.  Over it the identity is read (native DPCD registers), then the
session is opened, the identity read again (now with a guarded read of the board
id through the mailbox), the register and memory dumps are made of `read_memory`
calls, and the session is closed in a `finally` clause.  Every one of these is a
sequence of DPCD accesses, which a transport cuts into bursts.  The dumps become
a text file, which the offline mode parses again, also when VMMTool wrote it.
`cmd_slots` reads the payload table over the same transport, without a session.
On the USB side the flash image is read through one device handle; the decoder,
the image report and the code map then work on the image alone, and the code
maps of two images are compared function by function.

What is hard here.  Python runs these tools in one thread, but each has a peer
that it does not control: the firmware of the hub, which works on a command
while the tool polls, and the kernel or driver, which can refuse or shorten any
transfer.  The mailbox has no lock and its answers no tag, so what an answer
belongs to is only a matter of order; the hub keeps its state when the tool is
killed; the chip is reconfigured by sources and monitors while it is dumped;
docks are plugged and unplugged during discovery.  `hazards` in `PROJECT.json`
lists these one by one with the line where each bites.

What makes each component correct:

- session: the session is open whenever it is used, whatever an earlier run left
  behind; an answer belongs to its command; the bytes returned are those asked
  for; every run ends; the hub is not left in remote-control mode unnoticed;
- transports: a read returns the span without a gap, a write covers the span and
  nothing else, every call ends;
- discovery: a hub that can be opened is found, whatever else fails, and the best
  is chosen; handles are open while used and closed afterwards;
- dumps: each register asked for, no other, with its own bytes; each EDID
  reported is there, and none is missed;
- files: what was written is read back; a broken file harms no more than its end;
- decoding: what is reported of a unit is something the unit was;
- slots: a stream that keeps its slots is counted right whatever else changes;
- USB: the device used is the hub, a file holds the flash of one device without a
  gap, an identity is of one device, every run ends with the handle closed;
- firmware image: the section map is a partition, the scans miss nothing, and the
  report is lost only for an image it cannot hold;
- code map: the map is the reachable code, a body and a fingerprint are of code
  that was reached, and a comparison places every function once and truly.

## Modules

| Module | Models | Uses |
|---|---|---|
| `RcHub` | the hub's side of the mailbox (external: firmware, not in the repository) | |
| `RcSession` | the tool's side, one DPCD access per step, with failures, interrupts, kills and restarts | `RcHub`, `RemoteReads` |
| `RemoteReads` | the abstract specification of a session: reads answered one by one with exact bytes | |
| `RcSessionInv`, `RcSessionProofs` | the inductive invariant of the session, the proofs of its safety properties, and that it implements `RemoteReads` | `RcSession` |
| `DpcdTransport` | both AUX backends, one native transaction per step | |
| `SlotTable`, `DpcdTransportProofs` | `read_slots` over the transport while the source allocates, or any single call; the proofs for both | `DpcdTransport` |
| `HubDetect`, `HubDetectProofs` | discovery and the stand-alone probe, one call that can fail per step; the proofs | |
| `RegisterDump` | grouping addresses into runs, reading them, cutting registers | |
| `SramScan`, `SramScanProofs` | the memory dump and the EDID scan; the proofs | |
| `DumpFile` | writing, parsing and joining of text dumps | |
| `LiveDecode` | reading in chunks while the chip changes, and the summary made of it | |
| `DumpProofs` | the proofs about the register dump, the files it is kept in and live decoding | `RegisterDump`, `DumpFile`, `LiveDecode` |
| `I8051` | length, class and target of all 256 opcodes | |
| `CodeTrace` | the recursive descent, one instruction per step | `I8051` |
| `FunctionBodies` | the bodies and fingerprints of the functions in the map | `CodeTrace` |
| `FunctionDiff`, `FunctionDiffProofs` | the two passes of the comparison, one function per step; the proofs | |
| `FirmwareImage` | the report on an image, one turn of each loop per step | `I8051` |
| `FirmwareProofs` | the proofs about images: the descent, the functions and the report, over the same lemmas on the decoder | `FunctionBodies`, `FirmwareImage` |
| `UsbHub`, `UsbHubProofs` | the USB tool on live hardware, one file access or transfer per step; the proofs | |

The modules with `MC` in front give constants to TLC.

### The session: RcHub and RcSession

The mailbox registers are the variables `rcCmd` (opcode and bit 7), `rcResult`,
`rcOffset`, `rcLen` and `rcData`; `rcMode` is the remote-control mode and `task`
the command the firmware has taken.  The firmware is modelled as loosely as
`rc.py` allows: it takes a command at any time after bit 7 is set, with the
arguments it finds then, carries it out or refuses it at any time after that,
and clears bit 7, whatever RC_CMD says by then.  The byte at chip address `a` is
the number `a`: a byte says where it was read from, and "the right bytes" is a
statement about addresses.

In `RcSession`, `pc` is the next DPCD access and `ctx` the call it is in:

| Action | Code |
|---|---|
| `ReadIdentity` | `identity.py` `read_identity`, the native registers, before and in the session |
| `WriteData`, `WriteOffset`, `WriteLen`, `WriteCmd` | `rc.py` `_set_command`, `_get_command`, `_trigger` |
| `Poll` = `PollBusy`, `TimesOut`, `PollDone`, `PollFails` | one turn of `_trigger`'s loop, and what `enable`, `disable`, `_get_command` make of the result |
| `ReadData` | the data window, and `_get_command`'s loop |
| `Return` | `read_memory` returns to `read_identity`, `dump_registers` or `dump_memory` |
| `Raise` | where an exception goes: the guard of `read_identity`, `cmd_live`'s `finally`, the `except` in it |
| `Interrupt`, `Kill`, `Restart` | KeyboardInterrupt, SIGKILL, the next start of the tool |

A write that fails may or may not have reached the hub.  So may one that returns:
`drm.py:39` and `nvrm.py:303` ignore how much of it went out, and the tool goes on
(`GoesOn`).  An offset or a payload that was cut short is `Stray`, a length keeps its
old value, and a trigger that was not sent leaves bit 7 clear over the result of an
earlier command, which the poll takes for its own.  The variables `abandoned`, `cut`
(reads with a short reply), `part` (reads with a short write), `dirty` and `unsent`
(the last trigger outside the reads was not sent) are history: no action reads them.

### The others

`DpcdTransport`: a byte carries the version the hub gave it, so that the properties can
say when it was read; `backend` is the class in use, and `beat` makes a transaction that
moves nothing a step like any other. `SlotTable` composes it with its caller: `stage` says
whether the transport serves a single call of any kind, which is `Next` of the transport
as it stands, or the link read and the table read of `read_slots`, whose change of the hub
is an allocation of the whole table. `HubDetect`: a sink answers one of a few combinations
of the three traits that `_probe` looks at, or nothing; the world changes between any two
reads. `prefer = "probe"` is nvrm.py run by itself. `RegisterDump`: `coalesce` takes one
address per step; `read_memory` is atomic, as `RcSession` justifies. `SramScan`: the magic
is three cells instead of eight and keeps what matters to the scan, that its last cell is
its first. Its memory is read in blocks whose replies may be short. `DumpFile`: a line is
what the regular expressions make of it; a file may be VMMTool's (any lines), vmmdump's
own, or vmmdump's broken off in a line. Lines of words look to `parse_memory` like rows of
bytes, of which a word above 255 makes it raise a ValueError (`Unreadable`, stage
`"raised"`). `LiveDecode`: each register shows the mode its unit is in, of which `"idle"`
is the marker FEEDB001, not zero and so not `"off"`; the chip switches modes between two
chunks, of which `todo` holds those still to be read. `CodeTrace`: the image is any
sequence of bytes; the meaning of an opcode is that of `I8051`, translated from the table
and the `decode_one` of `i8051.py`. `FunctionBodies` goes on from the map that `follow`
returned, one instruction of one function per step; a body or a fingerprint is the
sequence of the addresses of its instructions, which says more than their text.
`FunctionDiff` takes two builds, sequences of bodies; `QuickRatio` and `Ratio` are those
of Python's difflib, parameters of the module, of which it assumes what difflib says of
them (`RatioAssumption`): that the quick one bounds the other. `FirmwareImage`: `phase`
goes through `decode_container` (header, then sections block by block), `disasm` at the
vector and the entry, and the two scans; an IndexError anywhere is `phase = "raised"`, for
it loses the whole report. `UsbHub`: `port` is what is plugged in, a device with its
serial, its number and its traits (which of the ids asked for it has, and whether its
bcdDevice begins with two decimal digits), and changes between any two accesses; `pc` is
the next access of `find_device`, of the transfers, of `_read_sysfs_bcd` (which calls
`find_device` again, hence `lookup`) or of `main`. A byte of the flash is named by the
device and its address, so the image is a sequence of spans and "whole" means one span.

## Runs

| Run | What it shows |
|---|---|
| `session` | two runs of the tool on one hub, all faults, short writes that nothing notices among them, all three kinds of read: `ReadOnlyInSession`, `QuietAtTrigger`, `ReadsFaithful`, `LeftOpenOnlyIf`, that `SessionInv` is an invariant, that the session implements `RemoteReads` (`ReadsAtomically`), and that each run comes to its exit, also when the hub never answers (`EveryRunEnds`) |
| `slots` | both backends over all spans of six addresses in bursts of two, short transactions included, while the hub changes its registers, and `read_slots` while the source trains the link and allocates: `ReadsSpan`, `WritesSpan`, `SlotsAreCounted`, `SlotsEnd` |
| `hub_detect` | two displays, two nodes, each call failing or not, one plug or unplug at any moment, the probe as well: `HubIsFound`, `ChosenIsBest`, `HandlesInUse` |
| `register_dump` | each of the 4096 address lists over twelve byte addresses, a read failing anywhere: `DumpExact`, and that `DumpInv` is an invariant |
| `sram_scan` | all contents of twelve cells, with a short reply or without: `ReportsAreTrue`, `MissesOnly`, `Ends` |
| `dump_file` | all files of up to four lines out of eleven, all dumps of up to three registers, whole and broken off anywhere: `SectionIsParsed`, `RoundTrip`, `CutHarmsLastOnly`, `BlobIsPlaced` |
| `live_decode` | the spans of the summary and the list of `dump.txt` while a unit is reconfigured at any moment: `TimingUntorn`, `SteadyIsShown` |
| `functions` | 10000 images of an SJMP and four bytes, of all classes of opcodes, followed and then cut into bodies or fingerprints: `MapIsRight`, `LostOnlyBy`, `BodiesAreRight`, `WalksAreReachable`, `WalksEnd` |
| `fn_diff` | every pair of builds of up to two and up to three functions: `ClassesPartition`, `ClassesAreRight`, `MissesByQuickRatio` |
| `firmware_image` | 14044 images put together of headers and pieces: `SectionsPartition`, `ScansFindAll`, `LostOnlyByCode` |
| `usb_hub` | registers, identity and flash reads of every awkward size over two ports, with two plugs or unplugs at any moment, one short transfer, and failures anywhere: `OpensTheHub`, `FileIsImage`, `ReportIsOfOne`, `RunEndsClosed` |
| `usb_hub_local_name` | expected to fail: `HubAnswers`, see below |

### What the runs found

**vlidump cannot reach hardware.**  `vlidump/README.md:52` says
"sudo python3 -m vlidump" identifies the chip.  The branch of `main` for
`--fndiff` holds `import os.path` (`vlidump/cli.py:91`), which makes `os` a local
name of the whole function; a command without an offline option comes to
`os.geteuid()` (l. 103) with that name unassigned and ends with
UnboundLocalError.  The run `usb_hub_local_name` has the code as it stands
(`OsIsLocal = TRUE`): a hub is there and no look at it is taken.  `usb_hub` has
the one import out of the way (`OsIsLocal = FALSE`), so that everything behind it
is checked as well.

The other disagreements are provisos of properties that hold.  Each property
says exactly how far the sentence is true:

| Property | Sentence | Where it is not so |
|---|---|---|
| `LeftOpenOnlyIf` | `vmmdump/README.md:69-70` "the hub never stays in remote-control mode" | the last `disable()` fails, which the `finally` clause swallows, or it succeeds with another command's result: its trigger is written over a command in flight, or is never sent, a short write that `drm.py:39` and `nvrm.py:303` do not look at |
| `ReadsFaithful` | `rc.py:157` "Read `length` bytes ... at `addr`" | the guarded board-id read fails with its command in flight, and the next read takes the late answer for its own; or a reply or a write of that very read is short |
| `MissesOnly` | `edid.py:77` "Find every valid 128-byte EDID base block" | the scan steps over the whole magic of a rejected candidate; blocks inside an accepted one are missed too |
| `SteadyIsShown` | `decode.py:192` "spans the decoder needs" | an active second output is reported off |
| `SteadyIsShown` | `VMM5310_dump_decoded.md:62` "`0xFEEDB001`", "unused / idle" marker, "idle streams" | a stream with the marker is reported active, 45057x65261, with DSC on: only `read_tx` looks for it (`decode.py:49`, 89, 164) |

Register spans are safe from short replies, because unpacking them needs every
byte, but not from short writes: a span of another address or of another length
unpacks as well.  More that the properties tell, of which no text of the repository speaks:

- Short transfers.  The nvrm backend counts a short ACK as full, so that a read
  comes back with the bytes behind it shifted, where the drm backend keeps a
  gapless prefix (`ReadsSpan`); what a short write did not move is never written
  (`WritesSpan`), and in the mailbox this is a read from another address, or a
  command that never ran and yet has a result: `enable()` can return without the mode
  (`ReadOnlyInSession`); a short answer leaves a hole in a dumped block, and the scan
  reports what lies behind it at a wrong address (`ReportsAreTrue`); a short USB
  transfer leaves a hole in the flash file, and so does a `--spi-chunk` that
  wLength cuts to 16 bits (`FileIsImage`).
- A flash address has three bytes (`vli.py:103`), so a `--spi-len` of more than 16 MiB
  reads the flash from its beginning again (`FileIsImage`).
- `--spi-chunk 0` never ends (`RunEndsClosed`).
- `_read_sysfs_bcd` (`vlidump/cli.py:30`) looks the hub up again, and if the port
  changed meanwhile an identity already read is lost, or shown with another
  device's bcdDevice (`ReportIsOfOne`).
- `int(raw[:2])` (`vlidump/cli.py:46`) takes the first two digits of bcdDevice for
  decimal; with a letter among them the ValueError is not caught and the identity is
  lost (`ReportIsOfOne`).
- A line of words in the memory section, `0h: 00000002 00000003`, is a row of two
  bytes to `parse_memory`, and with a word above 255 a ValueError that ends the tool
  (`addresses.py:22`, 70-73, `SectionIsParsed`).
- `find_descriptors` leaves out a descriptor that ends with the image
  (`fw.py:97`, `ScansFindAll`), and an erased image raises IndexError
  (`fw.py:153`, `LostOnlyByCode`).
- `function_bodies` raises IndexError when a body runs out of the image because the
  next function lies outside it: the last function inside, when it has no return
  (one target outside is enough), or a function outside with another one behind it.
  So it does, as `fingerprints` does, when data behind a jump is cut off by the end
  of the image (`trace.py:138`, `LostOnlyBy`).
- The fuzzy pass (`trace.py:176`) picks a partner by the quick ratio and only then
  looks at the ratio, so a function is called added although a removed one is like
  it (`MissesByQuickRatio`).
- A report made from the list of `dump.txt` can show a timing that the output
  never had; `TimingUntorn` holds of outputs for the spans of the summary only.
- Under `--transport nvrm` a failure to open the control node reaches the user as
  the OSError it is, not as the RuntimeError of `find_hub`, whose docstring speaks
  of no other (`HubDetect`, outcome `OSError`).

### Bounds

- `Retries` (30 in the code) is 2: a poll that finds the hub busy and goes on, and one
  that gives up, are what the loop distinguishes.  `MaxRuns` is 2: the second run meets
  whatever the first left, and what it leaves is again of that kind; the proofs need
  no bound.  `Window` (16 bytes in the code) is 2 with a register span of 3, so that a
  read takes two commands and the second is shorter; the other two reads are of one
  byte, before and after it.  Short writes can fall on each of the registers.
- `SlotTable`: a burst (16) is 2 and spans are up to 6: one burst, a full and a
  partial one, three bursts.  The table (63 slots) is 4, two bursts, for the ids
  0 to 2, and the hub changes once (`MaxVersion`): a table is then made of two
  allocations, which is what two bursts can mix; the proofs need no bound.
- `SramScan`: a block (128) is 6 cells and 12 are scanned, in reads of 4 (256), with
  the checksum mod 3: two adjacent blocks fit, a valid block that begins inside an
  accepted one (0 1 0 1 0 1 with another magic at +2), and one that begins on the last
  cell of a rejected magic.  `MaxShort` allows one short reply, which makes the last
  read a partial one.
- `LiveDecode`: two live units and one change during the read suffice for a torn
  value; a unit may be off, bear the idle marker, or run.
- `FunctionBodies`: four bytes behind the reset vector, of an alphabet of ten that
  holds an opcode of each class and operands that point into and out of the image,
  make loops, calls into the middle of an instruction, jump tables, functions
  behind the end, and instructions cut off by it.  `Cap` (256) is 4 and `MaxIns`
  (96) is 3, so that both are met; longer images are left to the proofs.
- `FunctionDiff`: eight bodies that differ in an operand, in the encoding of a
  jump, in the target of a jump or of a conditional branch (CJNE), in their order or
  in one instruction; two functions
  against three are the least in which the greedy pass takes another's partner.
- `FirmwareImage`: blocks and pages (256) are 4 bytes, so that pieces cover parts
  of blocks; up to four pieces give adjacent, overlapping, broken and last ones.
- `UsbHub`: two ports, whose devices have any of the three traits, and three numbers,
  so that a number can be new or taken over
  by the other port's device; two changes (`MaxPlugs`), the least that replace one
  device by another, and one short transfer (`MaxShort`).  The sizes of the flash
  reads are real ones: they cross a 64K boundary, end in a partial chunk, and pass
  the limits of usbfs and of wLength.
- `HubDetect`: two displays and two nodes have an order within and between the
  backends; `MaxChanges` is one, so that a candidate can mix two sinks.
- `DumpFile`: four lines hold a marker, two lines and a second marker, and the lines
  of words are one that `parse_memory` takes for a row and one that makes it raise; a dump of
  three registers has a first, a last and one between.
- `RegisterDump`: twelve byte addresses allow runs of three registers, gaps and
  unaligned, overlapping registers; the proofs need no bound.

`CHECK_DEADLOCK FALSE` stands in every configuration because each tool comes to
an end: a program that has exited is a state without a successor.

### Fairness

- `RcSession`: weak fairness of the tool's own steps, which is that a live
  process runs.  Nothing is assumed of the hub, nor that an access succeeds.
- `SlotTable`, `DpcdTransport`: weak fairness of the transfers, each of which ends,
  with an error if need be (an ioctl or a pread), and of the caller's next step.
  Nothing is assumed of the source.
- `SramScan`: weak fairness of the steps; `MaxShort` bounds the short replies.
  Without that the loop of `dump_memory` does not end, which is a hazard listed.
- `FunctionBodies`, `CodeTrace`: weak fairness of the walk, a sequential loop.
- `UsbHub`: weak fairness of the tool; nothing is assumed of the devices, and
  `MaxPlugs` does not help it to end: a port's change is no step of the tool.

The other modules state no fairness, for their runs check no liveness: they are
loops over lists that were made before.

## Proofs

| Theorem | Statement |
|---|---|
| `SessionInvariant` | `SessionInv` always holds |
| `TypeCorrect`, `SessionIsOpen`, `TriggersAreQuiet`, `ReadsAreFaithful`, `LeftOpenOnlyByFailure` | the types, `ReadOnlyInSession`, `QuietAtTrigger`, `ReadsFaithful`, `LeftOpenOnlyIf` |
| `SessionReads` | a session implements `RemoteReads`: `ReadsAtomically` |
| `TransportInvariant`, `SlotsInvariant`, `TransportTypes` | `TransportInv` and the types, for a single call and for `read_slots` |
| `ReadsTheSpan`, `WritesTheSpan`, `SlotsCounted` | `ReadsSpan`, `WritesSpan`, `SlotsAreCounted` |
| `DumpInvariant`, `DumpIsExact`, `RunsAreRight` | `DumpInv`, `DumpExact`, and `NothingLost` with `RunsApart` |
| `ScanInvariant`, `ScanTypes`, `ReportsTrue`, `ScanMissesOnly` | `ScanInv`, the types, `ReportsAreTrue`, `MissesOnly` |
| `FollowInvariant`, `FollowIsReachability`, `RaisesRight` | `FollowInv`; the map is the reachable code with its functions (`MapIsRight`); its only error |
| `BodiesInvariant`, `MapStaysRight`, `WalksWereReached`, `BodiesLostOnlyBy` | `BodiesInv`; `MapIsRight`, `WalksAreReachable`, `LostOnlyBy` over the whole of `BodiesSpec` |
| `ShapeInvariant`, `BodiesAreTheFunctions` | `ShapeInv`, `BodiesAreRight` |
| `ImageInvariant`, `SectionsArePartition`, `ScansMissNothing`, `ReportLostOnlyByCode` | `ImageInv`, `SectionsPartition`, `ScansFindAll`, `LostOnlyByCode` |
| `DiffInvariant`, `DiffPartitions`, `DiffClassesRight` | `DiffInv`, `ClassesPartition`, `ClassesAreRight` |
| `MissInvariant`, `MissesAreQuick` | `MissInv`, `MissesByQuickRatio` |
| `FileInvariant`, `SectionsAreParsed`, `DumpsRoundTrip`, `CutsHarmLastOnly`, `BlobsArePlaced` | `FileInv`; `SectionIsParsed`, `RoundTrip`, `CutHarmsLastOnly`, `BlobIsPlaced` |
| `LiveInvariant`, `SteadyIsReported`, `TimingsAreUntorn` | `LiveInv`, `SteadyIsShown`, `TimingUntorn` |
| `SearchInvariant`, `HubsAreFound`, `BestIsChosen`, `HandlesAreInUse` | `SearchInv`, `HubIsFound`, `ChosenIsBest`, `HandlesInUse` |
| `UsbInvariant`, `HubIsOpened`, `FilesAreImages`, `ReportsAreOfOne` | `UsbInv`, `OpensTheHub`, `FileIsImage`, `ReportIsOfOne` |

Assumptions are those on the constants: a window, a retry limit and a run limit of at
least one, any sequence of reads (one at least) with lengths of at least one and any set
of faults for the session; any burst, DPCD size and number of changes of it for the
transports (a burst of at least two for the link in `SlotsCounted`); any set of addresses
for the dump; any file of any lines, any registers and values, any length of a row for the
dump files; any number of live units and of changes and any window for the report on a
live hub, and the chip's window of four words for `TimingsAreUntorn`; any memory, call,
block of at least the magic's length, modulus and number of short replies for the scan;
any set of images, any ascending vector table, cap and bound for the code map; any set of
images and any size of a block and of a page for the report on an image; any builds, any
threshold and any ratios for the comparison, of which only `MissesAreQuick` uses that the
quick one is a bound, and that the threshold is not zero; any number of displays, nodes
and changes for discovery, whatever the sinks answer; any number of ports, numbers, plugs
and short transfers and any request for the USB tool, whose transfers are at most 65535
bytes long, with the local name `os` or without it.

**Session.**  The safety properties are not inductive: that an answer belongs to
its command depends on what the hub is still working on.  `SessionInv` says, for
each point of the tool, what may be in flight.  Three parts carry the argument.
After `enable()`'s DISABLE toggle comes back, bit 7 is clear and, since the
firmware works only while bit 7 is set (`BusyIsVisible`), nothing is in flight:
this is where a hub left in any state is resynchronised.  From then on the
mailbox is at rest between commands (`AtRest`) as long as no read was abandoned,
and only reads are in flight in any case (`OnlyReads`), so the mode stays on once
`enable()` turned it on, which it did unless its trigger was not sent (`unsent`).
While a read is polled that had no short write (`part`), the hub has its arguments
(`Arguments`) and the task is either none or has exactly these (`ReadInFlight`), so
when bit 7 clears the window holds the chunk, and what is collected is a prefix of the
chip's bytes (`OutIsPrefix`).  Nothing is claimed of a read in `part`; it does not
reach the next, which writes both arguments again.

**Refinement.** `RcSession` maps to `RemoteReads` by three operators, which read the point
the tool is at: `Phase`, `NextRead` and `Delivered`. A session is lost once a read was
abandoned in flight or a reply or a write of a read was short, and stays so until the next
run (a short write in `enable()` is no loss: the reads are refused then, or an earlier run
left the mode on and they are answered). The proof goes action by action: nearly all of
them stutter; `Return` delivers, and the answer is the exact one because `SessionInv`
holds before it (`OutIsPrefix` with nothing left to ask for); the guard of `read_identity`
passes a read over or loses the session; every other exception fails it.

**Register dump.**  `DumpInv` adds to the properties that the run in the making
ends at the last address taken and that no address left is below it (`AtPrev`),
which gives disjoint runs and hence that no register is overwritten by another.

**Dump files.**  `FileInv` says of the lines read that what was parsed is what the last
of them in the section says about each address (`Latest`), and that `in_sec` tells
whether the section has been opened (`Reading`); a line of data overrides what was said
before (`LatestGrows`), any other changes nothing (`LatestStays`).  When the parser stops,
the lines read hold the whole section (`SectionIsRead`), unless it stopped at the first
line that `bytes()` does not take (`Raising`).  In a dump vmmdump wrote,
register `k` in the order of addresses stands in line `k + 2` and speaks of its address
alone (`WrittenIs`, `SectionOfDump`, `LineOfRegister`), so what was written is what is
read back.  In a file cut short every line but the last is whole; the last speaks of its
register or of none (`BrokenIs`), and that is the greatest address read, because the
registers ascend.  Of the block, row `x` begins behind `x - 1` full rows
(`FlattenIs`), and the division in the length of the range reaches the last row
(`RowsReach`).

**Live decoding.** `LiveInv` says that what was read is what the chunks read hold, each
word as its unit showed it in a mode it had since the read began (`GotThem`), and of the
words of a timing that none was read or all at one moment (`Untorn`). What is reported of
a unit left alone is then a matter of its mode, in which idle and off differ: a unit that
kept its mode had only that one, and what `decode_all` needs of it is in some span and
hence in some chunk (`NeededIsRead`, `SpanIsRead`). That a timing is in one chunk or in
none (`TimingInOne`) rests on the lists: a span that holds a stream's timing begins a
multiple of four words in front of it, and in `DECODE_SPANS` an output's is a span of its
own.

**Transports.**  `TransportInv` relates the four things that move together in a
call: `addr` and `left` (`Placed`), the part of the span written (`WrittenBehind`:
it ends at `addr`, unless a transaction was short, and never leaves the span), the
bytes collected (`CollectedBehind`: they end at `addr`, with the drm backend even
after a short reply, because such a reply ends the call) and the change history.
That a call is done only with nothing left, or by an empty reply, gives the two
properties.  The steps of `read_slots` are steps of the transport or begin a new
call, so one invariant serves both specifications.  `CountInv` adds for `read_slots`
that the two bytes of the link change together and are read together, which needs a
burst of at least two; that a stream which kept its slots is counted right is then a
bijection between the bytes counted and the slots held.

**Scan.**  `Dumped` makes the blob the chip's memory as long as no reply was short;
`PassedOver` says that each block behind which the search stands was reported or is
excused, by an accepted block over it or by a rejected magic that ends on its first
byte.  The search goes to the least hit, which the well-foundedness of the naturals
provides.

**Code map.**  `FollowInv` says that what was decoded or is pending holds the
entries and the successors of everything decoded and lies in every closed set.
When nothing is pending, what was decoded is itself closed, so it is the least
closed set.  That the table of vectors ascends is needed: the code stops at the
first vector outside the image.

**Bodies and fingerprints.**  `BodiesInv` is `FollowInv` with `WalkInv`.  A walk
holds what `follow` reached until it meets an instruction behind which the code goes
on where no path leads (`Darkens`: a jump table, for a body any jump); as long as it
has met none (`Bright`) the next instruction is in the map, because the map is closed
under successors.  An instruction of the map is never cut off by the image, so a walk
can raise only at an instruction that `follow` did not reach, or outside the image.

**Comparison.**  `DiffInv` says what the passes have settled about the functions
before `n`.  As many are identical as can be because a function without a partner in
the first pass found all its equals taken, and equal functions of B are never given
back.  Nothing is used of the ratios here but that `Alike` was true of the pairs
made.  `MissInv` says of each function given up that nothing left seemed like it, or
that what seemed most like it was not; both stay true because what is left only gets
less (`GivenUpStays`).  That a removed function which is like it seems like it too is
then a matter of the two ratios (`AlikeSeems`).

**The shape of bodies.**  `ShapeInv` says of a walk that its instructions follow one
another from its function on, below the next function and the cap, with a return only
at the end (`WalkOf`), and of the walk in the making that bytes behind an instruction
after which only NOPs came are NOPs (`Padded`).  A body that raises outside the image
runs out of it (`OnlyRunsOut`, from `OutsideRunsOut`): it began outside, or it reached
the last byte without a return and the next function lies behind it; with an
instruction cut off by the image, which is never one that `follow` reached, this is
all of `LostOnlyBy`.  So trimming NOPs from the end leaves
a body (`TrimIsBody`), and a walk that runs into the next function or the cap has
nothing but padding behind it.  Functions are walked in ascending order, and the body
of each ends before the next function (`NextOfFacts`).

**The report on an image.**  `ImageInv` says of the sections found that they lie one
behind the other from 0 on (`Chain`), and that the section in the making, of its kind
as far as blocks were taken, goes on where they end (`Adjoins`); a block of the same
kind lengthens it (`BytesJoin`), another one adds it to the chain (`ChainGrows`).  The
strings found are those that begin before `i` (`Scanned`), although the scan passes
over the whole of each: a string inside another would have a character where its
marker 3 is, or a zero for its length or its marker (`NoneInside`).  That the report is
lost at no other place needs that the first instruction is whole when its target is asked
for (`Listed`), and that a target is never negative (`TargetIsNat`).

**Discovery.**  `SearchInv` follows the search: a sink that did not change and was
passed is among the candidates if it answers (`NoneMissed`), a candidate is what it
was taken for unless it changed, and its handles are open (`Truthful`), candidates
stand in the order of the search (`Ordered`), and the answers collected for the sink
at hand are the truth (`HeardSoFar`).  The choice is the least of a finite order by
score and place, which the well-foundedness of the naturals provides, so no sort
enters the proof.

**USB.**  `UsbInv` says for each point of `find_device` what is known of the names
passed over and of the one at hand (`Looking`), and of the device found, open and
read.  Two of its parts hold the arithmetic: `RegistersOfOne` (a register is read
at its own address) and `FlashOfOne`, which says that what was read is one span as
long as no transfer was short.  That needs that the three bytes of the address, sent
in two words with one of them swapped, are put together to the same address
(`AddressIsSent`); it does not hold behind 16 MiB, which is how that limit was found.
What holds only while nothing was plugged is a part of its own (`Still`,
`FoundFirst`), and so is what can end a command without a
fault of the devices (`Faultless`).

Every safety property of a passing run is proved. Only model-checked is liveness
(`EveryRunEnds`, `SlotsEnd`, `Ends`, `WalksEnd`, `RunEndsClosed`), which TLAPS does not
reach (fairness, ENABLED). `FollowInv` is proved but in no run: TLC needs too long to
evaluate its closed sets. `ShapeInv`, `ImageInv`, `MissInv`, `SearchInv`, `FileInv`,
`LiveInv` and `UsbInv` were checked by TLC on the constants of their runs before they were
proved, but are in no run, for the properties they imply are. The types of the transport
and of the scan are proved and in no run. Where a proof needs induction, that a finite set
can be put in order (`AscendingExists`) and where the bytes of a block lie
(`FlatIsPlaced`), it looks at the least counterexample; everything else is defined without
recursion, and the longest common piece of `MCFunctionDiff`, which is recursive, is a
value for a run.

## Not modelled

- The firmware of the hub beyond the mailbox, the NVIDIA resource manager beyond
  the order and failure of its calls, and the kernel's drivers: not in the
  repository, modelled as `vmmdump` uses them.
- The ioctl structures of `nvrm.py` and `usbfs.py`, option parsing, the text of
  reports and JSON, EDID fields, operand text: formatting and I/O without state.
- A KeyboardInterrupt in `cmd_live`'s `disable()` skips `_close_candidate`
  (`vmmdump/cli.py:147`): the session has the interrupt, but not the handles, and
  `HubDetect`, which has the handles, takes the session for one step.
- The offline branches of vlidump's `main`: each calls one function modelled here and
  prints what it returns.
- The bandwidth figures of `read_slots`: arithmetic on what was read.
- The mailbox's other opcodes (`read_tx_dpcd`, `read_eeprom`): no command of the
  tool calls them, and they are the same `_get_command`.
- Two tools on one hub: nothing in the code excludes it; see the plan.
- `firmware/`, `reference/`, `dump.txt` and the prose: data.  The addresses in
  `dump.txt` that the decoder uses are part of `LiveDecode`.

## Plan

The session came first because everything read from the hub goes through it, and
its mailbox is where order matters most; then the rest of `vmmdump` along the
data, then `vlidump` from the USB transfer to the comparison of two builds.  What
remains, in order:

1. Two sessions over one `RcHub`: which of the session's properties survive a
   second tool, and which do not.
2. The half of termination that can be proved: for the session, `read_slots`, the scan,
   the walks and the USB tool, a measure that every step of the code lessens.
