------------------------------- MODULE UsbHub -------------------------------
(***************************************************************************)
(* vlidump on the USB half of the dock: usbfs.find_device and UsbfsDevice, *)
(* the register and flash reads of vli, and cli.main, one file access or   *)
(* control transfer per step, while devices are plugged and unplugged.     *)
(*                                                                         *)
(* Bytes of the flash are named by their address; a run of them that one   *)
(* device sent is a span, and an image is a sequence of spans.             *)
(*                                                                         *)
(* As the code stands no command that needs the hub gets past its look at  *)
(* os: OsIsLocal says whether main has that fault, so that what stands     *)
(* behind it can be checked too.                                           *)
(***************************************************************************)
EXTENDS Integers, SequencesExt, FiniteSetsExt

CONSTANTS
    Ports,      \* number of names under /sys/bus/usb/devices, in order
    Numbers,    \* number of device numbers
    Requests,   \* what the command line asks for
    OsIsLocal,  \* the import of cli.py:91 makes os a local name of main (TRUE)
    MaxTransfer,\* the longest control transfer of usbfs (a page, 4096)
    MaxPlugs,   \* bound: how often a port changes
    MaxShort    \* bound: how many transfers are short

ASSUME UsbHubAssumption ==
    /\ Ports \in Nat \ {0} /\ Numbers \in Nat /\ Numbers >= Ports
    /\ OsIsLocal \in BOOLEAN /\ MaxPlugs \in Nat /\ MaxShort \in Nat
    /\ \A r \in Requests :
          /\ r.mode \in {"regs", "spi", "identity"}
          /\ r.regs \in Seq(Nat) /\ r.len \in Nat /\ r.chunk \in Nat
ASSUME TransferAssumption == MaxTransfer \in 1 .. 65535

VARIABLES
    port,       \* the device at each port
    ask,        \* the command line
    pc,         \* the access made next
    lookup,     \* the caller of find_device: "main" or "bcd"
    todo,       \* names listed and not looked at yet
    at, num,    \* the port found, and its device number
    fd,         \* the device opened
    pos, remaining,     \* of spi_read;  pos: registers read
    out,        \* the spans or registers read
    bcd,        \* the device whose bcdDevice was read
    file,       \* --spi-dump: the file
    status,     \* exit status or exception
    \* history:
    plugs,      \* how often a port changed
    steady,     \* the ports that never changed
    moved,      \* the ports that changed since their ids were last read
    shorts,     \* how many transfers were short
    failed,     \* a transfer or a permission failed
    beat        \* flips at each flash transfer, one that moves nothing included

vars == <<port, ask, pc, lookup, todo, at, num, fd, pos, remaining, out, bcd, file,
          status, plugs, steady, moved, shorts, failed, beat>>
usb == <<port, plugs, steady>>
found == <<at, num>>
spi == <<pos, remaining, out, file, shorts, beat>>

Port == 1 .. Ports
Ids == {"vid", "pid"}       \* the ids asked for
\* What a device may have: those ids, and a bcdDevice that begins with two decimal
\* digits.
Traits == Ids \cup {"bcd"}
None == [serial |-> 0, num |-> 0, has |-> {}]
Device(s, n, has) == [serial |-> s, num |-> n, has |-> has]
Listed == {p \in Port : port[p] # None}

IdentityRegs == <<\hF88C, \hF63F, \hF88E, \hF88F, \hF64E, \hF64F, \hF651>>
Registers == IF ask.mode = "identity" THEN IdentityRegs ELSE ask.regs

Init ==
    /\ \E there \in SUBSET Port : \E has \in [Port -> SUBSET Traits] :
          port = [p \in Port |-> IF p \in there THEN Device(p, p, has[p]) ELSE None]
    /\ ask \in Requests
    /\ pc = "root" /\ lookup = "main" /\ todo = {}
    /\ at = 1 /\ num = 0 /\ fd = None
    /\ pos = 0 /\ remaining = ask.len /\ out = <<>>
    /\ bcd = None /\ file = [how |-> "kept", spans |-> <<>>] /\ status = "none"
    /\ plugs = 0 /\ steady = Port /\ moved = {}
    /\ shorts = 0 /\ failed = FALSE /\ beat = FALSE
----------------------------------------------------------------------------
(* Exits                                                                   *)

\* finally: dev.close().
Exit(s) == pc' = "end" /\ status' = s /\ fd' = None

\* find_device raises: main reports whatever it is and exits with 2; of
\* _read_sysfs_bcd only the RuntimeError is caught.
LookupRaises(e) ==
    IF lookup = "bcd" /\ e = "RuntimeError"
    THEN pc' = "jedec" /\ UNCHANGED <<status, fd>>
    ELSE Exit(IF lookup = "main" THEN "2" ELSE e)

\* os.geteuid(), before the try: a local name that only --fndiff binds.
CheckRoot ==
    /\ pc = "root"
    /\ IF OsIsLocal THEN pc' = "end" /\ status' = "UnboundLocalError" /\ UNCHANGED todo
                    ELSE pc' = "vendor" /\ todo' = Listed /\ UNCHANGED status
    /\ UNCHANGED <<usb, ask, lookup, found, fd, spi, bcd, moved, failed>>
----------------------------------------------------------------------------
(* find_device                                                             *)

Name == Min(todo)

\* Mutant: a device of the vendor is enough.
HasIdOfVendor(id) == port[Name] # None /\ (id = "pid" \/ id \in port[Name].has)

\* The id file is there and holds the id asked for.
HasId(id) == port[Name] # None /\ id \in port[Name].has

ReadVendor ==
    /\ pc = "vendor" /\ todo # {}
    /\ moved' = moved \ {Name}
    /\ IF HasId("vid") THEN pc' = "product" /\ UNCHANGED todo
                       ELSE todo' = todo \ {Name} /\ UNCHANGED pc
    /\ UNCHANGED <<usb, ask, lookup, found, fd, spi, bcd, status, failed>>

ReadProduct ==
    /\ pc = "product"
    /\ IF HasId("pid") THEN pc' = "numbers" /\ UNCHANGED todo
                       ELSE pc' = "vendor" /\ todo' = todo \ {Name}
    /\ UNCHANGED <<usb, ask, lookup, found, fd, spi, bcd, status, moved, failed>>

NotFound ==
    /\ pc = "vendor" /\ todo = {}
    /\ LookupRaises("RuntimeError")
    /\ UNCHANGED <<usb, ask, lookup, todo, found, spi, bcd, moved, failed>>

\* busnum and devnum; they are not guarded as the ids are.
ReadNumbers ==
    /\ pc = "numbers"
    /\ at' = Name
    /\ IF port[Name] = None
       THEN LookupRaises("OSError") /\ UNCHANGED <<todo, num>>
       ELSE /\ num' = port[Name].num
            /\ IF lookup = "main" THEN pc' = "open" /\ UNCHANGED todo
                                  ELSE pc' = "match" /\ todo' = Listed
            /\ UNCHANGED <<status, fd>>
    /\ UNCHANGED <<usb, ask, lookup, spi, bcd, moved, failed>>
----------------------------------------------------------------------------
(* UsbfsDevice                                                             *)

\* The device that has the number now; its node is gone when there is none.
Open ==
    /\ pc = "open"
    /\ \/ \E p \in Port :
             /\ port[p].num = num
             /\ fd' = port[p]
             /\ pc' = (IF ask.mode = "spi" THEN "spi" ELSE "reg")
             /\ UNCHANGED <<status, failed>>
       \/ /\ Exit("2")
          /\ failed' = (failed \/ \E p \in Port : port[p].num = num)
    /\ UNCHANGED <<usb, ask, lookup, todo, found, spi, bcd, moved>>

Attached == \E p \in Port : port[p] = fd

\* control_in for n bytes moves k; usbfs refuses more than a page.
Moves(n, k) ==
    /\ Attached /\ n <= MaxTransfer
    /\ k = n \/ (k \in {0, n - 1} \cap Nat /\ shorts < MaxShort)
    /\ shorts' = IF k < n THEN shorts + 1 ELSE shorts

\* OSError: unplugged, stalled or timed out.
TransferFails ==
    /\ pc \in {"reg", "spi"}
    /\ pc = "reg" => pos < Len(Registers)
    /\ pc = "spi" => remaining > 0
    /\ Exit("OSError") /\ failed' = TRUE
    /\ UNCHANGED <<usb, ask, lookup, todo, found, spi, bcd, moved>>

\* reg_read: bRequest = addr >> 8, in eight bits, and wValue = addr & 0xff.
RegRead(a) == (256 * ((a \div 256) % 256)) + (a % 256)

\* An empty reply has no byte 0.
ReadRegister ==
    /\ pc = "reg" /\ pos < Len(Registers)
    /\ \E k \in 0 .. 1 :
          /\ Moves(1, k)
          /\ IF k = 0 THEN Exit("IndexError") /\ UNCHANGED <<pos, out>>
             ELSE /\ out' = Append(out, <<fd.serial, Registers[pos + 1], RegRead(Registers[pos + 1])>>)
                  /\ pos' = pos + 1
                  /\ UNCHANGED <<pc, status, fd>>
    /\ UNCHANGED <<usb, ask, lookup, todo, found, remaining, file, beat, bcd, moved, failed>>

RegistersRead ==
    /\ pc = "reg" /\ pos = Len(Registers)
    /\ IF ask.mode = "regs" THEN Exit("0") /\ UNCHANGED <<lookup, todo>>
       ELSE pc' = "vendor" /\ lookup' = "bcd" /\ todo' = Listed /\ UNCHANGED <<status, fd>>
    /\ UNCHANGED <<usb, ask, found, spi, bcd, moved, failed>>
----------------------------------------------------------------------------
(* spi_read                                                                *)

\* Mutant: wIndex is not byte-swapped.
WIndexPlain(a) == a % 65536

WValue(a) == (256 * ((a \div 65536) % 256)) + 3
WIndex(a) == (256 * (a % 256)) + ((a \div 256) % 256)
WLength(n) == n % 65536

\* The hub puts the address together again.
FlashAddress(v, i) == (65536 * (v \div 256)) + (256 * (i % 256)) + (i \div 256)

Span(a, k) == [dev |-> fd.serial, addr |-> a, len |-> k]
Join(s, t) ==
    IF t.len = 0 THEN s
    ELSE IF s # <<>> /\ Last(s).dev = t.dev /\ Last(s).addr + Last(s).len = t.addr
    THEN [s EXCEPT ![Len(s)].len = @ + t.len]
    ELSE Append(s, t)

\* Mutant: the loop counts what came.
CountsWhatCame(n, k) == k

\* What the loop moves on by after a transfer of k of n bytes.
Counts(n, k) == n

SpiTransfer ==
    /\ pc = "spi" /\ remaining > 0
    /\ LET n == Min({remaining, ask.chunk}) IN
       \E k \in {0, WLength(n) - 1, WLength(n)} \cap Nat :
          /\ Moves(WLength(n), k)
          /\ out' = Join(out, Span(FlashAddress(WValue(pos), WIndex(pos)), k))
          /\ pos' = pos + Counts(n, k)
          /\ remaining' = remaining - Counts(n, k)
    /\ beat' = ~beat
    /\ UNCHANGED <<usb, ask, pc, lookup, todo, found, fd, file, bcd, status, moved, failed>>

\* The file is opened, which empties it, only when all has been read.
WriteFile ==
    /\ pc = "spi" /\ remaining = 0
    /\ \/ Exit("0") /\ file' = [how |-> "written", spans |-> out] /\ UNCHANGED failed
       \/ Exit("OSError") /\ file' = [how |-> "broken", spans |-> <<>>] /\ failed' = TRUE
    /\ UNCHANGED <<usb, ask, lookup, todo, found, pos, remaining, out, shorts, beat, bcd, moved>>
----------------------------------------------------------------------------
(* _read_sysfs_bcd and the JEDEC id                                        *)

\* Mutant: the number is not compared.
HasSomeNumber(p) == port[p] # None

HasNumber(p) == port[p].num = num

\* The first name listed, in no order, that has the number; unreadable ones are
\* passed over.
MatchNumber ==
    /\ pc = "match"
    /\ IF todo = {} THEN pc' = "jedec" /\ UNCHANGED <<at, todo>>
       ELSE \E p \in todo :
               /\ todo' = todo \ {p}
               /\ IF HasNumber(p) THEN pc' = "bcd" /\ at' = p ELSE UNCHANGED <<pc, at>>
    /\ UNCHANGED <<usb, ask, lookup, num, fd, spi, bcd, status, moved, failed>>

\* int(raw[:2]) of a bcdDevice that does not begin with two decimal digits: only
\* the OSError of a file that is gone is caught.
ReadBcd ==
    /\ pc = "bcd"
    /\ IF port[at] # None /\ "bcd" \notin port[at].has
       THEN Exit("ValueError") /\ UNCHANGED bcd
       ELSE bcd' = port[at] /\ pc' = "jedec" /\ UNCHANGED <<fd, status>>
    /\ UNCHANGED <<usb, ask, lookup, todo, found, spi, moved, failed>>

\* The report is printed, and the JEDEC read may fail.
Jedec ==
    /\ pc = "jedec"
    /\ Exit("0")
    /\ UNCHANGED <<usb, ask, lookup, todo, found, spi, bcd, moved, failed>>
----------------------------------------------------------------------------
FreeNumbers == 1 .. Numbers \ {port[p].num : p \in Port}

Plug ==
    /\ pc \notin {"root", "end"} /\ plugs < MaxPlugs
    /\ plugs' = plugs + 1
    /\ \E p \in Port :
          /\ IF port[p] # None THEN port' = [port EXCEPT ![p] = None]
             ELSE \E n \in FreeNumbers : \E has \in SUBSET Traits :
                     port' = [port EXCEPT ![p] = Device(Ports + plugs', n, has)]
          /\ steady' = steady \ {p} /\ moved' = moved \cup {p}
    /\ UNCHANGED <<ask, pc, lookup, todo, found, fd, spi, bcd, status, failed>>

Tool ==
    \/ CheckRoot \/ ReadVendor \/ ReadProduct \/ NotFound \/ ReadNumbers \/ Open
    \/ TransferFails \/ ReadRegister \/ RegistersRead \/ SpiTransfer \/ WriteFile
    \/ MatchNumber \/ ReadBcd \/ Jedec

Next == Tool \/ Plug

\* The program goes on; nothing is assumed of the devices.
Spec == Init /\ [][Next]_vars /\ WF_vars(Tool)
----------------------------------------------------------------------------
(* Properties.                                                             *)

IsHub(d) == Ids \subseteq d.has

\* usbfs.py:48: the device opened has the ids asked for, unless its port changed
\* between the reading of the ids and the opening (another device can then have
\* its name or its number).  A hub that stays plugged in is missed only in that
\* way, or for want of permission.
OpensTheHub ==
    /\ pc \in {"reg", "spi"} => IsHub(fd) \/ at \in moved
    /\ status = "2" =>
          \/ failed \/ at \in moved
          \/ \A p \in steady : ~IsHub(port[p])

\* cli.py:124: a file is touched only when every transfer has returned, so that a
\* failed read leaves an earlier image alone; it holds the flash from 0 on without
\* a gap and from one device, whatever is plugged meanwhile, unless a transfer was
\* short, --spi-chunk does not fit wLength, or --spi-len is more than the three
\* bytes of a flash address reach: then the image begins again.
Reach == 16777216
FileIsImage ==
    /\ file.how # "kept" => remaining = 0
    /\ file.how = "written" /\ shorts = 0 /\ ask.chunk < 65536 /\ ask.len <= Reach =>
          \/ ask.len = 0 /\ file.spans = <<>>
          \/ /\ Len(file.spans) = 1
             /\ file.spans[1].addr = 0 /\ file.spans[1].len = ask.len

\* What is reported is one device's: every register is the one asked for (when it
\* has 16 bits), and bcdDevice is of the device whose registers were read unless a
\* port changed.  Without a fault of the devices the command ends with the whole
\* answer, or because there is no hub, or for one of two faults of the program: its
\* look at os, and the number it makes of the first two digits of bcdDevice.
ReportIsOfOne ==
    /\ pc = "end" /\ ask.mode # "spi" =>
          \A i \in DOMAIN out : /\ out[i][1] = out[1][1]
                                /\ out[i][2] = Registers[i]
                                /\ out[i][2] < 65536 => out[i][3] = out[i][2]
    /\ bcd # None /\ out # <<>> /\ plugs = 0 => bcd.serial = out[1][1]
    /\ status = "0" /\ ask.mode # "spi" => Len(out) = Len(Registers)
    /\ status \notin {"none", "0"} /\ ~failed /\ plugs = 0 /\ shorts = 0 =>
          \/ status = "2" /\ \A p \in Port : ~IsHub(port[p])
          \/ status = "UnboundLocalError" /\ OsIsLocal
          \/ /\ status = "ValueError" /\ ask.mode = "identity"
             /\ \E p \in Port : IsHub(port[p]) /\ "bcd" \notin port[p].has

\* vlidump/README.md:52: without a fault, and with the hub there, the command does
\* what it is for.
HubAnswers ==
    pc = "end" /\ ~failed /\ plugs = 0 /\ shorts = 0 /\ (\E p \in Port : IsHub(port[p]))
        => status = "0"

\* Every run ends, with the descriptor closed, but for a flash read in chunks of
\* nothing (--spi-chunk 0), which can go on for ever.
Endless == ask.mode = "spi" /\ ask.len > 0 /\ ask.chunk = 0
RunEndsClosed == Endless \/ <>(pc = "end" /\ fd = None)
=============================================================================
