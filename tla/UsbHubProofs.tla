----------------------------- MODULE UsbHubProofs ----------------------------
(***************************************************************************)
(* Proofs about vlidump on live hardware, for any number of ports, numbers *)
(* and plugs, any request and any number of short transfers: what is       *)
(* opened is the hub, a file is a whole image, and a report is of one      *)
(* device.  The invariant is UsbInv.                                       *)
(***************************************************************************)
EXTENDS UsbHub, WellFoundedInduction, TLAPS

Plugged == [serial : Nat \ {0}, num : Nat \ {0}, has : SUBSET Traits]
Devices == Plugged \cup {None}
Searching == {"vendor", "product", "numbers"}
Matching == {"match", "bcd", "jedec"}

TypeOK ==
    /\ port \in [Port -> Devices] /\ ask \in Requests
    /\ pc \in Searching \cup Matching \cup {"root", "open", "reg", "spi", "end"}
    /\ lookup \in {"main", "bcd"}
    /\ todo \subseteq Port /\ at \in Port /\ num \in Nat
    /\ fd \in Devices /\ bcd \in Devices
    /\ pos \in Nat /\ remaining \in Nat
    /\ plugs \in Nat /\ steady \subseteq Port /\ moved \subseteq Port
    /\ shorts \in Nat /\ failed \in BOOLEAN
    /\ status \in {"none", "0", "2", "OSError", "IndexError", "RuntimeError",
                  "UnboundLocalError", "ValueError"}

\* Which steps a call of find_device, and the command, can be at.
Control ==
    /\ pc \in {"root", "open", "reg", "spi"} => lookup = "main"
    /\ pc \in Matching => lookup = "bcd"
    /\ lookup = "bcd" => ask.mode = "identity"
    /\ pc = "spi" => ask.mode = "spi"
    /\ pc = "reg" => ask.mode # "spi"
    /\ pc \in {"product", "numbers"} => todo # {}
    /\ pc \in {"open", "reg", "spi", "match", "bcd"} => num # 0
    /\ pc \in {"reg", "spi"} => fd # None
    /\ (status = "none") = (pc # "end")
    /\ bcd # None => pc \in {"jedec", "end"} /\ lookup = "bcd"

\* No two devices share a number.
Distinct == \A p, q \in Port : p # q /\ port[p] # None => port[p].num # port[q].num

\* What find_device knows of the names it has passed over and of the one it is at.
Looking ==
    /\ pc \in Searching => \A p \in steady : IsHub(port[p]) => p \in todo
    /\ pc = "product" => Name \in moved \/ "vid" \in port[Name].has
    /\ pc = "numbers" => Name \in moved \/ IsHub(port[Name])
    /\ pc = "open" => at \in moved \/ (IsHub(port[at]) /\ port[at].num = num)

\* While nothing was plugged: every device stands at the port that bears its number,
\* and the number found is that of the first hub.
Still ==
    plugs = 0 =>
        /\ steady = Port /\ moved = {}
        /\ \A p \in Port : port[p] # None => port[p].num = p /\ port[p].serial = p
FirstHub(p) == p \in Port /\ IsHub(port[p]) /\ \A q \in Port : IsHub(port[q]) => p <= q
FoundFirst ==
    plugs = 0 =>
        /\ num # 0 => FirstHub(num)
        /\ pc \in {"reg", "spi"} => fd.serial = num
        /\ pc = "bcd" => port[at].num = num
        /\ ask.mode # "spi" /\ out # <<>> => num # 0 /\ out[1][1] = num
        /\ bcd # None => bcd.serial = num

\* Without a fault of the devices the command ends badly only for a hub that is not
\* there, at the look at os, or over the bcdDevice of the hub found.
Faultless ==
    plugs = 0 /\ ~failed /\ shorts = 0 =>
        \/ status \in {"none", "0"}
        \/ status = "2" /\ \A p \in Port : ~IsHub(port[p])
        \/ status = "UnboundLocalError" /\ OsIsLocal
        \/ /\ status = "ValueError" /\ ask.mode = "identity"
           /\ \E p \in Port : IsHub(port[p]) /\ "bcd" \notin port[p].has

\* The registers read so far, each as it was asked for and all from the device open.
RegistersOfOne ==
    ask.mode # "spi" =>
        /\ out \in Seq(Nat \X Nat \X Nat) /\ Len(out) = pos /\ pos <= Len(Registers)
        /\ \A i \in 1 .. pos : /\ out[i][1] = out[1][1]
                               /\ out[i][2] = Registers[i] /\ out[i][3] = RegRead(Registers[i])
                               /\ pc = "reg" => out[i][1] = fd.serial
        /\ lookup = "bcd" \/ status = "0" => pos = Len(Registers)
        /\ pc \in Searching \cup {"root", "open"} /\ lookup = "main" => pos = 0

\* The flash read so far: one span from 0 on, when no transfer was short and the
\* addresses do not begin again.
Whole(s, n, d) == IF n = 0 THEN s = <<>> ELSE s = <<[dev |-> d, addr |-> 0, len |-> n]>>
Exactly == shorts = 0 /\ ask.chunk < 65536 /\ ask.len <= Reach
FlashOfOne ==
    ask.mode = "spi" =>
        /\ pos + remaining = ask.len
        /\ Exactly /\ pc = "spi" => Whole(out, pos, fd.serial)
        /\ pc \notin {"spi", "end"} => pos = 0 /\ out = <<>>
FileWritten ==
    /\ file.how # "kept" => pc = "end" /\ remaining = 0
    /\ file.how = "written" => ask.mode = "spi"
    /\ file.how = "written" /\ Exactly => Whole(file.spans, ask.len, file.spans[1].dev)

UsbInv ==
    /\ TypeOK /\ Control /\ Distinct /\ Looking
    /\ Still /\ FoundFirst /\ Faultless
    /\ RegistersOfOne /\ FlashOfOne /\ FileWritten
    /\ OpensTheHub
-----------------------------------------------------------------------------
\* The least of some numbers.
LEMMA LeastExists ==
    ASSUME NEW S, S \subseteq Nat, S # {}
    PROVE  Min(S) \in S /\ \A y \in S : Min(S) <= y
<1>1. \E x \in S : \A y \in S : x <= y
  <2>1. PICK x \in S : \A y \in S : ~(<<y, x>> \in OpToRel(<, Nat))
    BY WFMin, NatLessThanWellFounded
  <2>2. ASSUME NEW y \in S PROVE x <= y
    <3>1. x \in Nat /\ y \in Nat
      OBVIOUS
    <3>2. ~(y < x)
      BY <2>1, <3>1 DEF OpToRel
    <3> QED
      BY <3>1, <3>2
  <2> QED
    BY <2>2
<1> QED
  BY <1>1 DEF Min

\* find_device looks at the least name that is left.
LEMMA NameIsLeast ==
    ASSUME TypeOK, todo # {}
    PROVE  Name \in todo /\ Name \in Port /\ Name \in Nat /\ \A p \in todo : Name <= p
<1>1. todo \subseteq Nat
  BY DEF TypeOK, Port
<1>2. Name \in todo /\ \A p \in todo : Name <= p
  BY <1>1, LeastExists DEF Name
<1> QED
  BY <1>1, <1>2 DEF TypeOK

\* A port without a device has no hub and no number.
LEMMA NothingThere ==
    /\ None \in Devices /\ None.num = 0 /\ None.has = {} /\ ~IsHub(None)
    /\ \A d \in Devices : d # None =>
          d.num \in Nat \ {0} /\ d.serial \in Nat \ {0} /\ d.has \subseteq Traits
    /\ \A d \in Devices : d.num \in Nat /\ d.serial \in Nat
BY DEF None, Devices, Plugged, IsHub, Ids, Traits

\* What the command line asks for.
LEMMA RequestFacts ==
    ASSUME TypeOK
    PROVE  /\ ask.mode \in {"regs", "spi", "identity"}
           /\ ask.len \in Nat /\ ask.chunk \in Nat
           /\ Registers \in Seq(Nat) /\ Len(Registers) \in Nat
           /\ \A i \in 1 .. Len(Registers) : Registers[i] \in Nat
<1>1. ask \in Requests
  BY DEF TypeOK
<1>2. ask.mode \in {"regs", "spi", "identity"} /\ ask.len \in Nat /\ ask.chunk \in Nat
      /\ ask.regs \in Seq(Nat)
  BY <1>1, UsbHubAssumption
<1>3. IdentityRegs \in Seq(Nat)
  BY DEF IdentityRegs
<1>4. Registers \in Seq(Nat)
  BY <1>2, <1>3 DEF Registers
<1> QED
  BY <1>2, <1>4

\* The first state.
LEMMA InitUsb == Init => UsbInv
<1> SUFFICES ASSUME Init PROVE UsbInv
  OBVIOUS
<1> USE UsbHubAssumption, NothingThere
<1>1. TypeOK
  <2>1. port \in [Port -> Devices]
    <3>1. PICK there \in SUBSET Port, has \in [Port -> SUBSET Traits] :
             port = [p \in Port |-> IF p \in there THEN Device(p, p, has[p]) ELSE None]
      BY DEF Init
    <3>2. ASSUME NEW p \in Port PROVE Device(p, p, has[p]) \in Plugged
      BY DEF Device, Plugged, Port
    <3> QED
      BY <3>1, <3>2 DEF Devices
  <2>2. 1 \in Port /\ {} \subseteq Port
    BY DEF Port
  <2>3. ask.len \in Nat
    BY DEF Init
  <2> QED
    BY <2>1, <2>2, <2>3 DEF Init, TypeOK, Searching, Matching
<1>2. Control
  BY DEF Init, Control, Searching, Matching
<1>3. Distinct
  BY DEF Init, Distinct, Device, None, Port
<1>4. Looking
  BY DEF Init, Looking, Searching
<1>5. Still
  BY DEF Init, Still, Device, None, Port
<1>6. FoundFirst
  BY DEF Init, FoundFirst
<1>7. Faultless
  BY DEF Init, Faultless
<1>8. RegistersOfOne
  BY <1>1, RequestFacts DEF Init, RegistersOfOne, Searching
<1>9. FlashOfOne
  BY <1>1, RequestFacts DEF Init, FlashOfOne
<1>10. FileWritten
  BY DEF Init, FileWritten
<1>11. OpensTheHub
  BY DEF Init, OpensTheHub
<1> QED
  BY <1>1, <1>2, <1>3, <1>4, <1>5, <1>6, <1>7, <1>8, <1>9, <1>10, <1>11 DEF UsbInv

\* The search begins: every port is still to be looked at.
LEMMA CheckRootKeeps == UsbInv /\ CheckRoot => UsbInv'
<1> SUFFICES ASSUME UsbInv, CheckRoot PROVE UsbInv'
  OBVIOUS
<1> USE NothingThere
<1>1. TypeOK'
  BY DEF UsbInv, TypeOK, CheckRoot, usb, found, spi, Searching, Listed
<1>2. Control'
  BY DEF UsbInv, Control, CheckRoot, Matching
<1>3. Distinct'
  BY DEF UsbInv, Distinct, CheckRoot, usb
<1>4. Looking'
  BY DEF UsbInv, Looking, CheckRoot, usb, TypeOK, Searching, Listed
<1>5. Still'
  BY DEF UsbInv, Still, CheckRoot, usb
<1>6. FoundFirst'
  BY DEF UsbInv, FoundFirst, CheckRoot, usb, found, spi, FirstHub, IsHub
<1>7. Faultless'
  BY DEF UsbInv, Faultless, CheckRoot, usb, spi
<1>8. RegistersOfOne'
  BY DEF UsbInv, RegistersOfOne, CheckRoot, spi, Registers
<1>9. FlashOfOne'
  BY DEF UsbInv, FlashOfOne, CheckRoot, spi, Exactly, Whole
<1>10. FileWritten'
  BY DEF UsbInv, FileWritten, CheckRoot, spi, Exactly, Whole
<1>11. OpensTheHub'
  BY DEF UsbInv, OpensTheHub, CheckRoot, usb, found
<1> QED
  BY <1>1, <1>2, <1>3, <1>4, <1>5, <1>6, <1>7, <1>8, <1>9, <1>10, <1>11 DEF UsbInv

\* A name is passed over when its device lacks the vendor; what stays plugged in and
\* is a hub is not passed over.
LEMMA ReadVendorKeeps == UsbInv /\ ReadVendor => UsbInv'
<1> SUFFICES ASSUME UsbInv, ReadVendor PROVE UsbInv'
  OBVIOUS
<1> USE NothingThere, NameIsLeast
<1>0. Name \in todo /\ Name \in Port /\ (\A p \in todo : Name <= p) /\ port[Name] \in Devices
  BY DEF UsbInv, TypeOK, Control, ReadVendor
<1>1. TypeOK'
  BY DEF UsbInv, TypeOK, ReadVendor, usb, found, spi, Searching
<1>2. Control'
  BY DEF UsbInv, Control, ReadVendor, Matching
<1>3. Distinct'
  BY DEF UsbInv, Distinct, ReadVendor, usb
<1>4. Looking'
  <2>1. CASE HasId("vid")
    BY <1>0, <2>1 DEF UsbInv, Looking, ReadVendor, HasId, Name, usb, Searching
  <2>2. CASE ~HasId("vid")
    <3>1. ~IsHub(port[Name])
      BY <1>0, <2>2 DEF HasId, IsHub, Ids
    <3> QED
      BY <1>0, <2>2, <3>1 DEF UsbInv, Looking, ReadVendor, usb, Searching
  <2> QED
    BY <2>1, <2>2
<1>5. Still'
  BY DEF UsbInv, Still, ReadVendor, usb
<1>6. FoundFirst'
  BY DEF UsbInv, FoundFirst, ReadVendor, usb, found, spi, FirstHub, IsHub
<1>7. Faultless'
  BY DEF UsbInv, Faultless, ReadVendor, usb, spi
<1>8. RegistersOfOne'
  BY DEF UsbInv, RegistersOfOne, ReadVendor, spi, Registers, Searching
<1>9. FlashOfOne'
  BY DEF UsbInv, FlashOfOne, ReadVendor, spi, Exactly, Whole
<1>10. FileWritten'
  BY DEF UsbInv, FileWritten, ReadVendor, spi, Exactly, Whole
<1>11. OpensTheHub'
  BY DEF UsbInv, OpensTheHub, ReadVendor, Control
<1> QED
  BY <1>1, <1>2, <1>3, <1>4, <1>5, <1>6, <1>7, <1>8, <1>9, <1>10, <1>11 DEF UsbInv

\* The same for the product; a device with both ids is a hub.
LEMMA ReadProductKeeps == UsbInv /\ ReadProduct => UsbInv'
<1> SUFFICES ASSUME UsbInv, ReadProduct PROVE UsbInv'
  OBVIOUS
<1> USE NothingThere, NameIsLeast
<1>0. Name \in todo /\ Name \in Port /\ (\A p \in todo : Name <= p) /\ port[Name] \in Devices
  BY DEF UsbInv, TypeOK, Control, ReadProduct
<1>1. TypeOK'
  BY DEF UsbInv, TypeOK, ReadProduct, usb, found, spi, Searching
<1>2. Control'
  BY DEF UsbInv, Control, ReadProduct, Matching
<1>3. Distinct'
  BY DEF UsbInv, Distinct, ReadProduct, usb
<1>4. Looking'
  <2>1. CASE HasId("pid")
    <3>1. Name \in moved \/ IsHub(port[Name])
      BY <1>0, <2>1 DEF UsbInv, Looking, ReadProduct, HasId, IsHub, Ids
    <3> QED
      BY <1>0, <2>1, <3>1 DEF UsbInv, Looking, ReadProduct, Name, usb, Searching
  <2>2. CASE ~HasId("pid")
    <3>1. ~IsHub(port[Name])
      BY <1>0, <2>2 DEF HasId, IsHub, Ids
    <3> QED
      BY <1>0, <2>2, <3>1 DEF UsbInv, Looking, ReadProduct, usb, Searching
  <2> QED
    BY <2>1, <2>2
<1>5. Still'
  BY DEF UsbInv, Still, ReadProduct, usb
<1>6. FoundFirst'
  BY DEF UsbInv, FoundFirst, ReadProduct, usb, found, spi, FirstHub, IsHub
<1>7. Faultless'
  BY DEF UsbInv, Faultless, ReadProduct, usb, spi
<1>8. RegistersOfOne'
  BY DEF UsbInv, RegistersOfOne, ReadProduct, spi, Registers, Searching
<1>9. FlashOfOne'
  BY DEF UsbInv, FlashOfOne, ReadProduct, spi, Exactly, Whole
<1>10. FileWritten'
  BY DEF UsbInv, FileWritten, ReadProduct, spi, Exactly, Whole
<1>11. OpensTheHub'
  BY DEF UsbInv, OpensTheHub, ReadProduct, usb, found
<1> QED
  BY <1>1, <1>2, <1>3, <1>4, <1>5, <1>6, <1>7, <1>8, <1>9, <1>10, <1>11 DEF UsbInv

\* No name is left, so no hub has stayed plugged in.
LEMMA NotFoundKeeps == UsbInv /\ NotFound => UsbInv'
<1> SUFFICES ASSUME UsbInv, NotFound PROVE UsbInv'
  OBVIOUS
<1> USE NothingThere
<1>1. TypeOK'
  BY DEF UsbInv, TypeOK, NotFound, LookupRaises, Exit, usb, found, spi, Matching
<1>2. Control'
  BY DEF UsbInv, Control, NotFound, LookupRaises, Exit, Matching
<1>3. Distinct'
  BY DEF UsbInv, Distinct, NotFound, LookupRaises, Exit, usb
<1>4. Looking'
  BY DEF UsbInv, Looking, NotFound, LookupRaises, Exit, Searching
<1>5. Still'
  BY DEF UsbInv, Still, NotFound, LookupRaises, Exit, usb
<1>6. FoundFirst'
  BY DEF UsbInv, FoundFirst, NotFound, LookupRaises, Exit, usb, found, spi, FirstHub, IsHub
<1>7. Faultless'
  BY DEF UsbInv, Faultless, NotFound, LookupRaises, Exit, usb, TypeOK, Control, Looking,
     Still
<1>8. RegistersOfOne'
  BY DEF UsbInv, RegistersOfOne, NotFound, LookupRaises, Exit, spi, Registers, Searching
<1>9. FlashOfOne'
  BY DEF UsbInv, FlashOfOne, NotFound, LookupRaises, Exit, spi, Exactly, Whole
<1>10. FileWritten'
  BY DEF UsbInv, FileWritten, NotFound, LookupRaises, Exit, spi, Exactly, Whole
<1>11. OpensTheHub'
  BY DEF UsbInv, OpensTheHub, NotFound, LookupRaises, Exit, usb, TypeOK, Control, Looking
<1> QED
  BY <1>1, <1>2, <1>3, <1>4, <1>5, <1>6, <1>7, <1>8, <1>9, <1>10, <1>11 DEF UsbInv

\* The number read is that of the device at the name, when nothing was plugged since.
LEMMA ReadNumbersKeeps == UsbInv /\ ReadNumbers => UsbInv'
<1> SUFFICES ASSUME UsbInv, ReadNumbers PROVE UsbInv'
  OBVIOUS
<1> USE NothingThere, NameIsLeast
<1>0. Name \in todo /\ Name \in Port /\ (\A p \in todo : Name <= p) /\ port[Name] \in Devices
  BY DEF UsbInv, TypeOK, Control, ReadNumbers
<1>a. IsHub(port[Name]) \/ Name \in moved
  BY DEF UsbInv, Looking, ReadNumbers
<1>b. plugs = 0 => FirstHub(Name) /\ port[Name] # None /\ port[Name].num = Name
  BY <1>0, <1>a DEF UsbInv, Looking, Still, FirstHub, ReadNumbers, Searching
<1>1. TypeOK'
  BY <1>0 DEF UsbInv, TypeOK, ReadNumbers, LookupRaises, Exit, usb, spi, Matching, Listed
<1>2. Control'
  BY DEF UsbInv, Control, ReadNumbers, LookupRaises, Exit, TypeOK, Matching
<1>3. Distinct'
  BY DEF UsbInv, Distinct, ReadNumbers, LookupRaises, Exit, usb
<1>4. Looking'
  BY DEF UsbInv, Looking, ReadNumbers, LookupRaises, Exit, usb, Searching
<1>5. Still'
  BY DEF UsbInv, Still, ReadNumbers, LookupRaises, Exit, usb
<1>6. FoundFirst'
  <2>1. plugs = 0 => num' = Name
    BY <1>b DEF ReadNumbers
  <2>2. plugs = 0 /\ num # 0 => num = Name
    <3>1. ASSUME NEW p, FirstHub(p), NEW q, FirstHub(q) PROVE p = q
      <4>1. p \in Port /\ q \in Port /\ p <= q /\ q <= p
        BY <3>1 DEF FirstHub
      <4> QED
        BY <4>1 DEF Port
    <3> QED
      BY <1>b, <3>1 DEF UsbInv, FoundFirst
  <2>3. plugs = 0 => FirstHub(num)'
    BY <1>b, <2>1 DEF FirstHub, IsHub, ReadNumbers, usb
  <2>4. /\ plugs' = plugs /\ ask' = ask /\ out' = out /\ bcd' = bcd
        /\ pc' \in {"open", "match", "jedec", "end"}
    BY DEF ReadNumbers, LookupRaises, Exit, usb, spi
  <2>5. plugs = 0 /\ bcd # None => FALSE
    BY DEF UsbInv, Control, ReadNumbers
  <2>6. plugs = 0 /\ ask.mode # "spi" /\ out # <<>> => out[1][1] = Name /\ Name # 0
    BY <1>0, <2>2 DEF UsbInv, FoundFirst, Port
  <2> QED
    BY <2>1, <2>3, <2>4, <2>5, <2>6 DEF FoundFirst
<1>7. Faultless'
  BY <1>b DEF UsbInv, Faultless, ReadNumbers, LookupRaises, Exit, usb, spi
<1>8. RegistersOfOne'
  BY DEF UsbInv, RegistersOfOne, ReadNumbers, LookupRaises, Exit, spi, Registers, Searching
<1>9. FlashOfOne'
  BY DEF UsbInv, FlashOfOne, ReadNumbers, LookupRaises, Exit, spi, Exactly, Whole
<1>10. FileWritten'
  BY DEF UsbInv, FileWritten, ReadNumbers, LookupRaises, Exit, spi, Exactly, Whole
<1>11. OpensTheHub'
  <2>1. pc' \notin {"reg", "spi"}
    BY DEF ReadNumbers, LookupRaises, Exit
  <2>2. CASE port[Name] = None
    <3>1. at' \in moved'
      BY <1>a, <2>2 DEF ReadNumbers
    <3> QED
      BY <2>1, <3>1 DEF OpensTheHub
  <2>3. CASE port[Name] # None
    <3>1. status' = "none"
      BY <2>3 DEF UsbInv, Control, ReadNumbers
    <3> QED
      BY <2>1, <3>1 DEF OpensTheHub
  <2> QED
    BY <2>2, <2>3
<1> QED
  BY <1>1, <1>2, <1>3, <1>4, <1>5, <1>6, <1>7, <1>8, <1>9, <1>10, <1>11 DEF UsbInv

\* What bears the number is opened: the hub found, unless its port changed.
LEMMA OpenKeeps == UsbInv /\ Open => UsbInv'
<1> SUFFICES ASSUME UsbInv, Open PROVE UsbInv'
  OBVIOUS
<1> USE NothingThere
<1>0. num # 0 /\ lookup = "main" /\ at \in Port
  BY DEF UsbInv, Control, TypeOK, Open
<1>a. ASSUME NEW p \in Port, port[p].num = num
      PROVE  port[p] # None /\ port[p] \in Devices
  BY <1>0, <1>a DEF UsbInv, TypeOK
<1>b. plugs = 0 => FirstHub(num) /\ port[num].num = num
  BY <1>0 DEF UsbInv, FoundFirst, Still, FirstHub
<1>c. at \in moved \/ (IsHub(port[at]) /\ port[at].num = num)
  BY DEF UsbInv, Looking, Open
<1>1. TypeOK'
  BY <1>a DEF UsbInv, TypeOK, Open, Exit, usb, found, spi
<1>2. Control'
  BY DEF UsbInv, Control, Open, Exit, found, Matching
<1>3. Distinct'
  BY DEF UsbInv, Distinct, Open, Exit, usb
<1>4. Looking'
  BY DEF UsbInv, Looking, Open, Exit, Searching
<1>5. Still'
  BY DEF UsbInv, Still, Open, Exit, usb
<1>6. FoundFirst'
  <2>1. CASE Exit("2")
    BY <2>1 DEF UsbInv, FoundFirst, FirstHub, IsHub, Exit, Open, usb, found, spi
  <2>2. CASE ~Exit("2")
    <3>1. PICK p \in Port : port[p].num = num /\ fd' = port[p]
      BY <2>2 DEF Open
    <3>2. plugs = 0 => fd'.serial = num
      BY <1>a, <3>1 DEF UsbInv, Still
    <3>3. pc' \in {"reg", "spi"}
      BY <2>2 DEF Open
    <3> QED
      BY <3>2, <3>3 DEF UsbInv, FoundFirst, FirstHub, IsHub, Open, usb, found, spi
  <2> QED
    BY <2>1, <2>2
<1>7. Faultless'
  <2>1. CASE Exit("2")
    <3>1. plugs = 0 => \E p \in Port : port[p].num = num
      BY <1>b DEF FirstHub
    <3>2. failed' = (failed \/ \E p \in Port : port[p].num = num)
      BY <2>1, <1>0 DEF UsbInv, Exit, Open, Control
    <3> QED
      BY <3>1, <3>2 DEF Faultless, Open, usb
  <2>2. CASE ~Exit("2")
    BY <2>2 DEF UsbInv, Faultless, Open, Control, usb, spi
  <2> QED
    BY <2>1, <2>2
<1>8. RegistersOfOne'
  BY DEF UsbInv, RegistersOfOne, Open, Exit, spi, Control, Registers
<1>9. FlashOfOne'
  BY DEF UsbInv, FlashOfOne, Open, Exit, spi, Exactly, Whole
<1>10. FileWritten'
  BY DEF UsbInv, FileWritten, Open, Exit, spi, Exactly, Whole
<1>11. OpensTheHub'
  <2>1. CASE Exit("2")
    <3>1. at \in moved \/ failed'
      BY <1>0, <1>c, <2>1 DEF Open, Exit
    <3> QED
      BY <2>1, <3>1 DEF OpensTheHub, Open, Exit, found
  <2>2. CASE ~Exit("2")
    <3>1. PICK p \in Port : port[p].num = num /\ fd' = port[p]
      BY <2>2 DEF Open
    <3>2. at \in moved \/ p = at
      BY <1>0, <1>a, <1>c, <3>1 DEF UsbInv, Distinct
    <3>3. status' = "none"
      BY <2>2 DEF UsbInv, Control, Open
    <3> QED
      BY <1>c, <3>1, <3>2, <3>3 DEF OpensTheHub, Open, found
  <2> QED
    BY <2>1, <2>2
<1> QED
  BY <1>1, <1>2, <1>3, <1>4, <1>5, <1>6, <1>7, <1>8, <1>9, <1>10, <1>11 DEF UsbInv

\* A transfer that fails ends the command; nothing is written.
LEMMA TransferFailsKeeps == UsbInv /\ TransferFails => UsbInv'
<1> SUFFICES ASSUME UsbInv, TransferFails PROVE UsbInv'
  OBVIOUS
<1> USE NothingThere
<1>1. TypeOK'
  BY DEF UsbInv, TypeOK, TransferFails, Exit, usb, found, spi
<1>2. Control'
  BY DEF UsbInv, Control, TransferFails, Exit, Matching
<1>3. Distinct'
  BY DEF UsbInv, Distinct, TransferFails, Exit, usb
<1>4. Looking'
  BY DEF UsbInv, Looking, TransferFails, Exit, Searching
<1>5. Still'
  BY DEF UsbInv, Still, TransferFails, Exit, usb
<1>6. FoundFirst'
  BY DEF UsbInv, FoundFirst, TransferFails, Exit, usb, found, spi, FirstHub, IsHub
<1>7. Faultless'
  BY DEF UsbInv, Faultless, TransferFails, Exit
<1>8. RegistersOfOne'
  BY DEF UsbInv, RegistersOfOne, TransferFails, Exit, spi, Registers, Searching
<1>9. FlashOfOne'
  BY DEF UsbInv, FlashOfOne, TransferFails, Exit, spi, Exactly, Whole
<1>10. FileWritten'
  BY DEF UsbInv, FileWritten, TransferFails, Exit, spi, Exactly, Whole
<1>11. OpensTheHub'
  BY DEF UsbInv, OpensTheHub, TransferFails, Exit
<1> QED
  BY <1>1, <1>2, <1>3, <1>4, <1>5, <1>6, <1>7, <1>8, <1>9, <1>10, <1>11 DEF UsbInv

\* What Append makes of a sequence.
LEMMA Appended ==
    ASSUME NEW S, NEW s \in Seq(S), NEW x \in S
    PROVE  /\ Append(s, x) \in Seq(S) /\ Len(Append(s, x)) = Len(s) + 1
           /\ Append(s, x)[Len(s) + 1] = x
           /\ \A i \in 1 .. Len(s) : Append(s, x)[i] = s[i]
  OBVIOUS


\* One register more, from the device open, as it was asked for.
LEMMA ReadRegisterKeeps == UsbInv /\ ReadRegister => UsbInv'
<1> SUFFICES ASSUME UsbInv, ReadRegister PROVE UsbInv'
  OBVIOUS
<1> USE NothingThere
<1>0. /\ ask.mode # "spi" /\ fd \in Devices /\ fd # None /\ pos \in Nat /\ shorts \in Nat
      /\ out \in Seq(Nat \X Nat \X Nat) /\ Len(out) = pos /\ ask' = ask /\ plugs' = plugs
  BY DEF UsbInv, TypeOK, Control, RegistersOfOne, ReadRegister, usb
<1>a. PICK k \in 0 .. 1 :
          /\ Moves(1, k)
          /\ IF k = 0 THEN Exit("IndexError") /\ UNCHANGED <<pos, out>>
             ELSE /\ out' = Append(out, <<fd.serial, Registers[pos + 1],
                                         RegRead(Registers[pos + 1])>>)
                  /\ pos' = pos + 1
                  /\ UNCHANGED <<pc, status, fd>>
  BY DEF ReadRegister
<1>b. shorts' \in Nat /\ (k = 0 => shorts' # 0)
  BY <1>0, <1>a DEF Moves
<1> DEFINE r == Registers[pos + 1]
           x == <<fd.serial, r, RegRead(r)>>
<1>c. r \in Nat /\ RegRead(r) \in Nat /\ x \in Nat \X Nat \X Nat
  <2>1. r \in Nat
    BY <1>0, RequestFacts DEF UsbInv, ReadRegister
  <2>2. RegRead(r) \in Nat
    <3>1. PICK n \in Nat : n = r
      BY <2>1
    <3>2. RegRead(n) \in Nat
      BY DEF RegRead
    <3> QED
      BY <3>1, <3>2
  <2>3. fd.serial \in Nat
    BY <1>0
  <2> QED
    BY <2>1, <2>2, <2>3
<1> HIDE DEF r
<1>d. k # 0 => /\ out' \in Seq(Nat \X Nat \X Nat) /\ Len(out') = pos + 1 /\ pos' = pos + 1
               /\ out'[pos + 1] = x /\ \A i \in 1 .. pos : out'[i] = out[i]
  <2>1. k # 0 => out' = Append(out, x) /\ pos' = pos + 1
    BY <1>a DEF r
  <2> DEFINE T == Nat \X Nat \X Nat
             o == Append(out, x)
  <2>2. out \in Seq(T) /\ x \in T
    BY <1>0, <1>c
  <2> HIDE DEF x, T
  <2>3. /\ o \in Seq(T) /\ Len(o) = Len(out) + 1 /\ o[Len(out) + 1] = x
        /\ \A i \in 1 .. Len(out) : o[i] = out[i]
    BY <2>2, Appended
  <2> HIDE DEF o
  <2> QED
    BY <1>0, <2>1, <2>3 DEF T, o
<1>1. TypeOK'
  BY <1>0, <1>a, <1>b DEF UsbInv, TypeOK, ReadRegister, Exit, usb, found, Searching,
     Matching
<1>2. Control'
  BY DEF UsbInv, Control, ReadRegister, Exit, found, Matching
<1>3. Distinct'
  BY DEF UsbInv, Distinct, ReadRegister, Exit, usb
<1>4. Looking'
  BY DEF UsbInv, Looking, ReadRegister, Exit, Searching
<1>5. Still'
  BY DEF UsbInv, Still, ReadRegister, Exit, usb
<1>6. FoundFirst'
  <2>1. CASE k = 0
    BY <1>a, <2>1 DEF UsbInv, FoundFirst, FirstHub, IsHub, ReadRegister, Exit, usb, found
  <2>2. CASE k # 0
    <3>1. plugs = 0 => out'[1][1] = num
      <4>1. CASE pos = 0
        BY <1>0, <1>d, <2>2, <4>1 DEF UsbInv, FoundFirst, ReadRegister
      <4>2. CASE pos # 0
        BY <1>0, <1>d, <2>2, <4>2 DEF UsbInv, FoundFirst
      <4> QED
        BY <4>1, <4>2
    <3>2. num # 0
      BY DEF UsbInv, Control, ReadRegister
    <3> QED
      BY <1>a, <2>2, <3>1, <3>2 DEF UsbInv, FoundFirst, FirstHub, IsHub, ReadRegister,
         usb, found
  <2> QED
    BY <2>1, <2>2
<1>7. Faultless'
  <2>1. CASE k = 0
    BY <1>b, <2>1 DEF Faultless
  <2>2. CASE k # 0
    BY <1>a, <2>2 DEF UsbInv, Control, Faultless, ReadRegister
  <2> QED
    BY <2>1, <2>2
<1>8. RegistersOfOne'
  <2>1. CASE k = 0
    <3>1. /\ out' = out /\ pos' = pos /\ Registers' = Registers /\ lookup' = "main" /\ lookup = "main"
          /\ pc' = "end" /\ status' = "IndexError"
      BY <1>0, <1>a, <2>1 DEF UsbInv, Control, Registers, ReadRegister, Exit
    <3> QED
      BY <1>0, <3>1 DEF UsbInv, RegistersOfOne, Searching
  <2>2. CASE k # 0
    <3>1. Registers' = Registers /\ Len(Registers) \in Nat
      BY <1>0, RequestFacts DEF Registers, UsbInv
    <3>2. /\ pos < Len(Registers) /\ lookup' = lookup /\ lookup = "main"
          /\ pc' = "reg" /\ fd' = fd /\ status' = "none"
      BY <1>a, <2>2 DEF ReadRegister, UsbInv, Control
    <3>3. ASSUME NEW i \in 1 .. pos + 1
          PROVE  /\ out'[i][1] = fd.serial
                 /\ out'[i][2] = Registers[i] /\ out'[i][3] = RegRead(Registers[i])
      <4>1. CASE i \in 1 .. pos
        BY <1>d, <2>2, <4>1 DEF UsbInv, RegistersOfOne, ReadRegister, Control
      <4>2. CASE i = pos + 1
        BY <1>d, <2>2, <4>2 DEF r
      <4> QED
        BY <1>0, <4>1, <4>2
    <3>4. 1 \in 1 .. pos + 1
      BY <1>0
    <3> QED
      BY <1>0, <1>d, <2>2, <3>1, <3>2, <3>3, <3>4 DEF RegistersOfOne, Searching
  <2> QED
    BY <2>1, <2>2
<1>9. FlashOfOne'
  BY DEF UsbInv, FlashOfOne, ReadRegister, Exit, Control, Exactly, Whole
<1>10. FileWritten'
  BY DEF UsbInv, FileWritten, ReadRegister, Exit, Exactly, Whole
<1>11. OpensTheHub'
  BY DEF UsbInv, OpensTheHub, ReadRegister, Exit, usb, found
<1> QED
  BY <1>1, <1>2, <1>3, <1>4, <1>5, <1>6, <1>7, <1>8, <1>9, <1>10, <1>11 DEF UsbInv

\* All registers are read; the identity goes on to look for the device again.
LEMMA RegistersReadKeeps == UsbInv /\ RegistersRead => UsbInv'
<1> SUFFICES ASSUME UsbInv, RegistersRead PROVE UsbInv'
  OBVIOUS
<1> USE NothingThere
<1>1. TypeOK'
  BY DEF UsbInv, TypeOK, RegistersRead, Exit, usb, found, spi, Searching, Listed
<1>2. Control'
  <2>1. ask.mode \in {"regs", "spi", "identity"}
    BY RequestFacts DEF UsbInv
  <2> QED
    BY <2>1 DEF UsbInv, Control, RegistersRead, Exit, Matching
<1>3. Distinct'
  BY DEF UsbInv, Distinct, RegistersRead, Exit, usb
<1>4. Looking'
  BY DEF UsbInv, Looking, RegistersRead, Exit, usb, TypeOK, Searching, Listed
<1>5. Still'
  BY DEF UsbInv, Still, RegistersRead, Exit, usb
<1>6. FoundFirst'
  BY DEF UsbInv, FoundFirst, RegistersRead, Exit, usb, found, spi, FirstHub, IsHub
<1>7. Faultless'
  BY DEF UsbInv, Faultless, RegistersRead, Exit, usb, spi
<1>8. RegistersOfOne'
  BY DEF UsbInv, RegistersOfOne, RegistersRead, Exit, spi, Registers, Searching
<1>9. FlashOfOne'
  BY DEF UsbInv, FlashOfOne, RegistersRead, Exit, spi, Exactly, Whole
<1>10. FileWritten'
  BY DEF UsbInv, FileWritten, RegistersRead, Exit, spi, Exactly, Whole
<1>11. OpensTheHub'
  BY DEF UsbInv, OpensTheHub, RegistersRead, Exit, usb, found
<1> QED
  BY <1>1, <1>2, <1>3, <1>4, <1>5, <1>6, <1>7, <1>8, <1>9, <1>10, <1>11 DEF UsbInv

\* The hub puts together the address that was sent, as far as three bytes reach.
LEMMA AddressIsSent ==
    ASSUME NEW n \in Nat, n < Reach
    PROVE  FlashAddress(WValue(n), WIndex(n)) = n
<1>1. PICK h \in Nat, l \in Nat : n = 65536 * h + l /\ l < 65536 /\ h < 256 /\ n \div 65536 = h
  <2>1. n \div 65536 \in Nat /\ n - 65536 * (n \div 65536) \in Nat
        /\ n - 65536 * (n \div 65536) < 65536 /\ n \div 65536 < 256
    BY SMT DEF Reach
  <2> QED
    BY <2>1, SMT
<1>2. PICK b \in Nat, c \in Nat : l = 256 * b + c /\ c < 256 /\ b < 256
  <2>1. l \div 256 \in Nat /\ l - 256 * (l \div 256) \in Nat
        /\ l - 256 * (l \div 256) < 256 /\ l \div 256 < 256
    BY <1>1, SMT
  <2> QED
    BY <2>1, SMT
<1>3. n \div 256 = 256 * h + b /\ n % 256 = c
  BY <1>1, <1>2, SMT
<1>4. (n \div 256) % 256 = b /\ h % 256 = h
  BY <1>1, <1>2, <1>3, SMT
<1>5. WValue(n) = 256 * h + 3 /\ WIndex(n) = 256 * c + b
  BY <1>1, <1>3, <1>4, SMT DEF WValue, WIndex
<1>6. (256 * h + 3) \div 256 = h /\ (256 * c + b) % 256 = b /\ (256 * c + b) \div 256 = c
  BY <1>2, SMT
<1> QED
  BY <1>1, <1>2, <1>5, <1>6, SMT DEF FlashAddress

\* A transfer asks for no more than is left, nor for more than a chunk.
LEMMA TransferSize ==
    ASSUME NEW m \in Nat, NEW n \in Nat
    PROVE  LET k == Min({m, n}) IN k \in Nat /\ k <= m /\ k <= n
<1>1. {m, n} \subseteq Nat /\ {m, n} # {}
  OBVIOUS
<1>2. Min({m, n}) \in {m, n} /\ \A y \in {m, n} : Min({m, n}) <= y
  BY <1>1, LeastExists
<1> QED
  BY <1>1, <1>2


\* One transfer more: its span follows on the last one, when none was short.
LEMMA SpiTransferKeeps == UsbInv /\ SpiTransfer => UsbInv'
<1> SUFFICES ASSUME UsbInv, SpiTransfer PROVE UsbInv'
  OBVIOUS
<1> DEFINE n == Min({remaining, ask.chunk})
<1>0. n \in Nat /\ n <= remaining /\ n <= ask.chunk /\ remaining \in Nat /\ ask.chunk \in Nat
      /\ pos \in Nat /\ shorts \in Nat /\ ask.mode = "spi" /\ fd \in Devices
      /\ ask.len \in Nat
  BY TransferSize, RequestFacts DEF UsbInv, TypeOK, Control, SpiTransfer
<1>a. PICK k \in {0, WLength(n) - 1, WLength(n)} \cap Nat :
          /\ Moves(WLength(n), k)
          /\ out' = Join(out, Span(FlashAddress(WValue(pos), WIndex(pos)), k))
          /\ pos' = pos + n
          /\ remaining' = remaining - n
  BY DEF SpiTransfer, Counts
<1> HIDE DEF n
<1>b. pos' \in Nat /\ remaining' \in Nat /\ pos' + remaining' = pos + remaining
  BY <1>0, <1>a
<1>c. shorts' \in Nat /\ (shorts' = 0 => shorts = 0 /\ k >= WLength(n))
  <2>1. WLength(n) \in Nat
    BY <1>0, SMT DEF WLength
  <2> QED
    BY <1>0, <1>a, <2>1 DEF Moves
<1>d. UNCHANGED <<usb, ask, pc, lookup, todo, found, fd, file, bcd, status, moved, failed>>
  BY DEF SpiTransfer
<1>1. TypeOK'
  BY <1>b, <1>c, <1>d DEF UsbInv, TypeOK, usb, found
<1>2. Control'
  BY DEF UsbInv, Control, SpiTransfer, found
<1>3. Distinct'
  BY DEF UsbInv, Distinct, SpiTransfer, usb
<1>4. Looking'
  BY DEF UsbInv, Looking, SpiTransfer, usb
<1>5. Still'
  BY DEF UsbInv, Still, SpiTransfer, usb
<1>6. FoundFirst'
  BY DEF UsbInv, FoundFirst, SpiTransfer, usb, found, spi, Control, FirstHub, IsHub
<1>7. Faultless'
  BY DEF UsbInv, Faultless, SpiTransfer, Control
<1>8. RegistersOfOne'
  BY DEF UsbInv, RegistersOfOne, SpiTransfer, spi, Control, Registers
<1>9. FlashOfOne'
  <2>1. (pos + remaining = ask.len)'
    BY <1>0, <1>b, <1>d DEF UsbInv, FlashOfOne
  <2>2. pc = "spi" /\ pc' = "spi" /\ fd' = fd /\ ask' = ask
    BY <1>d DEF SpiTransfer
  <2>3. ASSUME Exactly' PROVE Whole(out', pos', fd.serial)
    <3>1. Exactly /\ k = n /\ pos < Reach
      <4>1. ask.chunk < 65536 /\ ask.len <= Reach /\ shorts = 0 /\ k >= WLength(n)
        BY <1>c, <2>2, <2>3 DEF Exactly
      <4>2. WLength(n) = n
        BY <1>0, <4>1, SMT DEF WLength
      <4>3. pos + remaining = ask.len /\ remaining > 0
        BY <1>0 DEF UsbInv, FlashOfOne, SpiTransfer
      <4>4. pos < ask.len
        BY <1>0, <4>3
      <4>5. pos < Reach
        BY <1>0, <4>1, <4>4, SMT DEF Reach
      <4>6. k = n
        BY <1>0, <4>1, <4>2
      <4> QED
        BY <4>1, <4>5, <4>6 DEF Exactly
    <3>2. Whole(out, pos, fd.serial)
      BY <1>0, <2>2, <3>1 DEF UsbInv, FlashOfOne
    <3>3. out' = Join(out, Span(pos, n))
      BY <1>0, <1>a, <3>1, AddressIsSent
    <3>4. CASE n = 0
      BY <1>0, <1>a, <3>2, <3>3, <3>4 DEF Join, Span
    <3>5. CASE n # 0 /\ pos = 0
      <4>1. out = <<>>
        BY <3>2, <3>5 DEF Whole
      <4>2. out' = Append(<<>>, Span(pos, n))
        BY <3>3, <3>5, <4>1 DEF Join, Span
      <4>3. Append(<<>>, Span(pos, n)) = <<Span(pos, n)>>
        OBVIOUS
      <4> QED
        BY <1>0, <1>a, <3>5, <4>2, <4>3 DEF Span, Whole
    <3>6. CASE n # 0 /\ pos # 0
      <4>1. out = <<[dev |-> fd.serial, addr |-> 0, len |-> pos]>>
        BY <3>2, <3>6 DEF Whole
      <4>2. Len(out) = 1 /\ Last(out) = [dev |-> fd.serial, addr |-> 0, len |-> pos] /\ out # <<>>
        BY <4>1 DEF Last
      <4>3. out' = [out EXCEPT ![Len(out)].len = @ + n]
        BY <1>0, <3>3, <3>6, <4>2 DEF Join, Span
      <4>4. out' = [out EXCEPT ![1] = [out[1] EXCEPT !.len = pos + n]]
        BY <4>1, <4>2, <4>3
      <4>5. [out[1] EXCEPT !.len = pos + n] = [dev |-> fd.serial, addr |-> 0, len |-> pos + n]
        BY <4>1
      <4>6. out' = <<[dev |-> fd.serial, addr |-> 0, len |-> pos + n]>>
        BY <4>1, <4>4, <4>5
      <4>7. pos' = pos + n /\ pos + n # 0
        BY <1>0, <1>a, <3>6
      <4> QED
        BY <4>6, <4>7 DEF Whole
    <3> QED
      BY <3>4, <3>5, <3>6
  <2> QED
    BY <2>1, <2>2, <2>3 DEF FlashOfOne
<1>10. FileWritten'
  BY DEF UsbInv, FileWritten, SpiTransfer, spi, Exactly, Whole
<1>11. OpensTheHub'
  BY DEF UsbInv, OpensTheHub, SpiTransfer, usb, found
<1> QED
  BY <1>1, <1>2, <1>3, <1>4, <1>5, <1>6, <1>7, <1>8, <1>9, <1>10, <1>11 DEF UsbInv

\* The file is what was read, all of it.
LEMMA WriteFileKeeps == UsbInv /\ WriteFile => UsbInv'
<1> SUFFICES ASSUME UsbInv, WriteFile PROVE UsbInv'
  OBVIOUS
<1> USE NothingThere
<1>1. TypeOK'
  BY DEF UsbInv, TypeOK, WriteFile, Exit, usb, found, spi
<1>2. Control'
  BY DEF UsbInv, Control, WriteFile, Exit, Matching
<1>3. Distinct'
  BY DEF UsbInv, Distinct, WriteFile, Exit, usb
<1>4. Looking'
  BY DEF UsbInv, Looking, WriteFile, Exit, Searching
<1>5. Still'
  BY DEF UsbInv, Still, WriteFile, Exit, usb
<1>6. FoundFirst'
  BY DEF UsbInv, FoundFirst, WriteFile, Exit, usb, found, spi, FirstHub, IsHub
<1>7. Faultless'
  BY DEF UsbInv, Faultless, WriteFile, Exit
<1>8. RegistersOfOne'
  BY DEF UsbInv, RegistersOfOne, WriteFile, Exit, spi, Control, Registers
<1>9. FlashOfOne'
  BY DEF UsbInv, FlashOfOne, WriteFile, Exit, spi, Exactly, Whole
<1>10. FileWritten'
  <2>1. pc' = "end" /\ remaining' = 0 /\ ask' = ask /\ ask.mode = "spi" /\ remaining = 0
    BY DEF UsbInv, Control, WriteFile, Exit
  <2>2. ASSUME file'.how = "written", Exactly'
        PROVE  Whole(file'.spans, ask.len, file'.spans[1].dev)
    <3>1. file' = [how |-> "written", spans |-> out] /\ shorts' = shorts
      BY <2>2 DEF WriteFile
    <3>2. Whole(out, pos, fd.serial) /\ pos = ask.len
      BY <2>1, <2>2, <3>1 DEF UsbInv, TypeOK, FlashOfOne, Exactly, WriteFile
    <3> QED
      BY <3>1, <3>2 DEF Whole
  <2> QED
    BY <2>1, <2>2 DEF FileWritten
<1>11. OpensTheHub'
  BY DEF UsbInv, OpensTheHub, WriteFile, Exit
<1> QED
  BY <1>1, <1>2, <1>3, <1>4, <1>5, <1>6, <1>7, <1>8, <1>9, <1>10, <1>11 DEF UsbInv

\* A name is passed over, or its device has the number found.
LEMMA MatchNumberKeeps == UsbInv /\ MatchNumber => UsbInv'
<1> SUFFICES ASSUME UsbInv, MatchNumber PROVE UsbInv'
  OBVIOUS
<1>1. TypeOK'
  BY DEF UsbInv, TypeOK, MatchNumber, usb, spi, Matching
<1>2. Control'
  BY DEF UsbInv, Control, MatchNumber, Matching
<1>3. Distinct'
  BY DEF UsbInv, Distinct, MatchNumber, usb
<1>4. Looking'
  BY DEF UsbInv, Looking, MatchNumber, Searching
<1>5. Still'
  BY DEF UsbInv, Still, MatchNumber, usb
<1>6. FoundFirst'
  <2>1. pc' \in {"jedec", "bcd", "match"} /\ (pc' = "bcd" => port[at'].num = num)
    BY DEF MatchNumber, HasNumber
  <2> QED
    BY <2>1 DEF UsbInv, FoundFirst, FirstHub, IsHub, MatchNumber, usb, spi
<1>7. Faultless'
  BY DEF UsbInv, Faultless, MatchNumber, usb, spi
<1>8. RegistersOfOne'
  BY DEF UsbInv, RegistersOfOne, MatchNumber, spi, Registers, Searching
<1>9. FlashOfOne'
  BY DEF UsbInv, FlashOfOne, MatchNumber, spi, Exactly, Whole
<1>10. FileWritten'
  BY DEF UsbInv, FileWritten, MatchNumber, spi, Exactly, Whole
<1>11. OpensTheHub'
  BY DEF UsbInv, OpensTheHub, MatchNumber, Control
<1> QED
  BY <1>1, <1>2, <1>3, <1>4, <1>5, <1>6, <1>7, <1>8, <1>9, <1>10, <1>11 DEF UsbInv

\* bcdDevice is read at the name found.
LEMMA ReadBcdKeeps == UsbInv /\ ReadBcd => UsbInv'
<1> SUFFICES ASSUME UsbInv, ReadBcd PROVE UsbInv'
  OBVIOUS
<1> USE NothingThere
<1>1. TypeOK'
  BY DEF UsbInv, TypeOK, ReadBcd, Exit, usb, found, spi, Matching
<1>2. Control'
  BY DEF UsbInv, Control, ReadBcd, Exit, Matching
<1>3. Distinct'
  BY DEF UsbInv, Distinct, ReadBcd, usb
<1>4. Looking'
  BY DEF UsbInv, Looking, ReadBcd, Exit, Searching
<1>5. Still'
  BY DEF UsbInv, Still, ReadBcd, usb
<1>a. at \in Port /\ num # 0 /\ (plugs = 0 => port[at].num = num /\ port[at] # None)
  BY DEF UsbInv, TypeOK, Control, FoundFirst, ReadBcd
<1>6. FoundFirst'
  <2>1. plugs = 0 /\ bcd' # None => bcd'.serial = num
    BY <1>a DEF UsbInv, Still, Control, ReadBcd, Matching
  <2> QED
    BY <2>1 DEF UsbInv, FoundFirst, FirstHub, IsHub, ReadBcd, Exit, usb, found, spi
<1>7. Faultless'
  <2>1. CASE port[at] # None /\ "bcd" \notin port[at].has
    <3>1. plugs = 0 => IsHub(port[at])
      <4>1. plugs = 0 => at = num /\ FirstHub(num)
        BY <1>a DEF UsbInv, Still, FoundFirst
      <4> QED
        BY <4>1 DEF FirstHub
    <3>2. status' = "ValueError" /\ ask.mode = "identity"
      BY <2>1 DEF ReadBcd, Exit, UsbInv, Control, Matching
    <3>3. UNCHANGED <<port, plugs, ask>>
      BY DEF ReadBcd, usb
    <3> QED
      BY <1>a, <2>1, <3>1, <3>2, <3>3 DEF Faultless
  <2>2. CASE ~(port[at] # None /\ "bcd" \notin port[at].has)
    BY <2>2 DEF UsbInv, Faultless, ReadBcd, usb, spi
  <2> QED
    BY <2>1, <2>2
<1>8. RegistersOfOne'
  BY DEF UsbInv, RegistersOfOne, ReadBcd, Exit, spi, Control, Registers, Searching, Matching
<1>9. FlashOfOne'
  BY DEF UsbInv, FlashOfOne, ReadBcd, Exit, spi, Exactly, Whole
<1>10. FileWritten'
  BY DEF UsbInv, FileWritten, ReadBcd, Exit, spi, Exactly, Whole
<1>11. OpensTheHub'
  BY DEF UsbInv, OpensTheHub, ReadBcd, Exit, usb, found
<1> QED
  BY <1>1, <1>2, <1>3, <1>4, <1>5, <1>6, <1>7, <1>8, <1>9, <1>10, <1>11 DEF UsbInv

\* The command ends well.
LEMMA JedecKeeps == UsbInv /\ Jedec => UsbInv'
<1> SUFFICES ASSUME UsbInv, Jedec PROVE UsbInv'
  OBVIOUS
<1> USE NothingThere
<1>1. TypeOK'
  BY DEF UsbInv, TypeOK, Jedec, Exit, usb, found, spi
<1>2. Control'
  BY DEF UsbInv, Control, Jedec, Exit, Matching
<1>3. Distinct'
  BY DEF UsbInv, Distinct, Jedec, Exit, usb
<1>4. Looking'
  BY DEF UsbInv, Looking, Jedec, Exit, Searching
<1>5. Still'
  BY DEF UsbInv, Still, Jedec, Exit, usb
<1>6. FoundFirst'
  BY DEF UsbInv, FoundFirst, Jedec, Exit, usb, found, spi, FirstHub, IsHub
<1>7. Faultless'
  BY DEF UsbInv, Faultless, Jedec, Exit
<1>8. RegistersOfOne'
  BY DEF UsbInv, RegistersOfOne, Jedec, Exit, spi, Control, Registers, Matching
<1>9. FlashOfOne'
  BY DEF UsbInv, FlashOfOne, Jedec, Exit, spi, Exactly, Whole
<1>10. FileWritten'
  BY DEF UsbInv, FileWritten, Jedec, Exit, spi, Exactly, Whole
<1>11. OpensTheHub'
  BY DEF UsbInv, OpensTheHub, Jedec, Exit
<1> QED
  BY <1>1, <1>2, <1>3, <1>4, <1>5, <1>6, <1>7, <1>8, <1>9, <1>10, <1>11 DEF UsbInv

\* A port changes: it is no longer steady, and what was found may not be there.
LEMMA PlugKeeps == UsbInv /\ Plug => UsbInv'
<1> SUFFICES ASSUME UsbInv, Plug PROVE UsbInv'
  OBVIOUS
<1> USE NothingThere, NameIsLeast
<1>0. PICK p \in Port :
          /\ IF port[p] # None THEN port' = [port EXCEPT ![p] = None]
             ELSE \E n \in FreeNumbers : \E has \in SUBSET Traits :
                     port' = [port EXCEPT ![p] = Device(Ports + plugs', n, has)]
          /\ steady' = steady \ {p} /\ moved' = moved \cup {p}
  BY DEF Plug
<1>a. PICK d \in Devices : /\ port' = [port EXCEPT ![p] = d]
                           /\ d # None => d.num \in FreeNumbers
  <2>1. CASE port[p] # None
    BY <1>0, <2>1
  <2>2. CASE port[p] = None
    <3>1. PICK n \in FreeNumbers, has \in SUBSET Traits :
              port' = [port EXCEPT ![p] = Device(Ports + plugs', n, has)]
      BY <1>0, <2>2
    <3>2. Device(Ports + plugs', n, has) \in Plugged
      <4>1. n \in Nat \ {0}
        BY UsbHubAssumption DEF FreeNumbers
      <4>2. Ports + plugs' \in Nat \ {0}
        BY UsbHubAssumption DEF Plug, UsbInv, TypeOK
      <4> QED
        BY <4>1, <4>2 DEF Device, Plugged
    <3>3. Device(Ports + plugs', n, has).num = n
      BY DEF Device
    <3> QED
      BY <3>1, <3>2, <3>3 DEF Devices
  <2> QED
    BY <2>1, <2>2
<1>b. port \in [Port -> Devices]
  BY DEF UsbInv, TypeOK
<1>c. port'[p] = d /\ \A q \in Port : q # p => port'[q] = port[q]
  BY <1>a, <1>b
<1>1. TypeOK'
  <2>1. port' \in [Port -> Devices]
    BY <1>a, <1>b
  <2>2. steady' \subseteq Port /\ moved' \subseteq Port
    BY <1>0 DEF UsbInv, TypeOK
  <2>3. plugs' \in Nat
    BY DEF UsbInv, TypeOK, Plug
  <2> QED
    BY <2>1, <2>2, <2>3 DEF UsbInv, TypeOK, Plug, found, spi
<1>2. Control'
  BY DEF UsbInv, Control, Plug, found
<1>3. Distinct'
  <2>1. ASSUME NEW q \in Port, NEW r \in Port, q # r, port'[q] # None
        PROVE  port'[q].num # port'[r].num
    <3>1. CASE q = p
      BY <1>a, <1>c, <2>1, <3>1 DEF FreeNumbers
    <3>2. CASE r = p
      <4>1. port[q] # None /\ port'[q] = port[q] /\ port[q].num # 0
        BY <1>b, <1>c, <2>1, <3>2
      <4>2. d = None \/ d.num # port[q].num
        BY <1>a DEF FreeNumbers
      <4> QED
        BY <1>c, <3>2, <4>1, <4>2
    <3>3. CASE q # p /\ r # p
      BY <1>c, <2>1, <3>3 DEF UsbInv, Distinct
    <3> QED
      BY <3>1, <3>2, <3>3
  <2> QED
    BY <2>1 DEF Distinct
<1>4. Looking'
  <2>1. UNCHANGED <<pc, todo, at, num>> /\ Name' = Name
    BY DEF Plug, found, Name
  <2>2. \A q \in Port : q \in moved' \/ (q # p /\ q \notin moved /\ port'[q] = port[q])
    BY <1>0, <1>c
  <2>3. \A q \in steady' : q \in steady /\ port'[q] = port[q]
    BY <1>0, <1>c DEF UsbInv, TypeOK
  <2>4. todo # {} => Name \in Port
    BY DEF UsbInv
  <2>5. at \in Port
    BY DEF UsbInv, TypeOK
  <2> QED
    BY <2>1, <2>2, <2>3, <2>4, <2>5 DEF UsbInv, Looking, Control, Searching
<1>5. Still'
  BY DEF UsbInv, Still, Plug, TypeOK
<1>6. FoundFirst'
  BY DEF UsbInv, FoundFirst, Plug, spi, TypeOK, FirstHub, IsHub
<1>7. Faultless'
  BY DEF UsbInv, Faultless, Plug, Control
<1>8. RegistersOfOne'
  BY DEF UsbInv, RegistersOfOne, Plug, spi, Registers
<1>9. FlashOfOne'
  BY DEF UsbInv, FlashOfOne, Plug, spi, Exactly, Whole
<1>10. FileWritten'
  BY DEF UsbInv, FileWritten, Plug, spi, Exactly, Whole
<1>11. OpensTheHub'
  BY DEF UsbInv, OpensTheHub, Plug, found, Control
<1> QED
  BY <1>1, <1>2, <1>3, <1>4, <1>5, <1>6, <1>7, <1>8, <1>9, <1>10, <1>11 DEF UsbInv

-----------------------------------------------------------------------------
\* The inductive invariant of the USB tool.
THEOREM UsbInvariant == Spec => []UsbInv
<1>1. Init => UsbInv
  BY InitUsb
<1>2. UsbInv /\ [Next]_vars => UsbInv'
  <2> SUFFICES ASSUME UsbInv, [Next]_vars PROVE UsbInv'
    OBVIOUS
  <2>1. CASE Next
    BY <2>1, CheckRootKeeps, ReadVendorKeeps, ReadProductKeeps, NotFoundKeeps,
       ReadNumbersKeeps, OpenKeeps, TransferFailsKeeps, ReadRegisterKeeps,
       RegistersReadKeeps, SpiTransferKeeps, WriteFileKeeps, MatchNumberKeeps,
       ReadBcdKeeps, JedecKeeps, PlugKeeps DEF Next, Tool
  <2>2. CASE UNCHANGED vars
    <3>1. TypeOK' /\ Control' /\ Distinct' /\ Looking'
      BY <2>2 DEF vars, UsbInv, TypeOK, Control, Distinct, Looking, Name
    <3>2. Still' /\ FoundFirst' /\ Faultless'
      BY <2>2 DEF vars, UsbInv, Still, FoundFirst, FirstHub, Faultless
    <3>3. RegistersOfOne'
      BY <2>2 DEF vars, UsbInv, RegistersOfOne, Registers
    <3>4. FlashOfOne' /\ FileWritten'
      BY <2>2 DEF vars, UsbInv, FlashOfOne, FileWritten, Exactly
    <3>5. OpensTheHub'
      BY <2>2 DEF vars, UsbInv, OpensTheHub
    <3> QED
      BY <3>1, <3>2, <3>3, <3>4, <3>5 DEF UsbInv
  <2> QED
    BY <2>1, <2>2
<1> QED
  BY <1>1, <1>2, PTL DEF Spec

\* The device opened has the ids asked for, unless its port changed meanwhile, and a
\* hub that stays plugged in is missed only in that way or for want of permission
\* (usbfs.find_device and UsbfsDevice).
THEOREM HubIsOpened == Spec => []OpensTheHub
<1>1. UsbInv => OpensTheHub
  BY DEF UsbInv
<1> QED
  BY <1>1, UsbInvariant, PTL

\* The file of --spi-dump is touched only after the last transfer, and it holds the
\* flash from 0 on without a gap and from one device (vli.spi_read).
THEOREM FilesAreImages == Spec => []FileIsImage
<1>1. UsbInv => FileIsImage
  <2> SUFFICES ASSUME UsbInv PROVE FileIsImage
    OBVIOUS
  <2>1. file.how # "kept" => remaining = 0
    BY DEF UsbInv, FileWritten
  <2>2. ASSUME file.how = "written", Exactly
        PROVE  \/ ask.len = 0 /\ file.spans = <<>>
               \/ /\ Len(file.spans) = 1
                  /\ file.spans[1].addr = 0 /\ file.spans[1].len = ask.len
    <3>1. Whole(file.spans, ask.len, file.spans[1].dev)
      BY <2>2 DEF UsbInv, FileWritten
    <3>2. CASE ask.len = 0
      BY <3>1, <3>2, Zenon DEF Whole
    <3>3. CASE ask.len # 0
      <4>1. PICK d : file.spans = <<[dev |-> d, addr |-> 0, len |-> ask.len]>>
        BY <3>1, <3>3, Zenon DEF Whole
      <4>2. /\ Len(<<[dev |-> d, addr |-> 0, len |-> ask.len]>>) = 1
            /\ <<[dev |-> d, addr |-> 0, len |-> ask.len]>>[1].addr = 0
            /\ <<[dev |-> d, addr |-> 0, len |-> ask.len]>>[1].len = ask.len
        OBVIOUS
      <4> QED
        BY <4>1, <4>2, Zenon
    <3> QED
      BY <3>2, <3>3
  <2> QED
    BY <2>1, <2>2 DEF FileIsImage, Exactly
<1> QED
  BY <1>1, UsbInvariant, PTL

\* A register of 16 bits is read at its address.
LEMMA RegisterIsRead == \A n \in Nat : n < 65536 => RegRead(n) = n
<1> TAKE n \in Nat
<1>1. PICK h \in Nat, l \in Nat : n = 256 * h + l /\ l < 256 /\ n \div 256 = h
  <2>1. n \div 256 \in Nat /\ n - 256 * (n \div 256) \in Nat /\ n - 256 * (n \div 256) < 256
    BY SMT
  <2> QED
    BY <2>1, SMT
<1>2. n % 256 = l /\ (n < 65536 => h % 256 = h)
  BY <1>1, SMT
<1> QED
  BY <1>1, <1>2, SMT DEF RegRead

\* What is reported is one device's, register by register, and the whole answer;
\* without a fault of the devices a command fails only for a hub that is not there, at
\* main's look at os, or over the first digits of the hub's bcdDevice (cli.main).
THEOREM ReportsAreOfOne == Spec => []ReportIsOfOne
<1>1. UsbInv => ReportIsOfOne
  <2> SUFFICES ASSUME UsbInv PROVE ReportIsOfOne
    OBVIOUS
  <2> USE DEF UsbInv
  <2>1. ask.mode # "spi" =>
           /\ out \in Seq(Nat \X Nat \X Nat) /\ DOMAIN out = 1 .. Len(out)
           /\ Len(out) = pos /\ pos <= Len(Registers)
           /\ \A i \in 1 .. pos : /\ out[i][1] = out[1][1] /\ out[i][2] = Registers[i]
                                  /\ out[i][3] = RegRead(Registers[i])
    BY DEF RegistersOfOne
  <2>2. \A i \in 1 .. Len(Registers) : Registers[i] \in Nat
    BY RequestFacts
  <2>3. ask.mode # "spi" =>
           \A i \in DOMAIN out : /\ out[i][1] = out[1][1] /\ out[i][2] = Registers[i]
                                 /\ out[i][2] < 65536 => out[i][3] = out[i][2]
    <3> SUFFICES ASSUME ask.mode # "spi", NEW i \in DOMAIN out
                 PROVE  /\ out[i][1] = out[1][1] /\ out[i][2] = Registers[i]
                        /\ out[i][2] < 65536 => out[i][3] = out[i][2]
      OBVIOUS
    <3>1. i \in 1 .. pos
      BY <2>1
    <3>2. i \in 1 .. Len(Registers)
      BY <2>1, <3>1, RequestFacts DEF TypeOK
    <3>3. Registers[i] \in Nat
      BY <2>2, <3>2
    <3>4. Registers[i] < 65536 => RegRead(Registers[i]) = Registers[i]
      BY <3>3, RegisterIsRead
    <3> QED
      BY <2>1, <3>1, <3>4
  <2>4. bcd # None /\ out # <<>> /\ plugs = 0 => bcd.serial = out[1][1]
    BY DEF Control, FoundFirst
  <2>5. status = "0" /\ ask.mode # "spi" => Len(out) = Len(Registers)
    BY DEF RegistersOfOne
  <2>6. status \notin {"none", "0"} /\ ~failed /\ plugs = 0 /\ shorts = 0 =>
           \/ status = "2" /\ \A p \in Port : ~IsHub(port[p])
           \/ status = "UnboundLocalError" /\ OsIsLocal
           \/ /\ status = "ValueError" /\ ask.mode = "identity"
              /\ \E p \in Port : IsHub(port[p]) /\ "bcd" \notin port[p].has
    BY DEF Faultless
  <2> QED
    BY <2>3, <2>4, <2>5, <2>6 DEF ReportIsOfOne
<1> QED
  BY <1>1, UsbInvariant, PTL
=============================================================================
