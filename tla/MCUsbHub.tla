------------------------------ MODULE MCUsbHub ------------------------------
(* Requests of every mode: registers of 16 bits and one of more; flash reads    *)
(* that cross a 64K boundary, whose last transfer is shorter, of nothing, in    *)
(* chunks of nothing, of more than usbfs takes and of more than wLength holds.  *)
EXTENDS UsbHub

Ask(mode, regs, len, chunk) == [mode |-> mode, regs |-> regs, len |-> len, chunk |-> chunk]
MCRequests ==
    {Ask("regs", <<63628, 63628 + 65536>>, 0, 64), Ask("identity", <<>>, 0, 64)}
        \cup {Ask("spi", <<>>, r[1], r[2]) :
                r \in {<<70000, 4096>>, <<0, 64>>, <<100, 64>>, <<10, 0>>,
                       <<5000, 4999>>, <<131072, 65536>>, <<131100, 65600>>}}
=============================================================================
