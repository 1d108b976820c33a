-------------------------- MODULE MCFirmwareImage --------------------------
(* Images put together of a header and up to four pieces: a device descriptor,  *)
(* strings, whole and broken off, erased and empty stretches, a jump, a length   *)
(* byte on its own.                                                              *)
EXTENDS FirmwareImage, SequencesExt

CONSTANT Pieces

Device == <<18, 1, 0, 2, 9, 0, 0, 64, 9, 33, 34, 8, 0, 0, 1, 2, 0, 1>>
Piece == {Device, <<4, 3, 97, 0>>, <<6, 3, 32, 0, 98, 0>>, <<6, 3, 97, 0>>, <<4>>, <<2, 0, 0>>,
          <<255, 255, 255, 255>>, <<0, 0, 0, 0>>}

\* Code at the first byte, behind the header, and behind the end.
Header == {<<5, 24, 0, 0, page, 0, 0, 0>> : page \in {0, 2}} \cup {[k \in 1 .. 8 |-> 255]}
MCBlobs ==
    {h \o FlattenSeq(p) : h \in Header, p \in BoundedSeq(Piece, Pieces)} \cup {<<5, 24, 0, 0, 2>>}
=============================================================================
