--------------------------- MODULE MCPacketLength ---------------------------
(* Values for the constants of PacketLength: bytes at the ends of the two  *)
(* halves of their range, lengths at the ends of those of 1 to 4 bytes.    *)
EXTENDS PacketLength

BoundaryBytes == {0, 1, 127, 128, 129, 255}

BoundaryLengths ==
  {0, 1, 127, 128, 255, 16383, 16384, 2097151, 2097152, 268435455}

=============================================================================
