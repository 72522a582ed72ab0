---------------------------- MODULE MCPacketStream ----------------------------
(***************************************************************************)
(* PacketStream on a small buffer: 8 bytes, with the header's own 4 bytes  *)
(* and the size field's 2; the peer's SendStream has 10.                   *)
(***************************************************************************)
EXTENDS PacketStream

\* A header alone, a packet with data, the longest packet; no size, less than a
\* header, less than was sent, more than ever comes, data the SendStream
\* refuses, too long.
SmallPackets ==
    {<<4, 0>>, <<6, 2>>, <<8, 4>>, <<0, 0>>, <<1, 0>>, <<3, 0>>, <<4, 2>>, <<7, 1>>, <<8, 7>>, <<10, 6>>}
===============================================================================
