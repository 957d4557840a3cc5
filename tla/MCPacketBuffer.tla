--------------------------- MODULE MCPacketBuffer ---------------------------
(* A scaled-down PacketBuffer: the header is the two-byte length field. *)
EXTENDS PacketBuffer

(* Lengths below, at and above the header size, with unequal payloads. *)
MCPackets == { <<2, 0>>, <<3, 0, 6>>, <<4, 0, 2, 9>> }

MCJunk == [i \in Index |-> 1]

=============================================================================
