---------------------------- MODULE PacketBuffer ----------------------------
(***************************************************************************)
(* The framing buffer of both ends of a connection (SBNet::PacketBuffer)   *)
(* with the loop that drives it: one completed receive is written into the *)
(* buffer, then packets are read until Read returns nullptr, then the next *)
(* receive is posted.  The server does this in IOCPServer::WorkerThread    *)
(* (through ClientInfo::OnRecv and ReadPacket), the client in              *)
(* Server::RecvThread.  The peer writes whole packets to the TCP stream;   *)
(* TCP delivers them in order and cut at arbitrary places.                 *)
(***************************************************************************)
EXTENDS Integers, Sequences

CONSTANTS
  BufferSize,   \* capacity given to Init: 1024 on the server, 20000 on the client
  HeaderSize,   \* sizeof(PACKET_HEADER)
  MaxRecv,      \* most bytes one receive delivers: MAX_SOCK_RECVBUF, or wsaBuf.len
  ByteValues,   \* number of values of a byte (256)
  Packets,      \* the packets the peer may send, as byte sequences
  MaxPackets,   \* bound on the number of packets the peer sends
  MaxReads,     \* bound on the number of packets read: a misread length of 0
                \* keeps the read loop of the code going for ever
  Junk          \* what new char[bufferSize] happens to contain

Byte  == 0 .. ByteValues - 1
Index == 0 .. BufferSize - 1

ASSUME SizeAssumption ==
  /\ BufferSize \in Nat \ {0}
  /\ HeaderSize \in Nat \ {0}
  /\ MaxRecv \in Nat \ {0}
  /\ ByteValues \in Nat \ {0}
  /\ MaxPackets \in Nat
  /\ MaxReads \in Nat

ASSUME ContentAssumption ==
  /\ Packets \subseteq Seq(Byte)
  /\ Junk \in [Index -> Byte]

VARIABLES
  buffer, readPos, writePos,   \* the members of PacketBuffer
  phase,      \* "recv": a receive is outstanding; "read": inside the read loop
  wire,       \* bytes the peer has written and no receive has delivered yet
  sent,       \* history: the packets written by the peer
  out,        \* history: the packets Read has returned
  accepted,   \* history: the bytes Write has stored
  consumed,   \* history: how many of them Read has passed
  dropped     \* history: some Write has returned without storing its bytes

members == <<buffer, readPos, writePos>>
history == <<sent, out, accepted, consumed, dropped>>
vars    == <<members, phase, wire, history>>

-----------------------------------------------------------------------------
(* PacketBuffer::NeedRelocate; the slip beside it never relocates. *)
NeverRelocate(size) == FALSE
NeedRelocate(size)  == BufferSize - writePos < size

(***************************************************************************)
(* PacketBuffer::RelocateBuffer moves the unread bytes to the front; the   *)
(* slip forgets the copy back from relocateBuffer.                         *)
(***************************************************************************)
RelocatedInPlace == buffer

Relocated ==
  [i \in Index |-> IF i < writePos - readPos THEN buffer[readPos + i] ELSE buffer[i]]

(* The capacity test of Write; the slip lets it use the last cell as well. *)
FitsLastCell(size, wp) == size + wp <= BufferSize
Fits(size, wp)         == size + wp <= BufferSize - 1

(***************************************************************************)
(* PacketBuffer::Write.  After the relocation, if any, the bytes that do   *)
(* not leave the last cell free are dropped without a word to the caller.  *)
(***************************************************************************)
Write(data) ==
  LET move == NeedRelocate(Len(data))
      buf  == IF move THEN Relocated ELSE buffer
      rp   == IF move THEN 0 ELSE readPos
      wp   == IF move THEN writePos - readPos ELSE writePos
  IN /\ readPos' = rp
     /\ \/ /\ ~Fits(Len(data), wp)
           /\ writePos' = wp
           /\ buffer' = buf
           /\ dropped' = TRUE
           /\ UNCHANGED accepted
        \/ /\ Fits(Len(data), wp)
           /\ writePos' = wp + Len(data)
           /\ buffer' = [i \in Index |->
                 IF i \in wp .. wp + Len(data) - 1 THEN data[i - wp + 1] ELSE buf[i]]
           /\ accepted' = accepted \o data
           /\ UNCHANGED dropped

(***************************************************************************)
(* uint16_t dataSize = buffer[readPos]: only the low byte of PacketLength  *)
(* is read, as a signed char, and sign-extended to 16 bits.  The slip      *)
(* takes the length for that of the payload.                               *)
(***************************************************************************)
PayloadSize == buffer[readPos] + HeaderSize

DataSize ==
  LET b == buffer[readPos]
  IN IF b < ByteValues \div 2 THEN b ELSE ByteValues * ByteValues - ByteValues + b

(* The two early returns of Read; the slip wants a byte more than it needs. *)
CanReadMore == writePos - readPos > HeaderSize /\ writePos - readPos > DataSize

CanRead == writePos - readPos >= HeaderSize /\ writePos - readPos >= DataSize

(* The bytes Read copies into the packet it returns. *)
PacketAtFront == [i \in 1 .. DataSize |-> buffer[readPos + i - 1]]

-----------------------------------------------------------------------------
Init ==
  /\ buffer = Junk
  /\ readPos = 0
  /\ writePos = 0
  /\ phase = "recv"
  /\ wire = <<>>
  /\ sent = <<>>
  /\ out = <<>>
  /\ accepted = <<>>
  /\ consumed = 0
  /\ dropped = FALSE

(* The peer hands one packet to its socket. *)
PeerSend(p) ==
  /\ Len(sent) < MaxPackets
  /\ sent' = Append(sent, p)
  /\ wire' = wire \o p
  /\ UNCHANGED <<members, phase, out, accepted, consumed, dropped>>

(* A receive completes with n bytes, which go to the buffer. *)
OnRecv(n) ==
  /\ phase = "recv"
  /\ n <= Len(wire)
  /\ wire' = SubSeq(wire, n + 1, Len(wire))
  /\ Write(SubSeq(wire, 1, n))
  /\ phase' = "read"
  /\ UNCHANGED <<sent, out, consumed>>

(* One turn of the read loop that finds a whole packet and hands it on. *)
ReadPacket ==
  /\ phase = "read"
  /\ CanRead
  /\ Len(out) < MaxReads
  /\ out' = Append(out, PacketAtFront)
  /\ readPos' = readPos + DataSize
  /\ consumed' = consumed + DataSize
  /\ UNCHANGED <<buffer, writePos, phase, wire, sent, accepted, dropped>>

(* The last turn: Read returns nullptr and the next receive is posted. *)
BindRecv ==
  /\ phase = "read"
  /\ ~CanRead
  /\ phase' = "recv"
  /\ UNCHANGED <<members, wire, history>>

Next ==
  \/ \E p \in Packets : PeerSend(p)
  \/ \E n \in 1 .. MaxRecv : OnRecv(n)
  \/ ReadPacket
  \/ BindRecv

(* The receiving thread runs whenever it can; the peer owes nothing. *)
Fairness ==
  /\ WF_vars(\E n \in 1 .. MaxRecv : OnRecv(n))
  /\ WF_vars(ReadPacket)
  /\ WF_vars(BindRecv)

Spec     == Init /\ [][Next]_vars
FairSpec == Spec /\ Fairness

-----------------------------------------------------------------------------
TypeOK ==
  /\ buffer \in [Index -> Byte]
  /\ readPos \in 0 .. BufferSize
  /\ writePos \in 0 .. BufferSize - 1
  /\ phase \in {"recv", "read"}
  /\ wire \in Seq(Byte)
  /\ accepted \in Seq(Byte)
  /\ consumed \in Nat
  /\ dropped \in BOOLEAN

(***************************************************************************)
(* Relocation and partial packets never corrupt the stream: the cells      *)
(* between readPos and writePos hold exactly the accepted bytes that Read  *)
(* has not passed, in order, so Read never sees a stale or uninitialised   *)
(* cell (RelocateBuffer, Write, Read).                                     *)
(***************************************************************************)
WindowIsStream ==
  /\ readPos <= writePos
  /\ Len(accepted) = consumed + (writePos - readPos)
  /\ \A i \in 0 .. writePos - readPos - 1 :
        buffer[readPos + i] = accepted[consumed + i + 1]

(***************************************************************************)
(* Until a Write drops bytes, the packets handed to OnReceive (server) or  *)
(* to recvPackets and notifyPackets (client) are the packets the peer      *)
(* sent, in order, whatever way TCP cut the stream.                        *)
(***************************************************************************)
FramingExact ==
  ~dropped => /\ Len(out) <= Len(sent)
              /\ \A i \in 1 .. Len(out) : out[i] = sent[i]

(***************************************************************************)
(* With room for an unfinished packet and a full receive, the only bytes   *)
(* Write drops are the ones that would fill the buffer exactly: there      *)
(* NeedRelocate says no and the capacity test says no as well.             *)
(***************************************************************************)
DropOnlyAtExactFill ==
  [][ dropped' /\ ~dropped
        => writePos + (Len(wire) - Len(wire')) = BufferSize ]_vars

(***************************************************************************)
(* Whatever the peer sent is eventually handed on, unless bytes were       *)
(* dropped: the read loop neither stops on a whole packet nor spins.       *)
(***************************************************************************)
AllDelivered == <>[](dropped \/ (Len(out) = Len(sent) /\ wire = <<>>))

(***************************************************************************)
(* Server::HandlerThread asserts that every packet it gets has a handler   *)
(* and BaseHandler::Response that its size is the size of its type: every  *)
(* packet that Read returns is a packet of the protocol.                   *)
(***************************************************************************)
EveryPacketHasHandler == \A i \in 1 .. Len(out) : out[i] \in Packets

(***************************************************************************)
(* The buffer as a stream of packets, which a dropped receive breaks.      *)
(***************************************************************************)
AsStream == INSTANCE PacketStream WITH broken <- dropped

=============================================================================
