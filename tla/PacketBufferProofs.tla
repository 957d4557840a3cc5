------------------------- MODULE PacketBufferProofs -------------------------
(***************************************************************************)
(* TypeOK and WindowIsStream hold for every buffer size, every receive     *)
(* size and every set of packets.  Their conjunction is inductive: the     *)
(* window needs the bounds on the positions, and the bounds of readPos     *)
(* need readPos <= writePos, which is part of the window.  That Read hands *)
(* on the packets sent rests on them and on the ends of the packets in the *)
(* stream, which exist although no variable of the model holds them.       *)
(***************************************************************************)
EXTENDS PacketBuffer, TLAPS

IInv == TypeOK /\ WindowIsStream

(* A length read from the buffer is never negative. *)
LEMMA DataSizeNat ==
  ASSUME IInv, readPos < writePos
  PROVE  DataSize \in Nat
<1>1. buffer[readPos] \in Byte
  BY SizeAssumption DEF IInv, TypeOK, WindowIsStream, Index
<1>2. ByteValues * ByteValues >= ByteValues
  <2> DEFINE b == ByteValues
  <2>1. b \in Nat /\ b >= 1 /\ b * b = b * (b - 1) + b
    BY SizeAssumption
  <2>2. b * (b - 1) >= 0
    BY <2>1
  <2> QED
    BY <2>1, <2>2
<1>3. ByteValues * ByteValues \in Nat
  BY SizeAssumption
<1> HIDE DEF IInv
<1> QED
  BY <1>1, <1>2, <1>3, SizeAssumption DEF DataSize, Byte

(* The empty buffer of PacketBuffer::Init satisfies the invariant. *)
LEMMA InitIInv == Init => IInv
<1> SUFFICES ASSUME Init PROVE IInv
  OBVIOUS
<1>1. TypeOK
  <2>1. /\ buffer \in [Index -> Byte] /\ dropped \in BOOLEAN
        /\ phase \in {"recv", "read"}
    BY ContentAssumption, Zenon DEF Init
  <2>2. /\ readPos \in 0 .. BufferSize /\ writePos \in 0 .. BufferSize - 1
        /\ consumed \in Nat
    BY SizeAssumption DEF Init
  <2>3. wire \in Seq(Byte) /\ accepted \in Seq(Byte)
    BY DEF Init
  <2> QED
    BY <2>1, <2>2, <2>3 DEF TypeOK
<1>2. WindowIsStream
  BY DEF Init, WindowIsStream
<1> QED
  BY <1>1, <1>2 DEF IInv

(* What appending the bytes of one receive does to the accepted stream. *)
LEMMA ConcatFacts ==
  ASSUME NEW s \in Seq(Byte), NEW t \in Seq(Byte)
  PROVE  /\ s \o t \in Seq(Byte)
         /\ Len(s \o t) = Len(s) + Len(t)
         /\ \A k \in 1 .. Len(s) : (s \o t)[k] = s[k]
         /\ \A k \in 1 .. Len(t) : (s \o t)[Len(s) + k] = t[k]
<1>1. s \o t \in Seq(Byte) /\ Len(s \o t) = Len(s) + Len(t)
  OBVIOUS
<1>2. \A k \in 1 .. Len(s) : (s \o t)[k] = s[k]
  OBVIOUS
<1>3. \A k \in 1 .. Len(t) : (s \o t)[Len(s) + k] = t[k]
  OBVIOUS
<1> QED
  BY <1>1, <1>2, <1>3

(* PacketBuffer::Write, with or without relocation, keeps the invariant. *)
LEMMA WritePreserves ==
  ASSUME IInv, NEW data \in Seq(Byte), Write(data),
         phase' \in {"recv", "read"}, wire' \in Seq(Byte), consumed' = consumed
  PROVE  IInv'
<1> DEFINE move == NeedRelocate(Len(data))
           buf  == IF move THEN Relocated ELSE buffer
           rp   == IF move THEN 0 ELSE readPos
           wp   == IF move THEN writePos - readPos ELSE writePos
           unread == writePos - readPos
<1>1. /\ readPos \in Nat /\ writePos \in Nat /\ readPos <= writePos
      /\ writePos <= BufferSize - 1 /\ BufferSize \in Nat
      /\ buffer \in [Index -> Byte]
      /\ Len(data) \in Nat /\ consumed \in Nat /\ accepted \in Seq(Byte)
      /\ Len(accepted) = consumed + unread
  BY SizeAssumption DEF IInv, TypeOK, WindowIsStream
<1>2. /\ rp \in Nat /\ wp \in Nat /\ unread \in Nat /\ wp = rp + unread
      /\ wp <= BufferSize - 1
  BY <1>1
<1>3. buf \in [Index -> Byte]
  BY <1>1 DEF Relocated, Index
<1>4. \A i \in 0 .. unread - 1 : buf[rp + i] = accepted[consumed + i + 1]
  <2>1. CASE move
    BY <1>1, <2>1 DEF Relocated, Index, IInv, WindowIsStream
  <2>2. CASE ~move
    BY <1>1, <2>2 DEF IInv, WindowIsStream
  <2> QED
    BY <2>1, <2>2
<1>5. CASE ~Fits(Len(data), wp)
  <2>1. /\ readPos' = rp /\ writePos' = wp /\ buffer' = buf
        /\ dropped' = TRUE /\ accepted' = accepted
    BY <1>5 DEF Write
  <2> HIDE DEF buf, rp, wp
  <2>2. TypeOK'
    BY <1>1, <1>2, <1>3, <2>1 DEF TypeOK
  <2>3. WindowIsStream'
    BY <1>1, <1>2, <1>4, <2>1 DEF WindowIsStream
  <2> QED
    BY <2>2, <2>3 DEF IInv
<1>6. CASE Fits(Len(data), wp)
  <2> DEFINE n == Len(data)
             m == Len(accepted)
  <2>1. /\ readPos' = rp /\ writePos' = wp + n
        /\ buffer' = [i \in Index |->
             IF i \in wp .. wp + n - 1 THEN data[i - wp + 1] ELSE buf[i]]
        /\ accepted' = accepted \o data /\ dropped' = dropped
    BY <1>6 DEF Write
  <2>2. /\ rp \in Nat /\ wp \in Nat /\ n \in Nat /\ unread \in Nat /\ consumed \in Nat
        /\ BufferSize \in Nat /\ wp = rp + unread /\ n + wp <= BufferSize - 1
        /\ m = consumed + unread
    BY <1>1, <1>2, <1>6 DEF Fits
  <2>3. /\ accepted' \in Seq(Byte) /\ Len(accepted') = m + n
        /\ \A k \in 1 .. m : accepted'[k] = accepted[k]
        /\ \A k \in 1 .. n : accepted'[m + k] = data[k]
    BY <1>1, <2>1, ConcatFacts
  <2>4. \A k \in 1 .. n : data[k] \in Byte
    OBVIOUS
  <2> HIDE DEF buf, rp, wp, n, m, unread
  <2>5. buffer' \in [Index -> Byte]
    <3>1. \A i \in wp .. wp + n - 1 : i - wp + 1 \in 1 .. n
      BY <2>2
    <3>2. \A i \in wp .. wp + n - 1 : data[i - wp + 1] \in Byte
      BY <2>4, <3>1
    <3> QED
      BY <1>3, <2>1, <3>2
  <2>6. TypeOK'
    <3>1. readPos' \in 0 .. BufferSize /\ writePos' \in 0 .. BufferSize - 1
      BY <2>1, <2>2
    <3>2. dropped' \in BOOLEAN /\ consumed' \in Nat
      BY <2>1, <2>2, Zenon DEF IInv, TypeOK
    <3> QED
      BY <2>3, <2>5, <3>1, <3>2 DEF TypeOK
  <2>7. writePos' - readPos' = unread + n
    BY <2>1, <2>2
  <2>8. ASSUME NEW i \in 0 .. unread + n - 1
        PROVE  buffer'[rp + i] = accepted'[consumed + i + 1]
    <3>1. rp + i \in Index
      BY <2>2 DEF Index
    <3>2. CASE i < unread
      <4>1. rp + i < wp /\ i \in 0 .. unread - 1 /\ consumed + i + 1 \in 1 .. m
        BY <2>2, <3>2
      <4>2. ~(rp + i \in wp .. wp + n - 1)
        BY <2>2, <4>1
      <4>3. buffer'[rp + i] = buf[rp + i]
        BY <2>1, <3>1, <4>2
      <4> QED
        BY <1>4, <2>3, <4>1, <4>3
    <3>3. CASE i >= unread
      <4>1. /\ rp + i \in wp .. wp + n - 1 /\ (rp + i) - wp + 1 = i - unread + 1
            /\ i - unread + 1 \in 1 .. n /\ m + (i - unread + 1) = consumed + i + 1
        BY <2>2, <3>3
      <4>2. buffer'[rp + i] = data[i - unread + 1]
        BY <2>1, <3>1, <4>1
      <4>3. accepted'[m + (i - unread + 1)] = data[i - unread + 1]
        BY <2>3, <4>1
      <4> QED
        BY <4>1, <4>2, <4>3
    <3> QED
      BY <2>2, <3>2, <3>3
  <2>9. readPos' <= writePos' /\ Len(accepted') = consumed' + (writePos' - readPos')
    <3>1. rp <= wp + n /\ m + n = consumed + (unread + n)
      BY <2>2
    <3> QED
      BY <2>1, <2>3, <2>7, <3>1
  <2>10. WindowIsStream'
    <3>1. ASSUME NEW i \in 0 .. writePos' - readPos' - 1
          PROVE  buffer'[readPos' + i] = accepted'[consumed' + i + 1]
      <4>1. i \in 0 .. unread + n - 1
        BY <2>1, <2>2, <3>1
      <4>2. buffer'[rp + i] = accepted'[consumed + i + 1]
        BY <2>8, <4>1
      <4> QED
        BY <2>1, <4>2
    <3> QED
      BY <2>9, <3>1, Zenon DEF WindowIsStream
  <2> QED
    BY <2>6, <2>10 DEF IInv
<1> QED
  BY <1>5, <1>6

(* Every step of the peer and of the receiving thread keeps the invariant. *)
LEMMA NextIInv == IInv /\ [Next]_vars => IInv'
<1> SUFFICES ASSUME IInv, [Next]_vars PROVE IInv'
  OBVIOUS
<1>1. ASSUME NEW p \in Packets, PeerSend(p) PROVE IInv'
  BY <1>1, ContentAssumption
  DEF PeerSend, members, IInv, TypeOK, WindowIsStream
<1>2. ASSUME NEW n \in 1 .. MaxRecv, OnRecv(n) PROVE IInv'
  <2>1. wire \in Seq(Byte) /\ n \in Nat /\ n <= Len(wire) /\ n >= 1
    BY <1>2, SizeAssumption DEF OnRecv, IInv, TypeOK
  <2>2. SubSeq(wire, 1, n) \in Seq(Byte) /\ SubSeq(wire, n + 1, Len(wire)) \in Seq(Byte)
    BY <2>1
  <2> QED
    BY <1>2, <2>2, WritePreserves DEF OnRecv
<1>3. CASE ReadPacket
  <2>1. /\ readPos < writePos /\ readPos \in Nat /\ writePos \in Nat
        /\ consumed \in Nat /\ writePos <= BufferSize - 1 /\ BufferSize \in Nat
    BY <1>3, SizeAssumption DEF ReadPacket, CanRead, IInv, TypeOK, WindowIsStream
  <2>2. DataSize \in Nat /\ DataSize <= writePos - readPos
    BY <1>3, <2>1, DataSizeNat DEF ReadPacket, CanRead
  <2>3. /\ readPos' = readPos + DataSize /\ consumed' = consumed + DataSize
        /\ UNCHANGED <<buffer, writePos, phase, wire, sent, accepted, dropped>>
    BY <1>3 DEF ReadPacket
  <2>4. TypeOK'
    BY <2>1, <2>2, <2>3 DEF IInv, TypeOK
  <2>5. ASSUME NEW i \in 0 .. writePos' - readPos' - 1
        PROVE  buffer'[readPos' + i] = accepted'[consumed' + i + 1]
    <3> DEFINE j == DataSize + i
    <3>1. /\ j \in 0 .. writePos - readPos - 1 /\ readPos' + i = readPos + j
          /\ consumed' + i + 1 = consumed + j + 1
      BY <2>1, <2>2, <2>3
    <3> QED
      BY <2>3, <3>1 DEF IInv, WindowIsStream
  <2>6. WindowIsStream'
    BY <2>1, <2>2, <2>3, <2>5 DEF IInv, WindowIsStream
  <2> QED
    BY <2>4, <2>6 DEF IInv
<1>4. CASE BindRecv
  BY <1>4 DEF BindRecv, members, history, IInv, TypeOK, WindowIsStream
<1>5. CASE UNCHANGED vars
  BY <1>5 DEF vars, members, history, IInv, TypeOK, WindowIsStream
<1> QED
  BY <1>1, <1>2, <1>3, <1>4, <1>5 DEF Next

(***************************************************************************)
(* The buffer never holds a position outside its storage (TypeOK): the     *)
(* copies of Write, Read and RelocateBuffer stay inside the array.         *)
(***************************************************************************)
THEOREM TypeCorrect == Spec => []TypeOK
<1>1. IInv => TypeOK
  BY DEF IInv
<1> QED
  BY <1>1, InitIInv, NextIInv, PTL DEF Spec

(***************************************************************************)
(* The unread window is the unread part of the accepted stream             *)
(* (WindowIsStream), for every cut of the stream, every capacity and every *)
(* packet, well-formed or not: RelocateBuffer loses and repeats nothing.   *)
(***************************************************************************)
THEOREM WindowCorrect == Spec => []WindowIsStream
<1>1. IInv => WindowIsStream
  BY DEF IInv
<1> QED
  BY <1>1, InitIInv, NextIInv, PTL DEF Spec

-----------------------------------------------------------------------------
(***************************************************************************)
(* The packets both ends send: the first byte of the header is the length  *)
(* of the whole packet.  It has to be below ByteValues \div 2, where a     *)
(* signed char still is what was written: the longest packet of the        *)
(* protocol, RES_ROOM_LIST, has 118 bytes.                                 *)
(***************************************************************************)
ShortPackets ==
  \A p \in Packets :
    /\ Len(p) >= HeaderSize
    /\ Len(p) < ByteValues \div 2
    /\ p[1] = Len(p)

(* The j-th byte of the stream, whether Write has stored it or not. *)
Stream(j) == IF j <= Len(accepted) THEN accepted[j] ELSE wire[j - Len(accepted)]

(* The packets sent end at the places e of the stream and fill it, and the *)
(* packets read are the first ones of them.                                *)
FramedAt(e) ==
  /\ sent \in Seq(Packets) /\ out \in Seq(Packets)
  /\ e \in [0 .. Len(sent) -> Nat]
  /\ e[0] = 0
  /\ \A i \in 1 .. Len(sent) : e[i] = e[i - 1] + Len(sent[i])
  /\ \A i \in 0 .. Len(sent) : e[i] <= e[Len(sent)]
  /\ Len(accepted) + Len(wire) = e[Len(sent)]
  /\ \A i \in 1 .. Len(sent) : \A k \in 1 .. Len(sent[i]) :
       Stream(e[i - 1] + k) = sent[i][k]
  /\ Len(out) <= Len(sent)
  /\ consumed = e[Len(out)]
  /\ \A i \in 1 .. Len(out) : out[i] = sent[i]

Framed == ~dropped => \E e : FramedAt(e)

(* A receive is posted only when no whole packet is left in the buffer. *)
Drained == phase = "recv" => ~CanRead

FInv == IInv /\ Framed /\ Drained

(* A packet is a nonempty sequence of bytes. *)
LEMMA PacketBytes ==
  ASSUME ShortPackets, NEW p \in Packets
  PROVE  /\ p \in Seq(Byte) /\ Len(p) \in Nat /\ Len(p) >= 1 /\ Len(p) >= HeaderSize
         /\ p[1] = Len(p) /\ Len(p) < ByteValues \div 2
<1>1. p \in Seq(Byte)
  BY ContentAssumption
<1>2. Len(p) >= HeaderSize /\ Len(p) < ByteValues \div 2 /\ p[1] = Len(p)
  BY DEF ShortPackets
<1> QED
  BY <1>1, <1>2, SizeAssumption

(* The ends of the packets increase. *)
LEMMA NextPacket ==
  ASSUME ShortPackets, IInv, ~dropped, NEW e, FramedAt(e), readPos < writePos
  PROVE  /\ Len(out) < Len(sent)
         /\ Len(out) + 1 \in 1 .. Len(sent)
         /\ sent[Len(out) + 1] \in Packets
         /\ buffer[readPos] = Len(sent[Len(out) + 1])
         /\ DataSize = Len(sent[Len(out) + 1])
<1> DEFINE n == Len(out) + 1
           a == Len(accepted)
<1>1. /\ readPos \in Nat /\ writePos \in Nat /\ consumed \in Nat /\ a \in Nat
      /\ a = consumed + (writePos - readPos)
      /\ buffer[readPos] = accepted[consumed + 1]
  <2>1. /\ readPos \in Nat /\ writePos \in Nat /\ consumed \in Nat /\ a \in Nat
        /\ a = consumed + (writePos - readPos)
    BY SizeAssumption DEF IInv, TypeOK, WindowIsStream
  <2>2. 0 \in 0 .. writePos - readPos - 1
    BY <2>1
  <2>3. buffer[readPos + 0] = accepted[consumed + 0 + 1]
    BY <2>2 DEF IInv, WindowIsStream
  <2> QED
    BY <2>1, <2>3
<1>2. /\ sent \in Seq(Packets) /\ out \in Seq(Packets) /\ Len(sent) \in Nat
      /\ Len(out) \in Nat /\ Len(out) <= Len(sent) /\ Len(wire) \in Nat
      /\ a + Len(wire) = e[Len(sent)] /\ consumed = e[Len(out)]
  BY DEF FramedAt, IInv, TypeOK
<1>3. Len(out) # Len(sent)
  <2>1. SUFFICES ASSUME Len(out) = Len(sent) PROVE FALSE
    OBVIOUS
  <2> HIDE DEF a
  <2> QED
    BY <1>1, <1>2, <2>1
<1>4. n \in 1 .. Len(sent) /\ Len(out) < Len(sent) /\ n - 1 = Len(out)
  BY <1>2, <1>3
<1>5. sent[n] \in Packets
  BY <1>2, <1>4
<1>6. /\ Len(sent[n]) \in Nat /\ Len(sent[n]) >= 1 /\ sent[n][1] = Len(sent[n])
      /\ Len(sent[n]) < ByteValues \div 2
  BY <1>5, PacketBytes
<1>7. Stream(e[n - 1] + 1) = sent[n][1]
  <2>1. 1 \in 1 .. Len(sent[n])
    BY <1>6
  <2> QED
    BY <1>4, <2>1 DEF FramedAt
<1>8. e[n - 1] = consumed
  BY <1>2, <1>4
<1>9. Stream(consumed + 1) = accepted[consumed + 1]
  BY <1>1 DEF Stream
<1>10. buffer[readPos] = Len(sent[n])
  BY <1>1, <1>6, <1>7, <1>8, <1>9
<1> QED
  BY <1>4, <1>5, <1>6, <1>10 DEF DataSize

(* A byte of a packet that ends inside the stream lies in the stream. *)
LEMMA PlaceInside ==
  ASSUME NEW x \in Nat, NEW y \in Nat, NEW l \in Nat, NEW k \in 1 .. l,
         NEW a \in Nat, NEW w \in Nat, y = x + l, y <= a + w
  PROVE  x + k \in 1 .. a + w
OBVIOUS

(* PeerSend puts one more packet at the end of the stream. *)
LEMMA SendFramed ==
  ASSUME ShortPackets, FInv, NEW p \in Packets, PeerSend(p)
  PROVE  Framed' /\ Drained'
<1>1. Drained'
  BY DEF FInv, Drained, PeerSend, members, CanRead, DataSize
<1>2. ASSUME ~dropped' PROVE \E e : FramedAt(e)'
  <2>1. /\ sent' = Append(sent, p) /\ wire' = wire \o p /\ ~dropped
        /\ UNCHANGED <<out, accepted, consumed>>
    BY <1>2 DEF PeerSend, members
  <2>2. PICK e : FramedAt(e)
    BY <2>1 DEF FInv, Framed
  <2> DEFINE N == Len(sent)
             a == Len(accepted)
             w == Len(wire)
             l == Len(p)
             ends == [i \in 0 .. N + 1 |-> IF i <= N THEN e[i] ELSE e[N] + l]
  <2> PICK f : f = ends
    OBVIOUS
  <2>3. /\ sent \in Seq(Packets) /\ N \in Nat /\ a \in Nat /\ w \in Nat
        /\ e \in [0 .. N -> Nat] /\ a + w = e[N]
        /\ accepted \in Seq(Byte) /\ wire \in Seq(Byte)
    BY <2>2 DEF FramedAt, FInv, IInv, TypeOK
  <2>4. p \in Seq(Byte) /\ l \in Nat /\ l >= 1
    BY PacketBytes
  <2>5. /\ sent' \in Seq(Packets) /\ Len(sent') = N + 1
        /\ \A i \in 1 .. N : sent'[i] = sent[i]
        /\ sent'[N + 1] = p
    BY <2>1, <2>3
  <2>6. /\ Len(wire') = w + l
        /\ \A k \in 1 .. w : wire'[k] = wire[k]
        /\ \A k \in 1 .. l : wire'[w + k] = p[k]
    BY <2>1, <2>3, <2>4, ConcatFacts
  <2>7. e[N] \in Nat
    BY <2>3
  <2> HIDE DEF N, a, w, l
  <2>8. f \in [0 .. N + 1 -> Nat]
    BY <2>3, <2>4, <2>7
  <2>9. \A i \in 0 .. N : f[i] = e[i]
    BY <2>3
  <2>10. f[N + 1] = e[N] + l
    BY <2>3
  <2>11. f[0] = 0
    BY <2>2, <2>3, <2>9 DEF FramedAt
  <2> HIDE DEF ends
  <2>12. ASSUME NEW i \in 1 .. N + 1 PROVE f[i] = f[i - 1] + Len(sent'[i])
    <3>1. CASE i = N + 1
      <4>1. i - 1 = N /\ N \in 0 .. N
        BY <2>3, <3>1
      <4> QED
        BY <2>5, <2>9, <2>10, <3>1, <4>1 DEF l
    <3>2. CASE i # N + 1
      <4>1. i \in 1 .. N /\ i \in 0 .. N /\ i - 1 \in 0 .. N
        BY <2>3, <3>2
      <4> QED
        BY <2>2, <2>5, <2>9, <4>1 DEF FramedAt, N
    <3> QED
      BY <3>1, <3>2
  <2>13. \A i \in 0 .. N + 1 : f[i] <= f[N + 1]
    <3>1. ASSUME NEW i \in 0 .. N PROVE f[i] <= f[N + 1]
      <4>1. f[i] = e[i] /\ e[i] <= e[N] /\ e[i] \in Nat
        BY <2>2, <2>3, <2>9 DEF FramedAt, N
      <4> QED
        BY <2>4, <2>7, <2>10, <4>1
    <3>2. f[N + 1] <= f[N + 1]
      BY <2>4, <2>7, <2>10
    <3> QED
      BY <2>3, <3>1, <3>2
  <2>14. ASSUME NEW i \in 1 .. N + 1, NEW k \in 1 .. Len(sent'[i])
         PROVE  Stream(f[i - 1] + k)' = sent'[i][k]
    <3>1. CASE i = N + 1
      <4>1. i - 1 = N /\ N \in 0 .. N /\ k \in 1 .. l
        BY <2>3, <2>5, <3>1 DEF l
      <4>2. f[i - 1] + k = a + w + k
        BY <2>3, <2>9, <4>1
      <4>3. ~(a + w + k <= a) /\ (a + w + k) - a = w + k
        BY <2>3, <2>4, <4>1
      <4>4. Stream(f[i - 1] + k)' = wire'[w + k]
        BY <2>1, <4>2, <4>3 DEF Stream, a
      <4> QED
        BY <2>5, <2>6, <3>1, <4>1, <4>4
    <3>2. CASE i # N + 1
      <4>0. i \in 1 .. N /\ i \in 0 .. N /\ i - 1 \in 0 .. N
        BY <2>3, <3>2
      <4>1. i \in 1 .. N /\ i \in 0 .. N /\ i - 1 \in 0 .. N /\ sent'[i] = sent[i]
        BY <2>5, <4>0
      <4>2. /\ e[i] = e[i - 1] + Len(sent[i]) /\ e[i] <= e[N]
            /\ Stream(e[i - 1] + k) = sent[i][k]
        BY <2>2, <4>1 DEF FramedAt, N
      <4>3. e[i] \in Nat /\ e[i - 1] \in Nat /\ Len(sent[i]) \in Nat /\ k \in 1 .. Len(sent[i])
        <5>1. sent[i] \in Packets
          BY <2>3, <4>1 DEF N
        <5> QED
          BY <2>3, <4>1, <5>1, PacketBytes
      <4> DEFINE j == e[i - 1] + k
      <4>4. j \in 1 .. a + w
        <5>1. e[i] <= a + w
          BY <2>3, <4>2
        <5> QED
          BY <2>3, <4>2, <4>3, <5>1, PlaceInside
      <4> HIDE DEF j
      <4>5. Stream(j)' = Stream(j)
        <5>1. CASE j <= a
          BY <2>1, <5>1 DEF Stream, a
        <5>2. CASE ~(j <= a)
          <6>1. j - a \in 1 .. w
            BY <2>3, <4>4, <5>2
          <6> QED
            BY <2>1, <2>6, <5>2, <6>1 DEF Stream, a
        <5> QED
          BY <5>1, <5>2
      <4> QED
        BY <2>9, <4>1, <4>2, <4>5 DEF j
    <3> QED
      BY <3>1, <3>2
  <2>15. a + Len(wire') = f[N + 1]
    BY <2>3, <2>4, <2>6, <2>10
  <2>16. /\ out' \in Seq(Packets) /\ Len(out') <= N + 1 /\ consumed' = f[Len(out')]
         /\ \A i \in 1 .. Len(out') : out'[i] = sent'[i]
    <3>1. /\ out \in Seq(Packets) /\ Len(out) \in Nat /\ Len(out) <= N /\ consumed = e[Len(out)]
          /\ \A i \in 1 .. Len(out) : out[i] = sent[i]
      BY <2>2 DEF FramedAt, N
    <3>2. Len(out) \in 0 .. N /\ Len(out) <= N + 1
      BY <2>3, <3>1
    <3>3. \A i \in 1 .. Len(out) : i \in 1 .. N
      BY <2>3, <3>1
    <3> QED
      BY <2>1, <2>5, <2>9, <3>1, <3>2, <3>3
  <2>17. FramedAt(f)'
    BY <2>1, <2>5, <2>8, <2>11, <2>12, <2>13, <2>14, <2>15, <2>16 DEF FramedAt, a
  <2> QED
    BY <2>17
<1> QED
  BY <1>1, <1>2 DEF Framed

(* A receive moves bytes from the wire to the buffer and the stream stays. *)
LEMMA RecvFramed ==
  ASSUME ShortPackets, FInv, NEW n \in 1 .. MaxRecv, OnRecv(n)
  PROVE  Framed' /\ Drained'
<1>1. Drained'
  BY DEF OnRecv, Drained
<1>2. ASSUME ~dropped' PROVE \E e : FramedAt(e)'
  <2> DEFINE a == Len(accepted)
             w == Len(wire)
  <2>1. /\ ~dropped /\ accepted' = accepted \o SubSeq(wire, 1, n)
        /\ wire' = SubSeq(wire, n + 1, w)
        /\ UNCHANGED <<sent, out, consumed>> /\ n <= w
    BY <1>2 DEF OnRecv, Write
  <2>2. PICK e : FramedAt(e)
    BY <2>1 DEF FInv, Framed
  <2>3. /\ accepted \in Seq(Byte) /\ wire \in Seq(Byte) /\ a \in Nat /\ w \in Nat
        /\ n \in Nat /\ n >= 1
    BY SizeAssumption DEF FInv, IInv, TypeOK
  <2>4. /\ SubSeq(wire, 1, n) \in Seq(Byte) /\ Len(SubSeq(wire, 1, n)) = n
        /\ \A k \in 1 .. n : SubSeq(wire, 1, n)[k] = wire[k]
    BY <2>1, <2>3
  <2>5. /\ Len(accepted') = a + n
        /\ \A k \in 1 .. a : accepted'[k] = accepted[k]
        /\ \A k \in 1 .. n : accepted'[a + k] = wire[k]
    BY <2>1, <2>3, <2>4, ConcatFacts
  <2>6. /\ Len(wire') = w - n
        /\ \A k \in 1 .. w - n : wire'[k] = wire[n + k]
    BY <2>1, <2>3
  <2>7. ASSUME NEW j \in 1 .. a + w PROVE Stream(j)' = Stream(j)
    <3> HIDE DEF a, w
    <3>1. CASE j <= a
      <4>1. j \in 1 .. a /\ j <= a + n
        BY <2>3, <3>1
      <4> QED
        BY <2>5, <3>1, <4>1 DEF Stream, a
    <3>2. CASE ~(j <= a) /\ j <= a + n
      <4>1. j - a \in 1 .. n /\ a + (j - a) = j
        BY <2>3, <3>2
      <4>2. accepted'[j] = wire[j - a]
        BY <2>5, <4>1
      <4> QED
        BY <2>5, <3>2, <4>2 DEF Stream, a
    <3>3. CASE ~(j <= a) /\ ~(j <= a + n)
      <4>1. j - (a + n) \in 1 .. w - n /\ n + (j - (a + n)) = j - a
        BY <2>1, <2>3, <3>3
      <4>2. wire'[j - (a + n)] = wire[j - a]
        BY <2>6, <4>1
      <4> QED
        BY <2>5, <3>3, <4>2 DEF Stream, a
    <3> QED
      BY <3>1, <3>2, <3>3
  <2>8. ASSUME NEW i \in 1 .. Len(sent), NEW k \in 1 .. Len(sent[i])
        PROVE  Stream(e[i - 1] + k)' = sent[i][k]
    <3> DEFINE N == Len(sent)
    <3>1. /\ sent \in Seq(Packets) /\ N \in Nat /\ e \in [0 .. N -> Nat]
          /\ a + w = e[N] /\ e[i] = e[i - 1] + Len(sent[i])
      BY <2>2 DEF FramedAt
    <3>7. Stream(e[i - 1] + k) = sent[i][k]
      BY <2>2 DEF FramedAt
    <3>2. i \in 0 .. N /\ i - 1 \in 0 .. N /\ N \in 0 .. N
      BY <3>1
    <3>3. e[i] <= e[N]
      BY <2>2, <3>2 DEF FramedAt
    <3>4. sent[i] \in Packets
      BY <3>1
    <3>5. Len(sent[i]) \in Nat /\ e[i] \in Nat /\ e[i - 1] \in Nat
      BY <3>1, <3>2, <3>4, PacketBytes
    <3>6. e[i - 1] + k \in 1 .. a + w
      <4>1. /\ e[i - 1] \in Nat /\ e[i] \in Nat /\ e[i] = e[i - 1] + Len(sent[i])
            /\ Len(sent[i]) \in Nat /\ e[i] <= a + w
        BY <3>1, <3>3, <3>5
      <4> HIDE DEF a, w, N
      <4> QED
        BY <2>3, <4>1, PlaceInside
    <3> QED
      BY <2>7, <3>6, <3>7
  <2>9. Len(accepted') + Len(wire') = a + w
    <3>1. Len(accepted') = a + n /\ Len(wire') = w - n
      BY <2>5, <2>6
    <3> HIDE DEF a, w
    <3>2. (a + n) + (w - n) = a + w
      BY <2>3
    <3> QED
      BY <3>1, <3>2
  <2>10. FramedAt(e)'
    <3> HIDE DEF a, w
    <3>1. Len(accepted') + Len(wire') = e[Len(sent)]
      BY <2>2, <2>9 DEF FramedAt, a, w
    <3> QED
      BY <2>1, <2>2, <2>8, <3>1 DEF FramedAt
  <2> QED
    BY <2>10
<1> QED
  BY <1>1, <1>2 DEF Framed

(* Read returns the first packet of the stream that it has not passed. *)
LEMMA ReadFramed ==
  ASSUME ShortPackets, FInv, ReadPacket
  PROVE  Framed' /\ Drained'
<1>1. Drained'
  BY DEF ReadPacket, Drained
<1>2. ASSUME ~dropped' PROVE \E e : FramedAt(e)'
  <2> DEFINE n == Len(out) + 1
             p == sent[n]
  <2>1. /\ ~dropped /\ out' = Append(out, PacketAtFront)
        /\ consumed' = consumed + DataSize /\ CanRead
        /\ UNCHANGED <<wire, sent, accepted>>
    BY <1>2 DEF ReadPacket
  <2>2. PICK e : FramedAt(e)
    BY <2>1 DEF FInv, Framed
  <2>3. /\ readPos \in Nat /\ writePos \in Nat /\ consumed \in Nat /\ Len(accepted) \in Nat
        /\ Len(accepted) = consumed + (writePos - readPos)
        /\ readPos < writePos /\ writePos - readPos >= DataSize
    BY <2>1, SizeAssumption DEF FInv, IInv, TypeOK, WindowIsStream, CanRead
  <2>4. Len(out) < Len(sent) /\ n \in 1 .. Len(sent) /\ p \in Packets /\ DataSize = Len(p)
    BY <2>1, <2>2, <2>3, NextPacket DEF FInv
  <2>5. p \in Seq(Byte) /\ Len(p) \in Nat
    BY <2>4, PacketBytes
  <2>6. /\ sent \in Seq(Packets) /\ out \in Seq(Packets) /\ Len(out) \in Nat /\ Len(sent) \in Nat
        /\ e \in [0 .. Len(sent) -> Nat] /\ consumed = e[Len(out)]
    BY <2>2 DEF FramedAt
  <2>7. n - 1 = Len(out) /\ n \in 0 .. Len(sent) /\ Len(out) \in 0 .. Len(sent)
    BY <2>4, <2>6
  <2>8. ASSUME NEW k \in 1 .. Len(p) PROVE buffer[readPos + k - 1] = p[k]
    <3>1. Stream(e[n - 1] + k) = p[k]
      BY <2>2, <2>4 DEF FramedAt
    <3>2. /\ k - 1 \in 0 .. writePos - readPos - 1 /\ consumed + k <= Len(accepted)
          /\ consumed + (k - 1) + 1 = consumed + k /\ readPos + (k - 1) = readPos + k - 1
      BY <2>3, <2>4, <2>5
    <3>3. buffer[readPos + (k - 1)] = accepted[consumed + (k - 1) + 1]
      BY <3>2 DEF FInv, IInv, WindowIsStream
    <3>4. Stream(consumed + k) = accepted[consumed + k]
      BY <3>2 DEF Stream
    <3> QED
      BY <2>6, <2>7, <3>1, <3>2, <3>3, <3>4
  <2>9. PacketAtFront = p
    <3>1. PacketAtFront = [k \in 1 .. Len(p) |-> p[k]]
      BY <2>4, <2>8 DEF PacketAtFront
    <3> QED
      BY <2>5, <3>1
  <2>10. /\ out' \in Seq(Packets) /\ Len(out') = n
         /\ \A i \in 1 .. Len(out) : out'[i] = out[i]
         /\ out'[n] = p
    BY <2>1, <2>4, <2>6, <2>9
  <2>11. consumed' = e[n]
    <3>1. e[n] = e[n - 1] + Len(p)
      BY <2>2, <2>4 DEF FramedAt
    <3> QED
      BY <2>1, <2>4, <2>6, <2>7, <3>1
  <2>12. ASSUME NEW i \in 1 .. n PROVE out'[i] = sent[i]
    <3>1. CASE i = n
      BY <2>10, <3>1
    <3>2. CASE i # n
      <4>1. i \in 1 .. Len(out)
        BY <2>6, <3>2
      <4> QED
        BY <2>2, <2>10, <4>1 DEF FramedAt
    <3> QED
      BY <3>1, <3>2
  <2>13. n <= Len(sent)
    BY <2>4
  <2>14. FramedAt(e)'
    <3> HIDE DEF n, p
    <3>1. \A j : Stream(j)' = Stream(j)
      BY <2>1 DEF Stream
    <3> QED
      BY <2>1, <2>2, <2>10, <2>11, <2>12, <2>13, <3>1 DEF FramedAt
  <2> QED
    BY <2>14
<1> QED
  BY <1>1, <1>2 DEF Framed

(* Every step keeps the packets framed. *)
LEMMA NextFInv == ASSUME ShortPackets PROVE FInv /\ [Next]_vars => FInv'
<1> SUFFICES ASSUME FInv, [Next]_vars PROVE FInv'
  OBVIOUS
<1>1. IInv'
  BY NextIInv DEF FInv
<1>2. ASSUME NEW p \in Packets, PeerSend(p) PROVE Framed' /\ Drained'
  BY <1>2, SendFramed
<1>3. ASSUME NEW n \in 1 .. MaxRecv, OnRecv(n) PROVE Framed' /\ Drained'
  BY <1>3, RecvFramed
<1>4. CASE ReadPacket
  BY <1>1, <1>4, ReadFramed DEF FInv
<1>5. ASSUME UNCHANGED <<members, wire, history>> PROVE Framed'
  BY <1>5 DEF members, history, FInv, Framed, FramedAt, Stream
<1>6. CASE BindRecv
  <2>1. Drained'
    BY <1>6 DEF BindRecv, Drained, members, CanRead, DataSize
  <2> QED
    BY <1>1, <1>5, <1>6, <2>1 DEF BindRecv, FInv
<1>7. CASE UNCHANGED vars
  <2>1. Drained'
    BY <1>7 DEF vars, FInv, Drained, members, CanRead, DataSize
  <2> QED
    BY <1>1, <1>5, <1>7, <2>1 DEF vars, FInv
<1> QED
  BY <1>1, <1>2, <1>3, <1>4, <1>6, <1>7 DEF FInv, Next

(* An empty stream is framed by the end of no packet. *)
LEMMA InitFInv == Init => FInv
<1> SUFFICES ASSUME Init PROVE FInv
  OBVIOUS
<1>1. IInv
  BY InitIInv
<1>2. Drained
  BY SizeAssumption DEF Init, Drained, CanRead
<1>3. FramedAt([i \in 0 .. 0 |-> 0])
  <2>1. /\ sent = <<>> /\ out = <<>> /\ accepted = <<>> /\ wire = <<>> /\ consumed = 0
    BY DEF Init
  <2>2. /\ sent \in Seq(Packets) /\ out \in Seq(Packets) /\ Len(sent) = 0 /\ Len(out) = 0
        /\ Len(accepted) = 0 /\ Len(wire) = 0
    BY <2>1
  <2> QED
    BY <2>1, <2>2 DEF FramedAt
<1> QED
  BY <1>1, <1>2, <1>3 DEF FInv, Framed

(***************************************************************************)
(* Whatever way TCP cuts the stream and however often the buffer is        *)
(* relocated, Read hands on the packets the peer sent, whole and in order, *)
(* until a Write drops bytes (FramingExact): for every buffer, receive and *)
(* header size and every set of short packets.                             *)
(***************************************************************************)
THEOREM FramingCorrect == ASSUME ShortPackets PROVE Spec => []FramingExact
<1>1. FInv => FramingExact
  BY DEF FInv, Framed, FramedAt, FramingExact
<1>2. FInv /\ [Next]_vars => FInv'
  BY NextFInv
<1> QED
  BY <1>1, <1>2, InitFInv, PTL DEF Spec

(* There is room for an unfinished packet and a full receive: 1024 bytes   *)
(* for receives of 256 on the server, 20000 for 1024 on the client.        *)
RoomForReceive ==
  /\ HeaderSize + MaxRecv <= BufferSize
  /\ \A p \in Packets : Len(p) + MaxRecv <= BufferSize

(* The bytes that wait for the rest of their packet. *)
LEMMA UnreadIsShort ==
  ASSUME ShortPackets, RoomForReceive, FInv, ~dropped, phase = "recv"
  PROVE  (writePos - readPos) + MaxRecv <= BufferSize - 1
<1>1. /\ readPos \in Nat /\ writePos \in Nat /\ readPos <= writePos
      /\ BufferSize \in Nat /\ MaxRecv \in Nat /\ HeaderSize \in Nat
      /\ HeaderSize + MaxRecv <= BufferSize
  BY SizeAssumption DEF FInv, IInv, TypeOK, WindowIsStream, RoomForReceive
<1>2. CASE writePos - readPos < HeaderSize
  BY <1>1, <1>2
<1>3. CASE ~(writePos - readPos < HeaderSize)
  <2>1. readPos < writePos /\ writePos - readPos >= HeaderSize
    BY <1>1, <1>3, SizeAssumption
  <2>2. PICK e : FramedAt(e)
    BY DEF FInv, Framed
  <2> DEFINE p == sent[Len(out) + 1]
  <2>3. p \in Packets /\ DataSize = Len(p)
    BY <2>1, <2>2, NextPacket DEF FInv
  <2>4. Len(p) \in Nat /\ Len(p) + MaxRecv <= BufferSize
    BY <2>3, PacketBytes DEF RoomForReceive
  <2>5. ~(writePos - readPos >= DataSize)
    BY <2>1 DEF FInv, Drained, CanRead
  <2> QED
    BY <1>1, <2>3, <2>4, <2>5
<1> QED
  BY <1>2, <1>3

(***************************************************************************)
(* With room for an unfinished packet and a full receive the bytes that    *)
(* Write drops are exactly those that would fill the last cell             *)
(* (DropOnlyAtExactFill): there NeedRelocate finds enough room, and the    *)
(* capacity test does not.                                                 *)
(***************************************************************************)
THEOREM DropsAreExactFills ==
  ASSUME ShortPackets, RoomForReceive
  PROVE  Spec => DropOnlyAtExactFill
<1>1. ASSUME FInv, [Next]_vars, dropped', ~dropped
      PROVE  writePos + (Len(wire) - Len(wire')) = BufferSize
  <2>1. PICK n \in 1 .. MaxRecv : OnRecv(n)
    BY <1>1 DEF Next, vars, history, PeerSend, ReadPacket, BindRecv
  <2>2. /\ wire \in Seq(Byte) /\ n \in Nat /\ n <= Len(wire) /\ n >= 1 /\ n <= MaxRecv
        /\ wire' = SubSeq(wire, n + 1, Len(wire)) /\ phase = "recv"
    BY <1>1, <2>1, SizeAssumption DEF OnRecv, FInv, IInv, TypeOK
  <2>3. Len(wire) - Len(wire') = n
    BY <2>2
  <2>4. Len(SubSeq(wire, 1, n)) = n
    BY <2>2
  <2>5. ~Fits(n, IF NeedRelocate(n) THEN writePos - readPos ELSE writePos)
    BY <1>1, <2>1, <2>4 DEF OnRecv, Write
  <2>6. /\ readPos \in Nat /\ writePos \in Nat /\ BufferSize \in Nat /\ MaxRecv \in Nat
    BY <1>1, SizeAssumption DEF FInv, IInv, TypeOK
  <2>7. (writePos - readPos) + MaxRecv <= BufferSize - 1
    BY <1>1, <2>2, UnreadIsShort
  <2>8. ~NeedRelocate(n)
    BY <2>2, <2>5, <2>6, <2>7 DEF Fits
  <2>9. writePos + n = BufferSize
    BY <2>2, <2>5, <2>6, <2>8 DEF Fits, NeedRelocate
  <2> QED
    BY <2>3, <2>9
<1>2. FInv /\ [Next]_vars => FInv'
  BY NextFInv
<1>3. FInv /\ [Next]_vars
        => [dropped' /\ ~dropped => writePos + (Len(wire) - Len(wire')) = BufferSize]_vars
  BY <1>1
<1> QED
  BY <1>2, <1>3, InitFInv, PTL DEF Spec, DropOnlyAtExactFill

-----------------------------------------------------------------------------
(* A turn of the read loop hands on the next packet that was sent. *)
LEMMA ReadDelivers ==
  ASSUME ShortPackets, FInv, ReadPacket, ~dropped PROVE AsStream!Deliver
<1>1. out' = Append(out, PacketAtFront) /\ UNCHANGED <<sent, dropped>>
  BY DEF ReadPacket
<1>2. [Next]_vars
  BY DEF Next
<1>3. FInv'
  BY <1>2, NextFInv
<1>4. Len(out') <= Len(sent) /\ \A i \in 1 .. Len(out') : out'[i] = sent[i]
  BY <1>1, <1>3 DEF FInv, Framed, FramedAt
<1>5. out \in Seq(Packets) /\ sent \in Seq(Packets)
  BY DEF FInv, Framed, FramedAt
<1>6. PICK p : p = PacketAtFront
  OBVIOUS
<1>7. Len(out') = Len(out) + 1 /\ out'[Len(out) + 1] = p
  BY <1>1, <1>5, <1>6
<1>8. Len(out) < Len(sent) /\ p = sent[Len(out) + 1]
  BY <1>4, <1>5, <1>7
<1> QED
  BY <1>1, <1>6, <1>8 DEF AsStream!Deliver

(***************************************************************************)
(* PacketBuffer::Write, Read and RelocateBuffer with the loops around      *)
(* them, whatever way TCP cuts the bytes, implement a stream of whole      *)
(* packets: each step delivers the next packet sent, breaks the stream by  *)
(* dropping a receive, or is invisible.                                    *)
(***************************************************************************)
THEOREM BufferIsStream == ASSUME ShortPackets PROVE Spec => AsStream!Safety
<1>1. Init => AsStream!Init
  BY DEF Init, AsStream!Init
<1>2. ASSUME FInv, [Next]_vars PROVE [AsStream!Next]_(AsStream!vars)
  <2>1. ASSUME NEW p \in Packets, PeerSend(p) PROVE AsStream!Send
    BY <2>1 DEF PeerSend, AsStream!Send
  <2>2. ASSUME NEW n \in 1 .. MaxRecv, OnRecv(n) PROVE AsStream!Break \/ UNCHANGED AsStream!vars
    BY <2>2 DEF OnRecv, Write, AsStream!Break, AsStream!vars
  <2>3. ASSUME ReadPacket PROVE AsStream!Deliver \/ AsStream!DeliverAny
    <3>1. CASE dropped
      BY <2>3, <3>1 DEF ReadPacket, AsStream!DeliverAny
    <3>2. CASE ~dropped
      BY <1>2, <2>3, <3>2, ReadDelivers
    <3> QED
      BY <3>1, <3>2
  <2>4. ASSUME BindRecv \/ UNCHANGED vars PROVE UNCHANGED AsStream!vars
    BY <2>4 DEF BindRecv, vars, history, AsStream!vars
  <2> QED
    BY <1>2, <2>1, <2>2, <2>3, <2>4 DEF Next, AsStream!Next
<1>3. FInv /\ [Next]_vars => FInv'
  BY NextFInv
<1> QED
  BY <1>1, <1>2, <1>3, InitFInv, PTL DEF Spec, AsStream!Safety
=============================================================================
