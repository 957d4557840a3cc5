-------------------------- MODULE GameServerProofs --------------------------
(***************************************************************************)
(* Proofs about GameServer for every number of clients, every bag and      *)
(* batch size, every room capacity and every set of requests.              *)
(***************************************************************************)
EXTENDS GameServer, SequenceTheorems, FiniteSetTheorems, FunctionTheorems, WellFoundedInduction,
        TLAPS

Request == [session : Session, id : ReqId, arg : Nat]

(* A session that occurs in a player list has a first occurrence. *)
LEMMA FirstOccurrence ==
  ASSUME NEW seq \in Seq(Session), NEW s, NEW k \in DOMAIN seq, seq[k] = s
  PROVE  \E i \in DOMAIN seq : seq[i] = s /\ \A j \in 1 .. i - 1 : seq[j] # s
<1> DEFINE T == {i \in DOMAIN seq : seq[i] = s}
           R == OpToRel(<, Nat)
<1>1. T \subseteq Nat /\ T # {}
  OBVIOUS
<1>2. IsWellFoundedOn(R, Nat)
  BY NatLessThanWellFounded
<1> HIDE DEF T, R
<1>3. \E x \in T : \A y \in T : ~ (<<y, x>> \in R)
  BY <1>1, <1>2, WFMin
<1>4. PICK x \in T : \A y \in T : ~ (<<y, x>> \in R)
  BY <1>3
<1>5. ASSUME NEW j \in 1 .. x - 1 PROVE seq[j] # s
  <2>1. x \in 1 .. Len(seq) /\ j \in 1 .. Len(seq) /\ j < x
    BY <1>4, <1>5 DEF T
  <2>2. <<j, x>> \in R
    BY <2>1 DEF R, OpToRel
  <2> QED
    BY <1>4, <2>1, <2>2 DEF T
<1> QED
  BY <1>4, <1>5 DEF T

(* Room::RemovePlayer erases one entry of s and keeps everybody else. *)
LEMMA WithoutFirstFacts ==
  ASSUME NEW seq \in Seq(Session), NEW s \in Session, NEW k \in DOMAIN seq, seq[k] = s
  PROVE  /\ WithoutFirst(seq, s) \in Seq(Session)
         /\ Len(WithoutFirst(seq, s)) = Len(seq) - 1
         /\ \A i \in DOMAIN seq : seq[i] # s =>
              \E j \in DOMAIN WithoutFirst(seq, s) : WithoutFirst(seq, s)[j] = seq[i]
<1> DEFINE first == CHOOSE i \in DOMAIN seq :
                      seq[i] = s /\ \A j \in 1 .. i - 1 : seq[j] # s
           short == [j \in 1 .. Len(seq) - 1 |-> IF j < first THEN seq[j] ELSE seq[j + 1]]
<1>1. first \in DOMAIN seq /\ seq[first] = s
  <2>1. \E i \in DOMAIN seq : seq[i] = s /\ \A j \in 1 .. i - 1 : seq[j] # s
    BY FirstOccurrence
  <2> QED
    BY <2>1, Zenon
<1>2. WithoutFirst(seq, s) = short
  BY DEF WithoutFirst
<1> HIDE DEF first
<1>3. Len(seq) - 1 \in Nat /\ first \in 1 .. Len(seq)
  BY <1>1
<1>4. \A j \in 1 .. Len(seq) - 1 : short[j] \in Session
  BY <1>3
<1>5. short \in Seq(Session) /\ Len(short) = Len(seq) - 1
  BY <1>3, <1>4
<1>6. ASSUME NEW i \in DOMAIN seq, seq[i] # s
      PROVE  \E j \in DOMAIN short : short[j] = seq[i]
  <2>1. i # first /\ i \in 1 .. Len(seq)
    BY <1>1, <1>6
  <2>2. CASE i < first
    <3>1. i \in 1 .. Len(seq) - 1 /\ short[i] = seq[i]
      BY <1>3, <2>1, <2>2
    <3> QED
      BY <3>1
  <2>3. CASE i > first
    <3>1. i - 1 \in 1 .. Len(seq) - 1 /\ short[i - 1] = seq[i]
      BY <1>3, <2>1, <2>3
    <3> QED
      BY <3>1
  <2> QED
    BY <1>3, <2>1, <2>2, <2>3
<1>7. \A i \in DOMAIN seq : seq[i] # s => \E j \in DOMAIN short : short[j] = seq[i]
  BY <1>6, Zenon
<1> HIDE DEF short
<1> QED
  BY <1>2, <1>5, <1>7, Zenon

(* GetFallingBlock's loop always generates enough to pass the index. *)
LEMMA MissingBagsFacts ==
  ASSUME NEW have \in Nat, NEW index \in Nat
  PROVE  /\ MissingBags(have, index) \in Nat
         /\ index < have + MissingBags(have, index) * BagSize
<1>1. CASE index < have
  BY <1>1, BlockAssumption DEF MissingBags
<1>2. CASE index >= have
  <2> DEFINE n == index - have
             q == n \div BagSize
  <2>1. n \in Nat /\ BagSize \in Nat \ {0}
    BY <1>2, BlockAssumption
  <2>2. q \in Nat /\ n < BagSize * q + BagSize
    BY <2>1
  <2>3. MissingBags(have, index) = q + 1
    BY <1>2 DEF MissingBags
  <2>4. (q + 1) * BagSize = BagSize * q + BagSize
    BY <2>1, <2>2
  <2> HIDE DEF q
  <2> QED
    BY <1>2, <2>1, <2>2, <2>3, <2>4
<1> QED
  BY <1>1, <1>2

-----------------------------------------------------------------------------
(* The request at the front of the queue, and what is left behind it. *)
LEMMA QueueFacts ==
  ASSUME queue \in Seq(Request), queue # <<>>
  PROVE  req \in Request /\ DequeRecvPacket.rest \in Seq(Request) /\ req = Head(queue)
  BY DEF req, DequeRecvPacket

LEMMA InitType == Init => TypeOK
<1> SUFFICES ASSUME Init PROVE TypeOK
  OBVIOUS
<1>1. up \in BOOLEAN
  BY Zenon DEF Init
<1>2. /\ sessions \in 0 .. MaxSessions /\ queue \in Seq(Request)
      /\ nextRoom \in Nat \ {0} /\ rooms \subseteq RoomId /\ entered \subseteq RoomId
      /\ roomOf \in [Session -> Nat] /\ fallingBlockIndex \in [Session -> Nat]
      /\ game \in [Session -> Nat]
  BY BoundAssumption DEF Init, Session
<1>3. /\ players \in [RoomId -> Seq(Session)]
      /\ isPlaying \in [RoomId -> BOOLEAN]
      /\ fallingBlocks \in [RoomId -> Seq(Shape)]
  BY DEF Init, RoomId
<1>4. /\ enterRes \in [result : {FAILED, NOT_FOUND}, session : 0 .. MaxSessions]
      /\ blockRes \in Seq(0 .. BagSize)
  BY BoundAssumption, BlockAssumption DEF Init
<1>5. dealt \in [Session -> Seq(Shape)] /\ met \in [Session -> SUBSET Session]
  BY DEF Init
<1> QED
  BY <1>1, <1>2, <1>3, <1>4, <1>5 DEF TypeOK, Request

(* CreateRoom adds an entry to a table of rooms and leaves the others alone. *)
LEMMA GrowFacts ==
  ASSUME NEW S, NEW n \in Nat \ {0}, NEW f \in [1 .. n - 1 -> S], NEW x \in S
  PROVE  /\ Append(f, x) \in [1 .. (n + 1) - 1 -> S]
         /\ Append(f, x)[n] = x
         /\ \A r \in 1 .. n - 1 : Append(f, x)[r] = f[r]
<1>1. f \in Seq(S) /\ Len(f) = n - 1
  OBVIOUS
<1>2. Append(f, x) \in Seq(S) /\ Len(Append(f, x)) = n
  BY <1>1
<1>3. Append(f, x)[n] = x /\ \A r \in 1 .. n - 1 : Append(f, x)[r] = f[r]
  BY <1>1
<1>4. Append(f, x) \in [1 .. n -> S]
  BY <1>2, LenProperties
<1> QED
  BY <1>3, <1>4

(* Everything but the session list and the queue stays as it is. *)
quietVars == <<playerVars, roomVars, resVars, history>>

(* A step that only moves the queue and the sessions keeps the types. *)
LEMMA QuietType ==
  ASSUME TypeOK, UNCHANGED quietVars, up' \in BOOLEAN,
         sessions' \in 0 .. MaxSessions, queue' \in Seq(Request)
  PROVE  TypeOK'
  BY DEF TypeOK, quietVars, playerVars, roomVars, resVars, history, RoomId, Request

(* The step of PacketThread takes a well-formed request off the queue. *)
LEMMA ServedType ==
  ASSUME TypeOK, queue # <<>>, Served
  PROVE  /\ req \in Request /\ queue' \in Seq(Request)
         /\ up' \in BOOLEAN /\ sessions' \in 0 .. MaxSessions
  BY QueueFacts DEF TypeOK, Served, Request

LEMMA EnterType == TypeOK /\ ReqRoomEnter => TypeOK'
<1> SUFFICES ASSUME TypeOK, ReqRoomEnter PROVE TypeOK'
  OBVIOUS
<1>1. /\ req \in Request /\ queue' \in Seq(Request)
      /\ up' \in BOOLEAN /\ sessions' \in 0 .. MaxSessions
  BY ServedType DEF ReqRoomEnter, Serving
<1>2. /\ nextRoom' = nextRoom /\ rooms' = rooms /\ RoomId' = RoomId
      /\ UNCHANGED <<fallingBlockIndex, isPlaying, fallingBlocks, blockRes>>
  BY DEF ReqRoomEnter, RoomId
<1>3. enterRes' \in [result : {FAILED, NOT_FOUND}, session : 0 .. MaxSessions]
  <2>1. enterRes \in [result : {FAILED, NOT_FOUND}, session : 0 .. MaxSessions]
    BY DEF TypeOK
  <2>2. req.session \in 0 .. MaxSessions
    BY <1>1, BoundAssumption DEF Request, Session
  <2>3. \/ enterRes' = [enterRes EXCEPT !.result = NOT_FOUND]
        \/ enterRes' = [enterRes EXCEPT !.session = req.session]
    BY DEF ReqRoomEnter
  <2> QED
    BY <2>1, <2>2, <2>3
<1>4. CASE UNCHANGED <<roomOf, players, history>>
  BY <1>1, <1>2, <1>3, <1>4 DEF TypeOK, history, Request
<1>5. CASE req.arg \in rooms /\ AddPlayer(req.arg, req.session)
  <2> DEFINE r == req.arg
             s == req.session
  <2>1. r \in rooms /\ r \in RoomId /\ s \in Session /\ r \in Nat
    BY <1>1, <1>5 DEF TypeOK, Request
  <2>2. roomOf' \in [Session -> Nat] /\ game' \in [Session -> Nat]
    BY <1>5, <2>1 DEF AddPlayer, TypeOK
  <2>3. players' \in [RoomId -> Seq(Session)]
    BY <1>5, <2>1 DEF AddPlayer, TypeOK
  <2>4. dealt' \in [Session -> Seq(Shape)]
    BY <1>5, <2>1 DEF AddPlayer, TypeOK
  <2>5. entered' \subseteq RoomId
    BY <1>5, <2>1 DEF AddPlayer, TypeOK
  <2>6. \A p \in Session : Heard(r, s, p) \subseteq Session
    <3>1. players[r] \in Seq(Session)
      BY <2>1 DEF TypeOK
    <3>2. ASSUME NEW i \in DOMAIN Introductions(r, s)
          PROVE  Introductions(r, s)[i].data[1] \in Session
      <4>1. i \in 1 .. 2 * Len(players[r]) /\ Len(players[r]) \in Nat
        BY <3>1, <3>2 DEF Introductions
      <4>2. (i + 1) \div 2 \in 1 .. Len(players[r])
        BY <4>1
      <4>3. players[r][(i + 1) \div 2] \in Session
        BY <3>1, <4>2
      <4> QED
        BY <2>1, <4>1, <4>3 DEF Introductions, Notify
    <3> QED
      BY <3>2 DEF Heard
  <2>7. met' \in [Session -> SUBSET Session]
    BY <1>5, <2>6 DEF AddPlayer, TypeOK
  <2> QED
    BY <1>1, <1>2, <1>3, <2>2, <2>3, <2>4, <2>5, <2>7 DEF TypeOK, Request
<1> QED
  BY <1>4, <1>5 DEF ReqRoomEnter

LEMMA LeaveType == TypeOK /\ ReqRoomLeave => TypeOK'
<1> SUFFICES ASSUME TypeOK, ReqRoomLeave PROVE TypeOK'
  OBVIOUS
<1> DEFINE s    == req.session
           r    == roomOf[s]
           left == WithoutFirst(players[r], s)
<1>1. /\ req \in Request /\ queue' \in Seq(Request)
      /\ up' \in BOOLEAN /\ sessions' \in 0 .. MaxSessions
  BY ServedType DEF ReqRoomLeave, Serving
<1>2. /\ UNCHANGED <<fallingBlockIndex, nextRoom, resVars, met, entered>> /\ RoomId' = RoomId
  BY DEF ReqRoomLeave, RoomId
<1>3. CASE r \notin rooms
  <2>1. UNCHANGED <<roomOf, rooms, players, isPlaying, fallingBlocks, game, dealt>>
    BY <1>3 DEF ReqRoomLeave
  <2> QED
    BY <1>1, <1>2, <2>1 DEF TypeOK, resVars, Request
<1>4. CASE r \in rooms
  <2>1. s \in Session /\ r \in RoomId /\ players[r] \in Seq(Session)
    BY <1>1, <1>4 DEF TypeOK, Request
  <2>2. left \in Seq(Session)
    <3>1. CASE \E k \in DOMAIN players[r] : players[r][k] = s
      BY <2>1, <3>1, WithoutFirstFacts
    <3>2. CASE ~ \E k \in DOMAIN players[r] : players[r][k] = s
      BY <2>1, <3>2 DEF WithoutFirst
    <3> QED
      BY <3>1, <3>2
  <2> HIDE DEF left
  <2>3. /\ roomOf' = IF s \in Members(r) THEN [roomOf EXCEPT ![s] = 0] ELSE roomOf
        /\ game' = [game EXCEPT ![s] = 0]
        /\ dealt' = [dealt EXCEPT ![s] = <<>>]
        /\ rooms' = rooms \ Closed(r, left)
        /\ players' = [players EXCEPT ![r] = left]
        /\ isPlaying' = [isPlaying EXCEPT ![r] = @ /\ r \in rooms']
        /\ fallingBlocks' = [fallingBlocks EXCEPT ![r] = IF r \in rooms' THEN @ ELSE <<>>]
    BY <1>4 DEF ReqRoomLeave, left
  <2>4. roomOf' \in [Session -> Nat] /\ game' \in [Session -> Nat] /\ rooms' \subseteq RoomId
    BY <2>1, <2>3 DEF TypeOK
  <2>5. players' \in [RoomId -> Seq(Session)] /\ fallingBlocks' \in [RoomId -> Seq(Shape)]
    BY <2>1, <2>2, <2>3 DEF TypeOK
  <2>6. isPlaying' \in [RoomId -> BOOLEAN]
    BY <2>1, <2>3, Zenon DEF TypeOK
  <2>7. dealt' \in [Session -> Seq(Shape)]
    BY <2>1, <2>3 DEF TypeOK
  <2> QED
    BY <1>1, <1>2, <2>4, <2>5, <2>6, <2>7 DEF TypeOK, resVars, Request
<1> QED
  BY <1>3, <1>4

LEMMA CreateType == TypeOK /\ ReqRoomCreate => TypeOK'
<1> SUFFICES ASSUME TypeOK, ReqRoomCreate PROVE TypeOK'
  OBVIOUS
<1>1. /\ queue' \in Seq(Request) /\ up' \in BOOLEAN /\ sessions' \in 0 .. MaxSessions
  BY ServedType DEF ReqRoomCreate, Serving
<1>2. /\ nextRoom \in Nat \ {0} /\ nextRoom' = nextRoom + 1
      /\ rooms' = rooms \cup {nextRoom} /\ UNCHANGED <<playerVars, resVars, history>>
  BY DEF ReqRoomCreate, TypeOK
<1>3. rooms' \subseteq RoomId' /\ entered' \subseteq RoomId' /\ nextRoom' \in Nat \ {0}
  BY <1>2 DEF TypeOK, RoomId, history
<1>4. players' \in [RoomId' -> Seq(Session)]
  <2>1. <<>> \in Seq(Session) /\ players \in [1 .. nextRoom - 1 -> Seq(Session)]
    BY DEF TypeOK, RoomId
  <2> QED
    BY <1>2, <2>1, GrowFacts DEF ReqRoomCreate, RoomId
<1>5. isPlaying' \in [RoomId' -> BOOLEAN]
  <2>1. FALSE \in BOOLEAN /\ isPlaying \in [1 .. nextRoom - 1 -> BOOLEAN]
    BY DEF TypeOK, RoomId
  <2> QED
    BY <1>2, <2>1, GrowFacts DEF ReqRoomCreate, RoomId
<1>6. fallingBlocks' \in [RoomId' -> Seq(Shape)]
  <2>1. <<>> \in Seq(Shape) /\ fallingBlocks \in [1 .. nextRoom - 1 -> Seq(Shape)]
    BY DEF TypeOK, RoomId
  <2> QED
    BY <1>2, <2>1, GrowFacts DEF ReqRoomCreate, RoomId
<1> QED
  BY <1>1, <1>2, <1>3, <1>4, <1>5, <1>6
  DEF TypeOK, playerVars, resVars, history, Request

(* What GenerateFallingBlocks appends is a sequence of shapes. *)
LEMMA BagsFacts ==
  ASSUME NEW k \in Nat, NEW e \in Bags(k)
  PROVE  e \in Seq(Shape) /\ Len(e) = k * BagSize
<1>1. k * BagSize \in Nat
  BY BlockAssumption
<1>2. e \in [1 .. k * BagSize -> Shape]
  BY DEF Bags
<1> HIDE DEF Shape
<1> QED
  BY <1>1, <1>2

(* A batch cut from a supply that reaches past its end is a full batch. *)
LEMMA BatchFacts ==
  ASSUME NEW supply \in Seq(Shape), NEW m \in Nat, m + BatchSize < Len(supply) + 1
  PROVE  /\ SubSeq(supply, m + 1, m + BatchSize) \in Seq(Shape)
         /\ Len(SubSeq(supply, m + 1, m + BatchSize)) = BatchSize
         /\ \A i \in 1 .. BatchSize : SubSeq(supply, m + 1, m + BatchSize)[i] = supply[m + i]
<1>1. BatchSize \in Nat \ {0}
  BY BlockAssumption
<1> HIDE DEF Shape
<1> DEFINE b == SubSeq(supply, m + 1, m + BatchSize)
<1>2. Len(b) = BatchSize /\ \A i \in 1 .. BatchSize : b[i] = supply[m + i]
  BY <1>1
<1>3. \A i \in 1 .. BatchSize : supply[m + i] \in Shape
  BY <1>1
<1>4. b \in Seq(Shape)
  BY <1>1, <1>2, <1>3
<1> QED
  BY <1>2, <1>4

(* ReqGameStart on a player's own room: the blocks drawn and the first batch. *)
LEMMA StartFacts ==
  ASSUME NEW e \in Bags(1 + MissingBags(BagSize, BatchSize))
  PROVE  /\ e \in Seq(Shape) /\ BatchSize < Len(e)
         /\ SubSeq(e, 1, BatchSize) \in Seq(Shape)
         /\ Len(SubSeq(e, 1, BatchSize)) = BatchSize
         /\ \A i \in 1 .. BatchSize : SubSeq(e, 1, BatchSize)[i] = e[i]
<1> DEFINE k == MissingBags(BagSize, BatchSize)
<1>1. k \in Nat /\ BatchSize < BagSize + k * BagSize
  BY MissingBagsFacts, BlockAssumption
<1>2. (1 + k) * BagSize = BagSize + k * BagSize
  BY <1>1, BlockAssumption
<1>3. e \in Seq(Shape) /\ Len(e) = (1 + k) * BagSize
  BY <1>1, BagsFacts
<1> HIDE DEF k
<1>4. BatchSize < Len(e)
  BY <1>1, <1>2, <1>3
<1>5. BatchSize \in Nat \ {0}
  BY BlockAssumption
<1>6. 0 + BatchSize < Len(e) + 1 /\ 0 + 1 = 1 /\ 0 + BatchSize = BatchSize
  BY <1>3, <1>4, <1>5
<1>7. \A i \in 1 .. BatchSize : 0 + i = i
  BY <1>5
<1> QED
  BY <1>3, <1>4, <1>6, <1>7, BatchFacts

LEMMA StartType == TypeOK /\ ReqGameStart => TypeOK'
<1> SUFFICES ASSUME TypeOK, ReqGameStart PROVE TypeOK'
  OBVIOUS
<1> DEFINE s == req.session
           r == roomOf[s]
<1>1. CASE r \notin rooms /\ Fault
  BY <1>1, QuietType DEF Fault, quietVars, TypeOK, Request
<1>2. CASE r \in rooms /\ Served
  <2>1. /\ req \in Request /\ queue' \in Seq(Request)
        /\ up' \in BOOLEAN /\ sessions' \in 0 .. MaxSessions
    BY <1>2, ServedType DEF ReqGameStart, Serving
  <2>2. r \in rooms /\ r \in RoomId /\ s \in Session /\ r \in Nat /\ RoomId' = RoomId
    BY <1>2, <2>1 DEF TypeOK, RoomId, Request, ReqGameStart
  <2>3. PICK e \in Bags(1 + MissingBags(BagSize, BatchSize)) :
          /\ fallingBlocks' = [fallingBlocks EXCEPT ![r] = e]
          /\ dealt' = [p \in Session |-> IF p \in Reset(r, s) THEN SubSeq(e, 1, BatchSize)
                                         ELSE dealt[p]]
    BY <1>2 DEF ReqGameStart
  <2>4. e \in Seq(Shape) /\ SubSeq(e, 1, BatchSize) \in Seq(Shape)
    BY StartFacts
  <2>5. fallingBlocks' \in [RoomId -> Seq(Shape)] /\ dealt' \in [Session -> Seq(Shape)]
    BY <2>2, <2>3, <2>4 DEF TypeOK
  <2>6. /\ isPlaying' = [isPlaying EXCEPT ![r] = TRUE]
        /\ fallingBlockIndex' = [p \in Session |->
             IF p \in Reset(r, s) THEN BatchSize ELSE fallingBlockIndex[p]]
        /\ game' = [p \in Session |-> IF p \in Members(r) \cup {s} THEN r ELSE game[p]]
        /\ UNCHANGED <<roomOf, rooms, nextRoom, players, resVars, met, entered>>
    BY <1>2 DEF ReqGameStart
  <2>7. isPlaying' \in [RoomId -> BOOLEAN]
    BY <2>2, <2>6, Zenon DEF TypeOK
  <2>8. fallingBlockIndex' \in [Session -> Nat] /\ game' \in [Session -> Nat]
    BY <2>2, <2>6, BlockAssumption DEF TypeOK
  <2> QED
    BY <2>1, <2>2, <2>5, <2>6, <2>7, <2>8 DEF TypeOK, resVars, Request
<1> QED
  BY <1>1, <1>2 DEF ReqGameStart

LEMMA StopType == TypeOK /\ ReqGameStop => TypeOK'
<1> SUFFICES ASSUME TypeOK, ReqGameStop PROVE TypeOK'
  OBVIOUS
<1> DEFINE r == roomOf[req.session]
<1>1. CASE r \notin rooms /\ Fault
  BY <1>1, QuietType DEF Fault, quietVars, TypeOK, Request
<1>2. CASE r \in rooms /\ Served
  <2>1. /\ req \in Request /\ queue' \in Seq(Request)
        /\ up' \in BOOLEAN /\ sessions' \in 0 .. MaxSessions
    BY <1>2, ServedType DEF ReqGameStop, Serving
  <2>2. /\ isPlaying' = [isPlaying EXCEPT ![r] = FALSE] /\ r \in RoomId /\ RoomId' = RoomId
        /\ UNCHANGED <<playerVars, rooms, nextRoom, players, fallingBlocks, resVars, history>>
    BY <1>2 DEF ReqGameStop, RoomId, TypeOK
  <2>3. isPlaying' \in [RoomId -> BOOLEAN]
    BY <2>2, Zenon DEF TypeOK
  <2> QED
    BY <2>1, <2>2, <2>3 DEF TypeOK, playerVars, resVars, history, Request
<1> QED
  BY <1>1, <1>2 DEF ReqGameStop

(* Room::GetFallingBlock: the supply grows by whole bags and covers the batch. *)
LEMMA SupplyFacts ==
  ASSUME NEW blocks \in Seq(Shape), NEW m \in Nat,
         NEW e \in Bags(MissingBags(Len(blocks), m + BatchSize))
  PROVE  LET supply == blocks \o e
             batch  == SubSeq(supply, m + 1, m + BatchSize)
         IN /\ supply \in Seq(Shape)
            /\ Len(supply) >= Len(blocks)
            /\ m + BatchSize < Len(supply)
            /\ \A i \in 1 .. Len(blocks) : supply[i] = blocks[i]
            /\ batch \in Seq(Shape)
            /\ Len(batch) = BatchSize
            /\ \A i \in 1 .. BatchSize : batch[i] = supply[m + i]
<1> DEFINE k == MissingBags(Len(blocks), m + BatchSize)
           supply == blocks \o e
<1>1. BatchSize \in Nat \ {0} /\ m + BatchSize \in Nat /\ Len(blocks) \in Nat
  BY BlockAssumption
<1>2. k \in Nat /\ m + BatchSize < Len(blocks) + k * BagSize
  BY <1>1, MissingBagsFacts
<1>3. e \in Seq(Shape) /\ Len(e) = k * BagSize
  BY <1>2, BagsFacts
<1>4. /\ supply \in Seq(Shape) /\ Len(supply) = Len(blocks) + Len(e)
      /\ \A i \in 1 .. Len(blocks) : supply[i] = blocks[i]
  <2>1. supply \in Seq(Shape) /\ Len(supply) = Len(blocks) + Len(e)
    BY <1>3
  <2>2. \A i \in 1 .. Len(blocks) : supply[i] = blocks[i]
    BY <1>1, <1>3
  <2> QED
    BY <2>1, <2>2
<1> HIDE DEF k, supply
<1>5. Len(supply) >= Len(blocks) /\ m + BatchSize < Len(supply)
  BY <1>1, <1>2, <1>3, <1>4
<1>6. m + BatchSize < Len(supply) + 1
  BY <1>1, <1>4, <1>5
<1>7. /\ SubSeq(supply, m + 1, m + BatchSize) \in Seq(Shape)
      /\ Len(SubSeq(supply, m + 1, m + BatchSize)) = BatchSize
      /\ \A i \in 1 .. BatchSize : SubSeq(supply, m + 1, m + BatchSize)[i] = supply[m + i]
  BY <1>4, <1>6, BatchFacts
<1> QED
  BY <1>4, <1>5, <1>7 DEF supply

(* What ReqFallingBlock does for a player with a room, in one place. *)
LEMMA DealFacts ==
  ASSUME TypeOK, ReqFallingBlock, roomOf[req.session] \in rooms
  PROVE  LET s == req.session
             r == roomOf[s]
             m == fallingBlockIndex[s]
         IN \E supply \in Seq(Shape), batch \in Seq(Shape) :
              /\ m + BatchSize < Len(supply)
              /\ \A i \in 1 .. Len(fallingBlocks[r]) : supply[i] = fallingBlocks[r][i]
              /\ Len(supply) >= Len(fallingBlocks[r])
              /\ Len(batch) = BatchSize
              /\ \A i \in 1 .. BatchSize : batch[i] = supply[m + i]
              /\ fallingBlocks' = [fallingBlocks EXCEPT ![r] = supply]
              /\ blockRes' = batch
              /\ dealt' = [dealt EXCEPT ![s] = IF game[s] = r THEN @ \o batch ELSE @]
              /\ fallingBlockIndex' = [fallingBlockIndex EXCEPT ![s] = m + BatchSize]
<1> DEFINE s == req.session
           r == roomOf[s]
           m == fallingBlockIndex[s]
<1>1. req \in Request
  BY QueueFacts DEF ReqFallingBlock, Serving, TypeOK, Request
<1>2. s \in Session /\ m \in Nat /\ r \in RoomId /\ fallingBlocks[r] \in Seq(Shape)
  BY <1>1 DEF TypeOK, Request
<1>3. (m + BatchSize) - BatchSize = m
  BY <1>2, BlockAssumption
<1>4. PICK e \in Bags(MissingBags(Len(fallingBlocks[r]), m + BatchSize)) :
        LET supply == fallingBlocks[r] \o e
            batch  == SubSeq(supply, m + 1, m + BatchSize)
        IN /\ fallingBlocks' = [fallingBlocks EXCEPT ![r] = supply]
           /\ blockRes' = batch
           /\ dealt' = [dealt EXCEPT ![s] = IF game[s] = r THEN @ \o batch ELSE @]
  BY <1>3 DEF ReqFallingBlock
<1>5. fallingBlockIndex' = [fallingBlockIndex EXCEPT ![s] = m + BatchSize]
  BY DEF ReqFallingBlock
<1> DEFINE supply == fallingBlocks[r] \o e
           batch  == SubSeq(supply, m + 1, m + BatchSize)
<1>6. /\ supply \in Seq(Shape) /\ batch \in Seq(Shape)
      /\ Len(supply) >= Len(fallingBlocks[r]) /\ m + BatchSize < Len(supply)
      /\ \A i \in 1 .. Len(fallingBlocks[r]) : supply[i] = fallingBlocks[r][i]
      /\ Len(batch) = BatchSize /\ \A i \in 1 .. BatchSize : batch[i] = supply[m + i]
  <2>1. /\ fallingBlocks[r] \in Seq(Shape) /\ m \in Nat
        /\ e \in Bags(MissingBags(Len(fallingBlocks[r]), m + BatchSize))
    BY <1>2
  <2> HIDE DEF m, r
  <2> QED
    BY <2>1, SupplyFacts, Zenon
<1>7. /\ fallingBlocks' = [fallingBlocks EXCEPT ![r] = supply]
      /\ blockRes' = batch
      /\ dealt' = [dealt EXCEPT ![s] = IF game[s] = r THEN @ \o batch ELSE @]
  BY <1>4, Zenon
<1> HIDE DEF supply, batch, m, r, s
<1>8. \E u \in Seq(Shape), b \in Seq(Shape) :
        /\ m + BatchSize < Len(u)
        /\ \A i \in 1 .. Len(fallingBlocks[r]) : u[i] = fallingBlocks[r][i]
        /\ Len(u) >= Len(fallingBlocks[r])
        /\ Len(b) = BatchSize
        /\ \A i \in 1 .. BatchSize : b[i] = u[m + i]
        /\ fallingBlocks' = [fallingBlocks EXCEPT ![r] = u]
        /\ blockRes' = b
        /\ dealt' = [dealt EXCEPT ![s] = IF game[s] = r THEN @ \o b ELSE @]
        /\ fallingBlockIndex' = [fallingBlockIndex EXCEPT ![s] = m + BatchSize]
  BY <1>5, <1>6, <1>7, Zenon
<1> QED
  BY <1>8, Zenon DEF s, r, m

LEMMA BlockType == TypeOK /\ ReqFallingBlock => TypeOK'
<1> SUFFICES ASSUME TypeOK, ReqFallingBlock PROVE TypeOK'
  OBVIOUS
<1> DEFINE s == req.session
           r == roomOf[s]
<1>1. /\ req \in Request /\ queue' \in Seq(Request)
      /\ up' \in BOOLEAN /\ sessions' \in 0 .. MaxSessions
  BY ServedType DEF ReqFallingBlock, Serving
<1>2. /\ UNCHANGED <<roomOf, rooms, nextRoom, players, isPlaying, enterRes, game, met, entered>>
      /\ RoomId' = RoomId
  BY DEF ReqFallingBlock, RoomId
<1>3. CASE r \notin rooms
  <2>1. UNCHANGED <<fallingBlockIndex, fallingBlocks, blockRes, dealt>>
    BY <1>3 DEF ReqFallingBlock
  <2> QED
    BY <1>1, <1>2, <2>1 DEF TypeOK, Request
<1>4. CASE r \in rooms
  <2>1. s \in Session /\ r \in RoomId /\ fallingBlockIndex[s] + BatchSize \in Nat
    BY <1>1, <1>4, BlockAssumption DEF TypeOK, Request
  <2>2. PICK supply \in Seq(Shape), batch \in Seq(Shape) :
          /\ fallingBlocks' = [fallingBlocks EXCEPT ![r] = supply]
          /\ blockRes' = batch
          /\ dealt' = [dealt EXCEPT ![s] = IF game[s] = r THEN @ \o batch ELSE @]
          /\ fallingBlockIndex' = [fallingBlockIndex EXCEPT ![s] = fallingBlockIndex[s] + BatchSize]
    BY <1>4, DealFacts
  <2>3. fallingBlocks' \in [RoomId -> Seq(Shape)] /\ fallingBlockIndex' \in [Session -> Nat]
    BY <2>1, <2>2 DEF TypeOK
  <2>4. dealt' \in [Session -> Seq(Shape)]
    <3>1. dealt[s] \in Seq(Shape) /\ dealt[s] \o batch \in Seq(Shape)
      BY <2>1 DEF TypeOK
    <3> QED
      BY <2>1, <2>2, <3>1 DEF TypeOK
  <2>5. blockRes' \in Seq(0 .. BagSize)
    <3>1. Shape \subseteq 0 .. BagSize
      BY BlockAssumption DEF Shape
    <3> QED
      BY <2>2, <3>1, SeqMonotonic
  <2> QED
    BY <1>1, <1>2, <2>3, <2>4, <2>5 DEF TypeOK, Request
<1> QED
  BY <1>3, <1>4

(* The server among clients that send whatever they like: the steps below  *)
(* are shown to keep the invariants for these, and so for those of Next.   *)
AnyRequest == [id : ReqId, arg : Nat]

AnyNext ==
  \/ OnConnect
  \/ \E s \in Session, q \in AnyRequest : OnReceive(s, q)
  \/ PacketThread

(* The handlers and the worker steps that change no game state. *)
QuietStep ==
  \/ ReqLogin \/ ReqRoomList \/ ReqRoomCanEnter \/ ReqGameInput
  \/ OnConnect
  \/ \E s \in Session, q \in AnyRequest : OnReceive(s, q)
  \/ UNCHANGED vars

LEMMA QuietStepType ==
  ASSUME TypeOK, QuietStep
  PROVE  TypeOK' /\ UNCHANGED quietVars /\ up' = up
<1>1. CASE ReqLogin \/ ReqRoomList \/ ReqRoomCanEnter \/ ReqGameInput
  <2>1. queue # <<>> /\ Served /\ UNCHANGED quietVars
    BY <1>1 DEF ReqLogin, ReqRoomList, ReqRoomCanEnter, ReqGameInput, Serving, quietVars
  <2>2. up' = up
    BY <2>1 DEF Served
  <2> QED
    BY <2>1, <2>2, ServedType, QuietType
<1>2. CASE OnConnect
  <2>1. /\ UNCHANGED quietVars /\ up' = up /\ queue' = queue
        /\ sessions < MaxSessions /\ sessions' = sessions + 1
    BY <1>2 DEF OnConnect, quietVars
  <2>2. sessions' \in 0 .. MaxSessions
    BY <2>1, BoundAssumption DEF TypeOK
  <2> QED
    BY <2>1, <2>2, QuietType DEF TypeOK, Request
<1>3. ASSUME NEW s \in Session, NEW q \in AnyRequest, OnReceive(s, q)
      PROVE  TypeOK' /\ UNCHANGED quietVars /\ up' = up
  <2>1. /\ UNCHANGED quietVars /\ up' = up /\ sessions' = sessions
        /\ queue' = Append(queue, [session |-> s, id |-> q.id, arg |-> q.arg])
    BY <1>3 DEF OnReceive, quietVars
  <2>2. [session |-> s, id |-> q.id, arg |-> q.arg] \in Request
    BY DEF AnyRequest, Request
  <2>3. queue \in Seq(Request)
    BY DEF TypeOK, Request
  <2>4. queue' \in Seq(Request)
    BY <2>1, <2>2, <2>3
  <2> QED
    BY <2>1, <2>4, QuietType DEF TypeOK
<1>4. CASE UNCHANGED vars
  BY <1>4, QuietType DEF vars, quietVars, TypeOK, Request
<1> QED
  BY <1>1, <1>2, <1>3, <1>4 DEF QuietStep

LEMMA NextIsAny == [Next]_vars => [AnyNext]_vars
  BY RequestAssumption DEF Next, AnyNext, AnyRequest

(* Every step is quiet or one of the six handlers that touch the game. *)
LEMMA NextCases ==
  ASSUME [AnyNext]_vars
  PROVE  \/ QuietStep
         \/ ReqRoomCreate \/ ReqRoomEnter \/ ReqRoomLeave
         \/ ReqGameStart \/ ReqGameStop \/ ReqFallingBlock
  BY DEF AnyNext, PacketThread, QuietStep

LEMMA NextType == TypeOK /\ [AnyNext]_vars => TypeOK'
  BY NextCases, QuietStepType, CreateType, EnterType, LeaveType, StartType, StopType, BlockType

(***************************************************************************)
(* Every table keeps its shape (TypeOK), whatever clients ask for: room    *)
(* indices stay below the next one, lists hold sessions, and what is dealt *)
(* is made of shapes, never of the NONE of an empty response.              *)
(***************************************************************************)
THEOREM TypeCorrect == Spec => []TypeOK
  BY InitType, NextType, NextIsAny, PTL DEF Spec

-----------------------------------------------------------------------------
(* The conjuncts below need one another: each is kept by a step only because *)
(* the players of a room are listed in it, and the lists are well-formed.    *)
IInv ==
  /\ TypeOK
  /\ PlayerIsInItsRoom
  /\ NeverOverfull
  /\ EmptyRoomIsFresh
  /\ MutualIntroduction
  /\ FaultOnlyRoomless
  /\ DealtIsPrefix

(* A room that exists has an index and a list of sessions. *)
LEMMA RoomFacts ==
  TypeOK => \A r \in rooms : r \in RoomId /\ r # 0 /\ players[r] \in Seq(Session)
  BY DEF TypeOK, RoomId

(* ReqRoomCreate, as it acts on the tables of rooms. *)
LEMMA CreateFacts ==
  ASSUME TypeOK, ReqRoomCreate
  PROVE  /\ nextRoom \notin RoomId /\ rooms' = rooms \cup {nextRoom}
         /\ players'[nextRoom] = <<>>
         /\ \A r \in RoomId : players'[r] = players[r] /\ fallingBlocks'[r] = fallingBlocks[r]
         /\ up' = up /\ up
         /\ UNCHANGED <<playerVars, history>>
<1>1. nextRoom \in Nat \ {0} /\ nextRoom \notin RoomId
  BY DEF TypeOK, RoomId
<1>2. players'[nextRoom] = <<>> /\ \A r \in RoomId : players'[r] = players[r]
  <2>1. <<>> \in Seq(Session) /\ players \in [1 .. nextRoom - 1 -> Seq(Session)]
    BY DEF TypeOK, RoomId
  <2> QED
    BY <1>1, <2>1, GrowFacts DEF ReqRoomCreate, RoomId
<1>3. \A r \in RoomId : fallingBlocks'[r] = fallingBlocks[r]
  <2>1. <<>> \in Seq(Shape) /\ fallingBlocks \in [1 .. nextRoom - 1 -> Seq(Shape)]
    BY DEF TypeOK, RoomId
  <2> QED
    BY <1>1, <2>1, GrowFacts DEF ReqRoomCreate, RoomId
<1> QED
  BY <1>1, <1>2, <1>3 DEF ReqRoomCreate, Served, Serving

(* ReqRoomEnter either leaves the lists alone or adds its sender to a room. *)
LEMMA EnterFacts ==
  ASSUME TypeOK, ReqRoomEnter
  PROVE  /\ up' = up /\ up
         /\ UNCHANGED <<fallingBlockIndex, rooms, fallingBlocks>>
         /\ \/ UNCHANGED <<roomOf, players, history>>
            \/ \E r \in rooms, s \in Session :
                 /\ r \in RoomId /\ r # 0 /\ ~IsFull(r) /\ players[r] \in Seq(Session)
                 /\ AddPlayer(r, s)
<1>1. req \in Request
  BY ServedType DEF ReqRoomEnter, Serving
<1>2. req.session \in Session
  BY <1>1 DEF Request
<1>3. \A r \in rooms : r \in RoomId /\ r # 0 /\ players[r] \in Seq(Session)
  BY RoomFacts
<1>4. up' = up /\ up /\ UNCHANGED <<fallingBlockIndex, rooms, fallingBlocks>>
  BY DEF ReqRoomEnter, Served, Serving
<1>5. \/ UNCHANGED <<roomOf, players, history>>
      \/ req.arg \in rooms /\ ~IsFull(req.arg) /\ AddPlayer(req.arg, req.session)
  BY DEF ReqRoomEnter
<1> QED
  BY <1>2, <1>3, <1>4, <1>5

(* ReqRoomLeave either does nothing or takes one entry off its sender's room. *)
LEMMA LeaveFacts ==
  ASSUME TypeOK, PlayerIsInItsRoom, ReqRoomLeave
  PROVE  /\ up' = up /\ up
         /\ UNCHANGED <<fallingBlockIndex, met, entered>>
         /\ \/ UNCHANGED <<roomOf, rooms, players, fallingBlocks, game, dealt>>
            \/ \E s \in Session, r \in rooms, left \in Seq(Session) :
                 /\ r \in RoomId /\ r # 0 /\ roomOf[s] = r
                 /\ players[r] \in Seq(Session)
                 /\ Len(left) = Len(players[r]) - 1
                 /\ \A t \in Members(r) \ {s} : \E j \in DOMAIN left : left[j] = t
                 /\ roomOf' = [roomOf EXCEPT ![s] = 0]
                 /\ game' = [game EXCEPT ![s] = 0]
                 /\ dealt' = [dealt EXCEPT ![s] = <<>>]
                 /\ rooms' = rooms \ Closed(r, left)
                 /\ players' = [players EXCEPT ![r] = left]
                 /\ fallingBlocks' = [fallingBlocks EXCEPT ![r] = IF r \in rooms' THEN @ ELSE <<>>]
<1> DEFINE s    == req.session
           r    == roomOf[s]
           left == WithoutFirst(players[r], s)
<1>1. req \in Request
  BY ServedType DEF ReqRoomLeave, Serving
<1>2. s \in Session
  BY <1>1 DEF Request
<1>3. up' = up /\ up /\ UNCHANGED <<fallingBlockIndex, met, entered>>
  BY DEF ReqRoomLeave, Served, Serving
<1>4. CASE r \notin rooms
  BY <1>3, <1>4 DEF ReqRoomLeave
<1>5. CASE r \in rooms
  <2>1. r \in RoomId /\ r # 0 /\ players[r] \in Seq(Session)
    BY <1>5, RoomFacts
  <2>2. s \in Members(r)
    BY <1>2, <2>1 DEF PlayerIsInItsRoom
  <2>3. PICK k \in DOMAIN players[r] : players[r][k] = s
    BY <2>2 DEF Members
  <2>4. /\ left \in Seq(Session) /\ Len(left) = Len(players[r]) - 1
        /\ \A i \in DOMAIN players[r] : players[r][i] # s =>
             \E j \in DOMAIN left : left[j] = players[r][i]
    BY <1>2, <2>1, <2>3, WithoutFirstFacts
  <2>5. \A t \in Members(r) \ {s} : \E j \in DOMAIN left : left[j] = t
    BY <2>4, Zenon DEF Members
  <2>6. /\ roomOf' = [roomOf EXCEPT ![s] = 0]
        /\ game' = [game EXCEPT ![s] = 0]
        /\ dealt' = [dealt EXCEPT ![s] = <<>>]
        /\ rooms' = rooms \ Closed(r, left)
        /\ players' = [players EXCEPT ![r] = left]
        /\ fallingBlocks' = [fallingBlocks EXCEPT ![r] = IF r \in rooms' THEN @ ELSE <<>>]
    BY <1>5, <2>2 DEF ReqRoomLeave
  <2> HIDE DEF left
  <2> QED
    BY <1>2, <1>3, <1>5, <2>1, <2>4, <2>5, <2>6
<1> QED
  BY <1>4, <1>5

(* A step that touches neither roomOf nor the rooms and their lists. *)
LEMMA SameRooms ==
  ASSUME UNCHANGED <<roomOf, rooms, players>>
  PROVE  /\ PlayerIsInItsRoom => PlayerIsInItsRoom'
         /\ NeverOverfull => NeverOverfull'
         /\ EmptyRoomIsFresh /\ entered' = entered => EmptyRoomIsFresh'
         /\ MutualIntroduction /\ met' = met => MutualIntroduction'
  BY DEF PlayerIsInItsRoom, NeverOverfull, EmptyRoomIsFresh, MutualIntroduction, Members

(* The steps that leave the rooms and their lists alone. *)
LEMMA RoomlessStep ==
  ASSUME TypeOK, QuietStep \/ ReqGameStart \/ ReqGameStop \/ ReqFallingBlock
  PROVE  UNCHANGED <<roomOf, rooms, players, met, entered>>
<1>1. CASE QuietStep
  BY <1>1, QuietStepType DEF quietVars, playerVars, roomVars, history
<1>2. CASE ReqGameStart
  BY <1>2 DEF ReqGameStart, Fault, playerVars, roomVars, history
<1>3. CASE ReqGameStop
  BY <1>3 DEF ReqGameStop, Fault, playerVars, roomVars, history
<1>4. CASE ReqFallingBlock
  BY <1>4 DEF ReqFallingBlock
<1> QED
  BY <1>1, <1>2, <1>3, <1>4

(* No departure and no room removal strands a player. *)
LEMMA InRoomNext == TypeOK /\ PlayerIsInItsRoom /\ [AnyNext]_vars => PlayerIsInItsRoom'
<1> SUFFICES ASSUME TypeOK, PlayerIsInItsRoom, [AnyNext]_vars PROVE PlayerIsInItsRoom'
  OBVIOUS
<1>1. CASE QuietStep \/ ReqGameStart \/ ReqGameStop \/ ReqFallingBlock
  BY <1>1, RoomlessStep, SameRooms
<1>2. CASE ReqRoomCreate
  <2>1. /\ rooms \subseteq rooms' /\ roomOf' = roomOf
        /\ \A r \in RoomId : players'[r] = players[r]
    BY <1>2, CreateFacts DEF playerVars
  <2>2. \A r \in rooms : Members(r)' = Members(r)
    BY <2>1, RoomFacts DEF Members
  <2> QED
    BY <2>1, <2>2 DEF PlayerIsInItsRoom
<1>3. CASE ReqRoomEnter
  <2>1. CASE UNCHANGED <<roomOf, players, history>>
    BY <1>3, <2>1, EnterFacts, SameRooms
  <2>2. ASSUME NEW r \in rooms, NEW s \in Session, r \in RoomId,
               players[r] \in Seq(Session), AddPlayer(r, s)
        PROVE  PlayerIsInItsRoom'
    <3>1. /\ roomOf' = [roomOf EXCEPT ![s] = r] /\ rooms' = rooms
          /\ players' = [players EXCEPT ![r] = Append(@, s)]
      BY <1>3, <2>2, EnterFacts DEF AddPlayer
    <3>2. /\ players'[r] = Append(players[r], s)
          /\ \A q \in RoomId : q # r => players'[q] = players[q]
      BY <2>2, <3>1 DEF TypeOK
    <3>3. s \in Members(r)' /\ Members(r) \subseteq Members(r)'
      BY <2>2, <3>2 DEF Members
    <3>4. \A q \in RoomId : q # r => Members(q)' = Members(q)
      BY <3>2 DEF Members
    <3>5. rooms \subseteq RoomId /\ roomOf \in [Session -> Nat]
      BY DEF TypeOK
    <3> QED
      BY <3>1, <3>3, <3>4, <3>5 DEF PlayerIsInItsRoom
  <2> QED
    BY <1>3, <2>1, <2>2, EnterFacts
<1>4. CASE ReqRoomLeave
  <2>1. CASE UNCHANGED <<roomOf, rooms, players>>
    BY <2>1, SameRooms
  <2>2. ASSUME NEW s \in Session, NEW r \in rooms, NEW left \in Seq(Session),
               r \in RoomId,
               \A t \in Members(r) \ {s} : \E j \in DOMAIN left : left[j] = t,
               roomOf' = [roomOf EXCEPT ![s] = 0],
               rooms' = rooms \ Closed(r, left),
               players' = [players EXCEPT ![r] = left]
        PROVE  PlayerIsInItsRoom'
    <3>1. /\ players'[r] = left
          /\ \A q \in RoomId : q # r => players'[q] = players[q]
      BY <2>2 DEF TypeOK
    <3>2. Members(r) \ {s} \subseteq Members(r)'
      BY <2>2, <3>1 DEF Members
    <3>3. \A q \in RoomId : q # r => Members(q)' = Members(q)
      BY <3>1 DEF Members
    <3>4. \A q \in rooms : q # r => q \in rooms'
      BY <2>2 DEF Closed
    <3>5. ASSUME NEW t \in Members(r) \ {s} PROVE r \in rooms'
      <4>1. left # <<>>
        BY <2>2, <3>5
      <4> QED
        BY <2>2, <4>1 DEF Closed
    <3>6. rooms \subseteq RoomId /\ roomOf \in [Session -> Nat]
      BY DEF TypeOK
    <3> QED
      BY <2>2, <3>2, <3>3, <3>4, <3>5, <3>6 DEF PlayerIsInItsRoom
  <2> QED
    BY <1>4, <2>1, <2>2, LeaveFacts
<1> QED
  BY <1>1, <1>2, <1>3, <1>4, NextCases

(* Entry is refused at the limit, and a room is gone with its last player. *)
LEMMA SeatsNext ==
  TypeOK /\ PlayerIsInItsRoom /\ NeverOverfull /\ EmptyRoomIsFresh /\ [AnyNext]_vars
    => NeverOverfull' /\ EmptyRoomIsFresh'
<1> SUFFICES ASSUME TypeOK, PlayerIsInItsRoom, NeverOverfull, EmptyRoomIsFresh, [AnyNext]_vars
             PROVE  NeverOverfull' /\ EmptyRoomIsFresh'
  OBVIOUS
<1>1. CASE QuietStep \/ ReqGameStart \/ ReqGameStop \/ ReqFallingBlock
  BY <1>1, RoomlessStep, SameRooms
<1>2. CASE ReqRoomCreate
  <2>1. /\ rooms' = rooms \cup {nextRoom} /\ entered' = entered
        /\ players'[nextRoom] = <<>> /\ nextRoom \notin RoomId
        /\ \A r \in rooms : players'[r] = players[r]
    BY <1>2, CreateFacts, RoomFacts DEF history
  <2>2. nextRoom \notin entered
    BY <2>1 DEF TypeOK
  <2>3. NeverOverfull'
    <3>1. Len(<<>>) <= ROOM_MAX_PLAYER
      BY BoundAssumption
    <3> QED
      BY <2>1, <3>1 DEF NeverOverfull
  <2>4. EmptyRoomIsFresh'
    BY <2>1, <2>2 DEF EmptyRoomIsFresh
  <2> QED
    BY <2>3, <2>4
<1>3. CASE ReqRoomEnter
  <2>1. CASE UNCHANGED <<roomOf, players, history>>
    BY <1>3, <2>1, EnterFacts, SameRooms DEF history
  <2>2. ASSUME NEW r \in rooms, NEW s \in Session, r \in RoomId, ~IsFull(r),
               players[r] \in Seq(Session), AddPlayer(r, s)
        PROVE  NeverOverfull' /\ EmptyRoomIsFresh'
    <3>1. rooms' = rooms /\ entered' = entered \cup {r}
      BY <1>3, <2>2, EnterFacts DEF AddPlayer
    <3>2. /\ players'[r] = Append(players[r], s)
          /\ \A q \in rooms : q # r => players'[q] = players[q]
      BY <2>2 DEF TypeOK, AddPlayer
    <3>3. Len(players'[r]) <= ROOM_MAX_PLAYER /\ players'[r] # <<>>
      BY <2>2, <3>2, BoundAssumption DEF IsFull
    <3> QED
      BY <3>1, <3>2, <3>3 DEF NeverOverfull, EmptyRoomIsFresh
  <2> QED
    BY <1>3, <2>1, <2>2, EnterFacts
<1>4. CASE ReqRoomLeave
  <2>1. CASE UNCHANGED <<roomOf, rooms, players>>
    BY <1>4, <2>1, LeaveFacts, SameRooms
  <2>2. ASSUME NEW r \in rooms, NEW left \in Seq(Session), r \in RoomId,
               players[r] \in Seq(Session),
               Len(left) = Len(players[r]) - 1,
               rooms' = rooms \ Closed(r, left),
               players' = [players EXCEPT ![r] = left]
        PROVE  NeverOverfull' /\ EmptyRoomIsFresh'
    <3>1. /\ players'[r] = left /\ rooms' \subseteq rooms /\ entered' = entered
          /\ \A q \in rooms : q # r => players'[q] = players[q]
      BY <1>4, <2>2, LeaveFacts DEF TypeOK
    <3>2. Len(left) <= ROOM_MAX_PLAYER
      BY <2>2, BoundAssumption DEF NeverOverfull
    <3>3. left = <<>> => r \notin rooms'
      BY <2>2 DEF Closed
    <3> QED
      BY <3>1, <3>2, <3>3 DEF NeverOverfull, EmptyRoomIsFresh
  <2> QED
    BY <1>4, <2>1, <2>2, LeaveFacts
<1> QED
  BY <1>1, <1>2, <1>3, <1>4, NextCases

(* Room::AddPlayer tells s of everybody listed, and everybody listed of s. *)
LEMMA HeardFacts ==
  ASSUME NEW r, NEW s \in Session, players[r] \in Seq(Session), NEW t \in Members(r)
  PROVE  t \in Heard(r, s, s) /\ s \in Heard(r, s, t)
<1> DEFINE n == Len(players[r])
<1>1. PICK k \in 1 .. n : players[r][k] = t
  BY DEF Members
<1>2. n \in Nat /\ k \in Nat
  BY <1>1
<1>3. /\ 2 * k - 1 \in 1 .. 2 * n /\ 2 * k \in 1 .. 2 * n
      /\ (2 * k - 1) % 2 = 1 /\ (2 * k) % 2 = 0
      /\ ((2 * k - 1) + 1) \div 2 = k /\ (2 * k + 1) \div 2 = k
  BY <1>1, <1>2
<1>4. Introductions(r, s)[2 * k - 1] = Notify(t, "ROOM_ENTER", <<s>>)
  BY <1>1, <1>3 DEF Introductions
<1>5. Introductions(r, s)[2 * k] = Notify(s, "ROOM_ENTER", <<t>>)
  BY <1>1, <1>3 DEF Introductions
<1>6. DOMAIN Introductions(r, s) = 1 .. 2 * n
  BY DEF Introductions
<1>7. s \in Heard(r, s, t)
  BY <1>3, <1>4, <1>6 DEF Heard, Notify
<1>8. t \in Heard(r, s, s)
  BY <1>3, <1>5, <1>6 DEF Heard, Notify
<1> QED
  BY <1>7, <1>8

(* Whoever enters a room is introduced both ways to all who are in it. *)
LEMMA MetNext ==
  TypeOK /\ PlayerIsInItsRoom /\ MutualIntroduction /\ [AnyNext]_vars => MutualIntroduction'
<1> SUFFICES ASSUME TypeOK, PlayerIsInItsRoom, MutualIntroduction, [AnyNext]_vars
             PROVE  MutualIntroduction'
  OBVIOUS
<1>1. CASE QuietStep \/ ReqGameStart \/ ReqGameStop \/ ReqFallingBlock
  BY <1>1, RoomlessStep, SameRooms
<1>2. CASE ReqRoomCreate
  BY <1>2, CreateFacts DEF MutualIntroduction, playerVars, history
<1>3. CASE ReqRoomEnter
  <2>1. CASE UNCHANGED <<roomOf, players, history>>
    BY <1>3, <2>1, EnterFacts, SameRooms DEF history
  <2>2. ASSUME NEW r \in rooms, NEW s \in Session, r # 0,
               players[r] \in Seq(Session), AddPlayer(r, s)
        PROVE  MutualIntroduction'
    <3>1. /\ roomOf' = [roomOf EXCEPT ![s] = r]
          /\ met' = [p \in Session |-> (IF p = s THEN {} ELSE met[p]) \cup Heard(r, s, p)]
          /\ roomOf \in [Session -> Nat]
      BY <2>2 DEF AddPlayer, TypeOK
    <3>2. ASSUME NEW t \in Session, t # s, roomOf[t] = r
          PROVE  t \in met'[s] /\ s \in met'[t]
      <4>1. t \in Members(r)
        BY <2>2, <3>2 DEF PlayerIsInItsRoom
      <4>2. t \in Heard(r, s, s) /\ s \in Heard(r, s, t)
        BY <2>2, <4>1, HeardFacts
      <4> QED
        BY <3>1, <3>2, <4>2
    <3>3. \A p \in Session : p # s => met[p] \subseteq met'[p]
      BY <3>1
    <3>4. ASSUME NEW p \in Session, NEW t \in Session,
                 p # t, roomOf'[p] # 0, roomOf'[p] = roomOf'[t]
          PROVE  t \in met'[p]
      <4>1. CASE p = s
        BY <3>1, <3>2, <3>4, <4>1
      <4>2. CASE t = s
        BY <3>1, <3>2, <3>4, <4>2
      <4>3. CASE p # s /\ t # s
        BY <3>1, <3>3, <3>4, <4>3 DEF MutualIntroduction
      <4> QED
        BY <4>1, <4>2, <4>3
    <3> QED
      BY <3>4 DEF MutualIntroduction
  <2> QED
    BY <1>3, <2>1, <2>2, EnterFacts
<1>4. CASE ReqRoomLeave
  <2>1. CASE UNCHANGED <<roomOf, rooms, players>>
    BY <1>4, <2>1, LeaveFacts, SameRooms
  <2>2. ASSUME NEW s \in Session, roomOf' = [roomOf EXCEPT ![s] = 0]
        PROVE  MutualIntroduction'
    <3>1. met' = met
      BY <1>4, LeaveFacts
    <3> QED
      BY <2>2, <3>1 DEF MutualIntroduction, TypeOK
  <2> QED
    BY <1>4, <2>1, <2>2, LeaveFacts
<1> QED
  BY <1>1, <1>2, <1>3, <1>4, NextCases

(* A step that brings the process down handles the request of the front. *)
LEMMA FaultFacts ==
  ASSUME TypeOK, PlayerIsInItsRoom, queue # <<>>, Fault, roomOf[req.session] \notin rooms
  PROVE  queue' # <<>> /\ roomOf'[Head(queue').session] = 0
<1>1. queue \in Seq(Request)
  BY DEF TypeOK, Request
<1>2. req \in Request /\ req = Head(queue)
  BY <1>1, QueueFacts
<1>3. queue' = queue /\ roomOf' = roomOf
  BY DEF Fault, playerVars
<1>4. roomOf[req.session] = 0
  BY <1>2 DEF PlayerIsInItsRoom, Request
<1> QED
  BY <1>2, <1>3, <1>4

(* Only GAME_START and GAME_STOP dereference a room they have not found. *)
LEMMA FaultNext ==
  TypeOK /\ PlayerIsInItsRoom /\ FaultOnlyRoomless /\ [AnyNext]_vars => FaultOnlyRoomless'
<1> SUFFICES ASSUME TypeOK, PlayerIsInItsRoom, FaultOnlyRoomless, [AnyNext]_vars, ~up'
             PROVE  queue' # <<>> /\ roomOf'[Head(queue').session] = 0
  BY DEF FaultOnlyRoomless
<1>1. CASE ~up
  <2>1. UNCHANGED vars
    BY <1>1 DEF AnyNext, PacketThread, OnConnect, OnReceive, Serving, ReqLogin, ReqRoomCreate,
      ReqRoomList, ReqRoomCanEnter, ReqRoomEnter, ReqRoomLeave, ReqGameStart, ReqGameStop,
      ReqGameInput, ReqFallingBlock
  <2> QED
    BY <1>1, <2>1 DEF FaultOnlyRoomless, vars, playerVars
<1>2. CASE up
  <2>1. ~QuietStep
    BY <1>2, QuietStepType
  <2>2. ~ReqRoomCreate /\ ~ReqRoomEnter /\ ~ReqRoomLeave /\ ~ReqFallingBlock
    BY <1>2 DEF ReqRoomCreate, ReqRoomEnter, ReqRoomLeave, ReqFallingBlock, Served
  <2>3. ReqGameStart \/ ReqGameStop
    BY <2>1, <2>2, NextCases
  <2>4. queue # <<>> /\ Fault /\ roomOf[req.session] \notin rooms
    BY <1>2, <2>3 DEF ReqGameStart, ReqGameStop, Served, Serving
  <2> QED
    BY <2>4, FaultFacts
<1> QED
  BY <1>1, <1>2

(* The blocks d are the first n of the supply b. *)
IsDeal(d, n, b) ==
  Len(d) = n /\ Len(d) <= Len(b) /\ \A i \in 1 .. Len(d) : d[i] = b[i]

(* A deal from a supply is one from any supply that extends it. *)
LEMMA DealGrown ==
  ASSUME NEW d \in Seq(Shape), NEW b \in Seq(Shape), NEW n, IsDeal(d, n, b),
         NEW supply \in Seq(Shape),
         Len(supply) >= Len(b), \A i \in 1 .. Len(b) : supply[i] = b[i]
  PROVE  IsDeal(d, n, supply)
<1>1. Len(d) \in Nat /\ Len(d) = n /\ Len(b) \in Nat /\ Len(d) <= Len(b) /\ Len(supply) \in Nat
  BY DEF IsDeal
<1>2. \A i \in 1 .. Len(d) : d[i] = supply[i]
  BY <1>1 DEF IsDeal
<1> QED
  BY <1>1, <1>2 DEF IsDeal

(* Dealing the next batch of a supply that may have grown. *)
LEMMA DealMore ==
  ASSUME NEW d \in Seq(Shape), NEW b \in Seq(Shape), NEW m \in Nat, IsDeal(d, m, b),
         NEW supply \in Seq(Shape), NEW batch \in Seq(Shape),
         m + BatchSize < Len(supply),
         Len(supply) >= Len(b), \A i \in 1 .. Len(b) : supply[i] = b[i],
         Len(batch) = BatchSize, \A i \in 1 .. BatchSize : batch[i] = supply[m + i]
  PROVE  IsDeal(d \o batch, m + BatchSize, supply)
<1>1. BatchSize \in Nat /\ Len(d) = m /\ Len(b) \in Nat /\ m <= Len(b) /\ Len(supply) \in Nat
  BY BlockAssumption DEF IsDeal
<1>2. IsDeal(d, m, supply)
  BY DealGrown
<1>3. \A i \in 1 .. m : d[i] = supply[i]
  BY <1>1, <1>2 DEF IsDeal
<1>4. Len(d \o batch) = m + BatchSize
  <2>1. Len(d \o batch) = Len(d) + Len(batch)
    BY ConcatProperties, Zenon
  <2> QED
    BY <1>1, <2>1, Zenon
<1>5. ASSUME NEW i \in 1 .. m + BatchSize PROVE (d \o batch)[i] = supply[i]
  <2>1. CASE i <= m
    <3>1. (d \o batch)[i] = d[i] /\ i \in 1 .. m
      BY <1>1, <2>1
    <3> QED
      BY <1>3, <3>1
  <2>2. CASE i > m
    <3>1. i - m \in 1 .. BatchSize /\ m + (i - m) = i
      BY <1>1, <2>2
    <3>2. \A k \in 1 .. Len(batch) : (d \o batch)[Len(d) + k] = batch[k]
      OBVIOUS
    <3>3. (d \o batch)[i] = batch[i - m]
      BY <1>1, <3>1, <3>2
    <3> QED
      BY <3>1, <3>3
  <2> QED
    BY <1>1, <2>1, <2>2
<1> QED
  BY <1>1, <1>4, <1>5 DEF IsDeal

(* A step that leaves a player's deal and its room's blocks alone. *)
LEMMA SameDeal ==
  ASSUME DealtIsPrefix, NEW t \in Session, InGame(t, roomOf[t])',
         roomOf'[t] = roomOf[t], game'[t] = game[t], dealt'[t] = dealt[t],
         fallingBlockIndex'[t] = fallingBlockIndex[t],
         fallingBlocks'[roomOf[t]] = fallingBlocks[roomOf[t]]
  PROVE  IsDeal(dealt'[t], fallingBlockIndex'[t], fallingBlocks'[roomOf'[t]])
<1>1. InGame(t, roomOf[t])
  BY DEF InGame
<1>2. IsDeal(dealt[t], fallingBlockIndex[t], fallingBlocks[roomOf[t]])
  BY <1>1 DEF DealtIsPrefix, IsDeal
<1> QED
  BY <1>2

(* Whoever is in a room is dealt its new game, and nobody else is. *)
LEMMA StartDeal ==
  ASSUME TypeOK, PlayerIsInItsRoom, DealtIsPrefix, ReqGameStart, Served,
         roomOf[req.session] \in rooms, NEW t \in Session, InGame(t, roomOf[t])'
  PROVE  IsDeal(dealt'[t], fallingBlockIndex'[t], fallingBlocks'[roomOf'[t]])
<1> DEFINE s == req.session
           r == roomOf[s]
<1>1. r \in rooms /\ r \in RoomId /\ r # 0
  BY RoomFacts
<1>2. PICK e \in Bags(1 + MissingBags(BagSize, BatchSize)) :
        /\ fallingBlocks' = [fallingBlocks EXCEPT ![r] = e]
        /\ dealt' = [p \in Session |-> IF p \in Reset(r, s) THEN SubSeq(e, 1, BatchSize)
                                       ELSE dealt[p]]
  BY <1>1 DEF ReqGameStart
<1>3. /\ fallingBlockIndex' = [p \in Session |->
            IF p \in Reset(r, s) THEN BatchSize ELSE fallingBlockIndex[p]]
      /\ game' = [p \in Session |-> IF p \in Reset(r, s) THEN r ELSE game[p]]
      /\ roomOf' = roomOf
  BY <1>1 DEF ReqGameStart, Reset
<1>4. CASE roomOf[t] = r
  <2>1. t \in Reset(r, s)
    BY <1>1, <1>4 DEF PlayerIsInItsRoom, Reset
  <2>2. IsDeal(SubSeq(e, 1, BatchSize), BatchSize, e)
    BY StartFacts, BlockAssumption DEF IsDeal
  <2>3. fallingBlocks'[roomOf'[t]] = e
    BY <1>1, <1>2, <1>3, <1>4 DEF TypeOK
  <2> QED
    BY <1>2, <1>3, <2>1, <2>2, <2>3
<1>5. CASE roomOf[t] # r
  <2>1. t \notin Reset(r, s)
    BY <1>3, <1>5 DEF InGame
  <2>2. roomOf[t] # 0 /\ roomOf[t] \in RoomId
    BY <1>3, RoomFacts DEF InGame, PlayerIsInItsRoom
  <2>3. fallingBlocks'[roomOf[t]] = fallingBlocks[roomOf[t]]
    BY <1>2, <1>5, <2>2 DEF TypeOK
  <2> QED
    BY <1>2, <1>3, <2>1, <2>3, SameDeal
<1> QED
  BY <1>4, <1>5

(* A batch extends the prefix of the player that asked, and nobody else's. *)
LEMMA BlockDeal ==
  ASSUME TypeOK, PlayerIsInItsRoom, DealtIsPrefix, ReqFallingBlock,
         roomOf[req.session] \in rooms, NEW t \in Session, InGame(t, roomOf[t])'
  PROVE  IsDeal(dealt'[t], fallingBlockIndex'[t], fallingBlocks'[roomOf'[t]])
<1> DEFINE s == req.session
           r == roomOf[s]
           m == fallingBlockIndex[s]
<1>1. /\ r \in RoomId /\ fallingBlocks[r] \in Seq(Shape)
      /\ fallingBlocks \in [RoomId -> Seq(Shape)] /\ fallingBlockIndex \in [Session -> Nat]
      /\ dealt \in [Session -> Seq(Shape)]
  BY RoomFacts DEF TypeOK
<1>2. UNCHANGED <<roomOf, game>>
  BY DEF ReqFallingBlock
<1>3. PICK supply \in Seq(Shape), batch \in Seq(Shape) :
        /\ m + BatchSize < Len(supply)
        /\ \A i \in 1 .. Len(fallingBlocks[r]) : supply[i] = fallingBlocks[r][i]
        /\ Len(supply) >= Len(fallingBlocks[r])
        /\ Len(batch) = BatchSize
        /\ \A i \in 1 .. BatchSize : batch[i] = supply[m + i]
        /\ fallingBlocks' = [fallingBlocks EXCEPT ![r] = supply]
        /\ dealt' = [dealt EXCEPT ![s] = IF game[s] = r THEN @ \o batch ELSE @]
        /\ fallingBlockIndex' = [fallingBlockIndex EXCEPT ![s] = m + BatchSize]
  BY DealFacts
<1>4. InGame(t, roomOf[t])
  BY <1>2 DEF InGame
<1>5. /\ IsDeal(dealt[t], fallingBlockIndex[t], fallingBlocks[roomOf[t]])
      /\ roomOf[t] \in RoomId
  BY <1>4, RoomFacts DEF DealtIsPrefix, IsDeal, InGame, PlayerIsInItsRoom
<1>6. CASE t = s
  <2>1. IsDeal(dealt[s] \o batch, m + BatchSize, supply)
    BY <1>1, <1>3, <1>5, <1>6, DealMore
  <2>2. game[s] = r /\ dealt'[s] = dealt[s] \o batch
    BY <1>1, <1>3, <1>4, <1>6 DEF InGame
  <2> QED
    BY <1>1, <1>2, <1>3, <1>6, <2>1, <2>2
<1>7. CASE t # s /\ roomOf[t] = r
  <2>1. IsDeal(dealt[t], fallingBlockIndex[t], supply)
    BY <1>1, <1>3, <1>5, <1>7, DealGrown
  <2> QED
    BY <1>1, <1>2, <1>3, <1>7, <2>1
<1>8. CASE t # s /\ roomOf[t] # r
  BY <1>1, <1>2, <1>3, <1>5, <1>8
<1> QED
  BY <1>6, <1>7, <1>8

(* The blocks dealt stay a prefix through requests, restarts and departures. *)
LEMMA DealNext ==
  TypeOK /\ PlayerIsInItsRoom /\ DealtIsPrefix /\ [AnyNext]_vars => DealtIsPrefix'
<1> SUFFICES ASSUME TypeOK, PlayerIsInItsRoom, DealtIsPrefix, [AnyNext]_vars,
                    NEW t \in Session, InGame(t, roomOf[t])'
             PROVE  IsDeal(dealt'[t], fallingBlockIndex'[t], fallingBlocks'[roomOf'[t]])
  BY DEF DealtIsPrefix, IsDeal
<1>1. CASE UNCHANGED <<playerVars, fallingBlocks, history>>
  BY <1>1, SameDeal DEF playerVars, history
<1>2. CASE QuietStep \/ ReqGameStop
  BY <1>1, <1>2, QuietStepType DEF quietVars, roomVars, ReqGameStop, Fault
<1>3. CASE ReqRoomCreate
  <2>1. UNCHANGED <<playerVars, history>>
    BY <1>3, CreateFacts
  <2>2. roomOf[t] # 0 /\ roomOf[t] \in RoomId
    BY <2>1, RoomFacts DEF playerVars, InGame, PlayerIsInItsRoom
  <2> QED
    BY <1>3, <2>1, <2>2, CreateFacts, SameDeal DEF playerVars, history
<1>4. CASE ReqRoomEnter
  <2>1. CASE UNCHANGED <<roomOf, players, history>>
    BY <1>1, <1>4, <2>1, EnterFacts DEF playerVars
  <2>2. ASSUME NEW r \in rooms, NEW s \in Session, AddPlayer(r, s)
        PROVE  IsDeal(dealt'[t], fallingBlockIndex'[t], fallingBlocks'[roomOf'[t]])
    <3>1. UNCHANGED <<fallingBlockIndex, fallingBlocks>>
      BY <1>4, EnterFacts
    <3>2. t # s
      BY <2>2 DEF AddPlayer, InGame, TypeOK
    <3>3. roomOf'[t] = roomOf[t] /\ game'[t] = game[t] /\ dealt'[t] = dealt[t]
      BY <2>2, <3>2 DEF AddPlayer, TypeOK
    <3> QED
      BY <3>1, <3>3, SameDeal
  <2> QED
    BY <1>4, <2>1, <2>2, EnterFacts
<1>5. CASE ReqRoomLeave
  <2>1. CASE UNCHANGED <<roomOf, rooms, players, fallingBlocks, game, dealt>>
    BY <1>5, <2>1, LeaveFacts, SameDeal
  <2>2. ASSUME NEW s \in Session, NEW r \in rooms, NEW left \in Seq(Session),
               r \in RoomId,
               \A p \in Members(r) \ {s} : \E j \in DOMAIN left : left[j] = p,
               roomOf' = [roomOf EXCEPT ![s] = 0],
               game' = [game EXCEPT ![s] = 0],
               dealt' = [dealt EXCEPT ![s] = <<>>],
               rooms' = rooms \ Closed(r, left),
               fallingBlocks' = [fallingBlocks EXCEPT ![r] = IF r \in rooms' THEN @ ELSE <<>>]
        PROVE  IsDeal(dealt'[t], fallingBlockIndex'[t], fallingBlocks'[roomOf'[t]])
    <3>1. t # s
      BY <2>2 DEF InGame, TypeOK
    <3>2. roomOf'[t] = roomOf[t] /\ game'[t] = game[t] /\ dealt'[t] = dealt[t]
      BY <2>2, <3>1 DEF TypeOK
    <3>3. roomOf[t] # 0 /\ roomOf[t] \in RoomId /\ t \in Members(roomOf[t])
      BY <3>2, RoomFacts DEF InGame, PlayerIsInItsRoom
    <3>4. CASE roomOf[t] = r
      <4>1. left # <<>>
        BY <2>2, <3>1, <3>3, <3>4
      <4>2. r \in rooms'
        BY <2>2, <4>1 DEF Closed
      <4>3. fallingBlocks'[r] = fallingBlocks[r]
        BY <2>2, <4>2 DEF TypeOK
      <4> QED
        BY <1>5, <3>2, <3>4, <4>3, LeaveFacts, SameDeal
    <3>5. CASE roomOf[t] # r
      <4>1. fallingBlocks'[roomOf[t]] = fallingBlocks[roomOf[t]]
        BY <2>2, <3>3, <3>5 DEF TypeOK
      <4> QED
        BY <1>5, <3>2, <4>1, LeaveFacts, SameDeal
    <3> QED
      BY <3>4, <3>5
  <2> QED
    BY <1>5, <2>1, <2>2, LeaveFacts
<1>6. CASE ReqGameStart
  <2>1. CASE Fault
    BY <1>1, <2>1 DEF Fault, roomVars
  <2>2. CASE Served /\ roomOf[req.session] \in rooms
    BY <1>6, <2>2, StartDeal
  <2> QED
    BY <1>6, <2>1, <2>2 DEF ReqGameStart
<1>7. CASE ReqFallingBlock
  <2>1. UNCHANGED <<roomOf, game>>
    BY <1>7 DEF ReqFallingBlock
  <2>2. CASE roomOf[req.session] \notin rooms
    <3>1. UNCHANGED <<fallingBlockIndex, fallingBlocks, dealt>>
      BY <1>7, <2>2 DEF ReqFallingBlock
    <3> QED
      BY <2>1, <3>1, SameDeal
  <2>3. CASE roomOf[req.session] \in rooms
    BY <1>7, <2>1, <2>3, BlockDeal
  <2> QED
    BY <2>2, <2>3
<1> QED
  BY <1>2, <1>3, <1>4, <1>5, <1>6, <1>7, NextCases

LEMMA InitIInv == Init => IInv
<1> SUFFICES ASSUME Init PROVE IInv
  OBVIOUS
<1>1. PlayerIsInItsRoom /\ NeverOverfull /\ EmptyRoomIsFresh /\ MutualIntroduction
  BY DEF Init, PlayerIsInItsRoom, NeverOverfull, EmptyRoomIsFresh, MutualIntroduction
<1>2. FaultOnlyRoomless /\ DealtIsPrefix
  BY DEF Init, FaultOnlyRoomless, DealtIsPrefix, InGame
<1> QED
  BY <1>1, <1>2, InitType DEF IInv

LEMMA NextIInv == IInv /\ [AnyNext]_vars => IInv'
  BY NextType, InRoomNext, SeatsNext, MetNext, FaultNext, DealNext DEF IInv

(* The inductive invariant holds of every reachable state of the server. *)
THEOREM Inductive == Spec => []IInv
  BY InitIInv, NextIInv, NextIsAny, PTL DEF Spec

(***************************************************************************)
(* No order of creations, entries and departures strands a player: its     *)
(* roomIndex is 0 or names a room that exists and lists it                 *)
(* (PlayerIsInItsRoom: Room::AddPlayer, RemovePlayer, RemoveRoom).         *)
(***************************************************************************)
THEOREM NobodyStranded == Spec => []PlayerIsInItsRoom
<1>1. IInv => PlayerIsInItsRoom
  BY DEF IInv
<1> QED
  BY <1>1, Inductive, PTL

(***************************************************************************)
(* However many clients race for the last seat, a room stays within its    *)
(* capacity (NeverOverfull, Room::AddPlayer).                              *)
(***************************************************************************)
THEOREM SeatsCorrect == Spec => []NeverOverfull
<1>1. IInv => NeverOverfull
  BY DEF IInv
<1> QED
  BY <1>1, Inductive, PTL

(***************************************************************************)
(* A room that has lost its last player is not listed any more, in every   *)
(* order of departures and double entries (EmptyRoomIsFresh,               *)
(* Room::RemovePlayer and RoomManager::RemoveRoom).                        *)
(***************************************************************************)
THEOREM AbandonedRoomsGo == Spec => []EmptyRoomIsFresh
<1>1. IInv => EmptyRoomIsFresh
  BY DEF IInv
<1> QED
  BY <1>1, Inductive, PTL

(***************************************************************************)
(* Two players of one room have each been told of the other since they     *)
(* came (MutualIntroduction, Room::AddPlayer).                             *)
(***************************************************************************)
THEOREM Introduced == Spec => []MutualIntroduction
<1>1. IInv => MutualIntroduction
  BY DEF IInv
<1> QED
  BY <1>1, Inductive, PTL

(***************************************************************************)
(* The server dies of nothing but a GAME_START or GAME_STOP whose sender   *)
(* is in no room (FaultOnlyRoomless, ReqGameStart and ReqGameStop).        *)
(***************************************************************************)
THEOREM OnlyRoomlessFault == Spec => []FaultOnlyRoomless
<1>1. IInv => FaultOnlyRoomless
  BY DEF IInv
<1> QED
  BY <1>1, Inductive, PTL

(***************************************************************************)
(* Every player of a game has been dealt a prefix of the supply of its     *)
(* room, without a gap and without a repetition, across batches, restarts  *)
(* and departures (DealtIsPrefix, Room::GetFallingBlock).                  *)
(***************************************************************************)
THEOREM DealtInOrder == Spec => []DealtIsPrefix
<1>1. IInv => DealtIsPrefix
  BY DEF IInv
<1> QED
  BY <1>1, Inductive, PTL

(***************************************************************************)
(* The players of a game get the same blocks in the same order, whoever    *)
(* asks first, restarts, leaves or comes back (SamePieces,                 *)
(* Room::GetFallingBlock and Room::GameStart): two prefixes of one         *)
(* sequence agree.                                                         *)
(***************************************************************************)
THEOREM PiecesAgree == Spec => []SamePieces
<1>1. TypeOK /\ DealtIsPrefix => SamePieces
  <2> SUFFICES ASSUME TypeOK, DealtIsPrefix, NEW s \in Session, NEW t \in Session,
                      NEW r \in rooms, InGame(s, r), InGame(t, r),
                      NEW i \in DOMAIN dealt[s] \cap DOMAIN dealt[t]
               PROVE  dealt[s][i] = dealt[t][i]
    BY DEF SamePieces
  <2>1. roomOf[s] = r /\ roomOf[t] = r
    BY DEF InGame
  <2>2. dealt[s] \in Seq(Shape) /\ dealt[t] \in Seq(Shape)
    BY DEF TypeOK
  <2>3. i \in 1 .. Len(dealt[s]) /\ i \in 1 .. Len(dealt[t])
    BY <2>2
  <2> QED
    BY <2>1, <2>3 DEF DealtIsPrefix
<1>2. IInv => SamePieces
  BY <1>1 DEF IInv
<1> QED
  BY <1>2, Inductive, PTL

-----------------------------------------------------------------------------
(* Numbers: a set of them that is not empty has a least one, induction as  *)
(* a fact about sets, and products.                                        *)
LEMMA LeastNumber ==
  ASSUME NEW T, T \subseteq Nat, T # {} PROVE \E x \in T : \A y \in T : x <= y
<1> DEFINE R == OpToRel(<, Nat)
<1>1. IsWellFoundedOn(R, Nat)
  BY NatLessThanWellFounded
<1> HIDE DEF R
<1>2. PICK x \in T : \A y \in T : ~ (<<y, x>> \in R)
  BY <1>1, WFMin
<1>3. ASSUME NEW y \in T PROVE x <= y
  <2>1. x \in Nat /\ y \in Nat /\ <<y, x>> \notin R
    BY <1>2
  <2>2. y < x => <<y, x>> \in R
    BY <2>1 DEF R, OpToRel
  <2> QED
    BY <2>1, <2>2
<1> QED
  BY <1>3

LEMMA SetInduction ==
  ASSUME NEW T, 0 \in T, \A n \in Nat : n \in T => n + 1 \in T
  PROVE  Nat \subseteq T
<1> SUFFICES ASSUME Nat \ T # {} PROVE FALSE
  OBVIOUS
<1>1. PICK x \in Nat \ T : \A y \in Nat \ T : x <= y
  BY LeastNumber
<1>2. x # 0 /\ x - 1 \in Nat /\ ~(x <= x - 1) /\ (x - 1) + 1 = x
  BY <1>1
<1>3. x - 1 \in T
  BY <1>1, <1>2
<1> QED
  BY <1>1, <1>2, <1>3

LEMMA Product ==
  ASSUME NEW a \in Nat, NEW k \in Nat
  PROVE  /\ a * k \in Nat /\ k * a \in Nat
         /\ (k + 1) * a = k * a + a
         /\ a # 0 => k <= k * a
<1>1. a * k \in Nat /\ k * a \in Nat /\ (k + 1) * a = k * a + a
  OBVIOUS
<1>2. ASSUME a # 0 PROVE k <= k * a
  <2>1. a - 1 \in Nat
    BY <1>2
  <2>2. k * (a - 1) \in Nat /\ k * a = k * (a - 1) + k
    BY <2>1
  <2> QED
    BY <1>1, <2>2
<1> QED
  BY <1>1, <1>2

-----------------------------------------------------------------------------
(* The rooms before r in the vector. *)
Before(r) == {q \in rooms : q < r}

LEMMA BeforeFacts ==
  ASSUME TypeOK, NEW r \in rooms
  PROVE  /\ Cardinality(rooms) \in Nat /\ Cardinality(Before(r)) \in Nat
         /\ Cardinality(Before(r)) < Cardinality(rooms)
         /\ \A q \in rooms : r < q => Cardinality(Before(r)) < Cardinality(Before(q))
<1>1. rooms \subseteq 1 .. nextRoom - 1 /\ nextRoom \in Nat
  BY DEF TypeOK, RoomId
<1>2. IsFiniteSet(rooms)
  <2>1. IsFiniteSet(1 .. nextRoom - 1)
    BY <1>1, FS_Interval
  <2> QED
    BY <1>1, <2>1, FS_Subset
<1>3. ASSUME NEW S \in SUBSET rooms, NEW T \in SUBSET S, T # S
      PROVE  Cardinality(T) \in Nat /\ Cardinality(S) \in Nat /\ Cardinality(T) < Cardinality(S)
  <2>1. IsFiniteSet(S)
    BY <1>2, FS_Subset
  <2>2. IsFiniteSet(T) /\ Cardinality(T) <= Cardinality(S) /\ Cardinality(T) # Cardinality(S)
    BY <1>3, <2>1, FS_Subset
  <2>3. Cardinality(T) \in Nat /\ Cardinality(S) \in Nat
    BY <2>1, <2>2, FS_CardinalityType
  <2> QED
    BY <2>2, <2>3
<1>4. r \in Int /\ r \notin Before(r) /\ Before(r) \in SUBSET rooms /\ Before(r) # rooms
  BY <1>1 DEF Before
<1>5. ASSUME NEW q \in rooms, r < q PROVE Cardinality(Before(r)) < Cardinality(Before(q))
  <2>1. \A p \in rooms : p \in Int
    BY <1>1
  <2>2. Before(q) \in SUBSET rooms /\ Before(r) \in SUBSET Before(q)
    BY <1>5, <2>1 DEF Before
  <2>3. r \in Before(q)
    BY <1>5 DEF Before
  <2>4. Before(r) # Before(q)
    BY <1>4, <2>3
  <2> QED
    BY <1>3, <2>2, <2>4
<1>6. rooms \in SUBSET rooms
  OBVIOUS
<1> QED
  BY <1>3, <1>4, <1>5, <1>6

(* The position of a room in the vector finds the room. *)
LEMMA RoomAtPosition ==
  ASSUME TypeOK, NEW r \in rooms PROVE RoomAt(Cardinality(Before(r)) + 1) = r
<1> DEFINE k == Cardinality(Before(r)) + 1
           At(q) == Cardinality({p \in rooms : p < q}) = k - 1
<1>1. Cardinality(Before(r)) \in Nat
  BY BeforeFacts
<1>2. At(r)
  BY <1>1 DEF Before
<1>3. ASSUME NEW q \in rooms, At(q) PROVE q = r
  <2>1. q \in Int /\ r \in Int
    BY DEF TypeOK, RoomId
  <2>2. Cardinality(Before(q)) = Cardinality(Before(r))
    BY <1>1, <1>3 DEF Before
  <2>3. ~(q < r) /\ ~(r < q)
    BY <1>1, <2>2, BeforeFacts
  <2> QED
    BY <2>1, <2>3
<1>4. RoomAt(k) = CHOOSE q \in rooms : At(q)
  BY DEF RoomAt
<1> HIDE DEF At
<1> QED
  BY <1>2, <1>3, <1>4, Zenon

(* The k-th of count entries is on one of the pages.                       *)
LEMMA PageOf ==
  ASSUME NEW count \in Nat, NEW k \in 1 .. count, NEW size \in Nat \ {0}
  PROVE  \E page \in 1 .. count : page * size >= k /\ page * size - size < k
<1> DEFINE T == {p \in Nat : p * size >= k}
<1>1. k \in Nat /\ k >= 1 /\ k <= count
  OBVIOUS
<1>2. k \in T
  BY <1>1, Product
<1>3. PICK page \in T : \A p \in T : page <= p
  BY <1>2, LeastNumber
<1>4. page # 0
  BY <1>1, <1>3
<1>5. page - 1 \in Nat /\ page - 1 \notin T
  BY <1>3, <1>4
<1>6. (page - 1) * size < k
  <2>1. (page - 1) * size \in Nat
    BY <1>5, Product
  <2> QED
    BY <1>1, <1>5, <2>1
<1>7. page * size = (page - 1) * size + size
  <2>1. PICK p \in Nat : p = page - 1
    BY <1>5
  <2>2. (p + 1) * size = p * size + size
    BY Product
  <2>3. page = p + 1
    BY <1>3, <2>1
  <2> QED
    BY <2>1, <2>2, <2>3
<1>8. page \in 1 .. count
  BY <1>1, <1>2, <1>3, <1>4
<1>9. page * size - size < k
  <2>1. (page - 1) * size \in Nat
    BY <1>5, Product
  <2> QED
    BY <1>6, <1>7, <2>1
<1> QED
  BY <1>3, <1>8, <1>9

(***************************************************************************)
(* RoomManager::GetRoomList: for every page size and every number of       *)
(* rooms, created and removed in any order, paging through the list shows  *)
(* every room, though the last page starts in the middle of the one before *)
(* (EveryRoomListed).                                                      *)
(***************************************************************************)
THEOREM PagingShowsAll == Spec => []EveryRoomListed
<1>1. TypeOK => EveryRoomListed
  <2> SUFFICES ASSUME TypeOK, NEW r \in rooms
               PROVE  \E page \in 1 .. Cardinality(rooms) :
                        \E i \in 1 .. ROOM_CNT_PER_PAGE : GetRoomList(page)[i][1] = r
    BY DEF EveryRoomListed
  <2>1. PICK count \in Nat, size \in Nat \ {0}, k \in Nat :
          /\ count = Cardinality(rooms) /\ size = ROOM_CNT_PER_PAGE
          /\ k = Cardinality(Before(r)) + 1
    BY BeforeFacts, BoundAssumption
  <2>2. k \in 1 .. count
    BY <2>1, BeforeFacts
  <2>3. PICK page \in 1 .. count : page * size >= k /\ page * size - size < k
    BY <2>2, PageOf
  <2>4. PICK end : end = IF page * size > count THEN count ELSE page * size
    OBVIOUS
  <2>5. page * size \in Nat
    BY Product
  <2>6. PICK start : start = PageStart(end)
    OBVIOUS
  <2>7. start = IF end < size THEN 0 ELSE end - size
    BY <2>1, <2>6 DEF PageStart
  <2>8. end \in Nat /\ k <= end /\ end - size < k
    BY <2>2, <2>3, <2>4, <2>5
  <2>9. start \in Nat /\ k - start \in 1 .. size /\ start + (k - start) = k
    BY <2>2, <2>7, <2>8
  <2>10. PICK i \in 1 .. size : i = k - start
    BY <2>9
  <2>11. start + i = k /\ start + i <= end
    BY <2>8, <2>9, <2>10
  <2>12. RoomAt(start + i) = r
    BY <2>1, <2>11, RoomAtPosition
  <2>13. GetRoomList(page)[i] = <<r, Len(players[r])>>
    BY <2>1, <2>4, <2>6, <2>10, <2>11, <2>12 DEF GetRoomList
  <2>14. GetRoomList(page)[i][1] = r
    BY <2>13
  <2> QED
    BY <2>1, <2>3, <2>10, <2>14
<1> QED
  BY <1>1, TypeCorrect, PTL

-----------------------------------------------------------------------------
(* Room::GenerateFallingBlocks: a supply of k bags. *)
WholeBags(q, k) ==
  /\ Len(q) = k * BagSize
  /\ \A j \in 0 .. k - 1 : \A x \in Shape : \E i \in 1 .. BagSize : q[j * BagSize + i] = x

InBags(q) == \E k \in Nat : WholeBags(q, k)

(* A batch is a number of bags: 14 blocks, of 7 shapes.                    *)
WholeBatches == \E c \in Nat : BatchSize = c * BagSize

(* Counted in bags: what the rooms have drawn and the players have got.    *)
BagInv ==
  /\ \A r \in RoomId : InBags(fallingBlocks[r])
  /\ \A s \in Session : \E k \in Nat : fallingBlockIndex[s] = k * BagSize

LEMMA Multiples ==
  ASSUME NEW a \in Nat, NEW b \in Nat
  PROVE  /\ a <= b => a * BagSize <= b * BagSize
         /\ a * BagSize <= b * BagSize => a <= b
         /\ (a + b) * BagSize = a * BagSize + b * BagSize
<1>0. BagSize \in Nat /\ BagSize # 0
  BY BlockAssumption
<1>1. \A m, n \in Nat : (m + n) * BagSize = m * BagSize + n * BagSize
  BY <1>0
<1>2. ASSUME a <= b PROVE a * BagSize <= b * BagSize
  <2>1. PICK d \in Nat : d = b - a
    BY <1>2
  <2>2. b = a + d
    BY <2>1
  <2>3. b * BagSize = a * BagSize + d * BagSize
    BY <1>1, <2>2
  <2>4. a * BagSize \in Nat /\ d * BagSize \in Nat
    BY <1>0, Product
  <2> QED
    BY <2>3, <2>4
<1>3. ASSUME ~(a <= b) PROVE ~(a * BagSize <= b * BagSize)
  <2>1. PICK d \in Nat : a = b + d /\ d # 0
    <3>1. a - b \in Nat /\ a = b + (a - b) /\ a - b # 0
      BY <1>3
    <3> QED
      BY <3>1
  <2>2. a * BagSize = b * BagSize + d * BagSize
    BY <1>1, <2>1
  <2>3. b * BagSize \in Nat /\ d * BagSize \in Nat /\ d <= d * BagSize
    BY <1>0, Product
  <2> QED
    BY <2>1, <2>2, <2>3
<1> QED
  BY <1>1, <1>2, <1>3

(* In a bag every shape is there exactly once. *)
LEMMA BagExact ==
  ASSUME NEW g \in [1 .. BagSize -> Shape], \A x \in Shape : \E i \in 1 .. BagSize : g[i] = x,
         NEW i \in 1 .. BagSize, NEW j \in 1 .. BagSize, g[i] = g[j]
  PROVE  i = j
<1>1. g \in Surjection(1 .. BagSize, Shape)
  BY DEF Surjection
<1>2. IsFiniteSet(1 .. BagSize)
  BY FS_Interval, BlockAssumption
<1>3. g \in Injection(1 .. BagSize, Shape)
  BY <1>1, <1>2, FS_SurjSameCardinalityImpliesInj DEF Shape
<1> QED
  BY <1>3 DEF Injection, IsInjective

(* The first k bags of a supply hold every shape k times. *)
LEMMA Tally ==
  ASSUME NEW q \in Seq(Shape), NEW n \in Nat, WholeBags(q, n), NEW x \in Shape,
         NEW k \in 0 .. n
  PROVE  Cardinality({i \in 1 .. k * BagSize : q[i] = x}) = k
<1> DEFINE S(m) == {i \in 1 .. m * BagSize : q[i] = x}
           T == {m \in Nat : m <= n => IsFiniteSet(S(m)) /\ Cardinality(S(m)) = m}
<1>0. BagSize \in Nat /\ BagSize # 0
  BY BlockAssumption
<1>1. 0 \in T
  <2>1. 0 * BagSize = 0
    BY <1>0
  <2>2. S(0) = {}
    BY <2>1
  <2> QED
    BY <2>2, FS_EmptySet
<1>2. ASSUME NEW m \in Nat, m \in T PROVE m + 1 \in T
  <2> SUFFICES ASSUME m + 1 <= n PROVE IsFiniteSet(S(m + 1)) /\ Cardinality(S(m + 1)) = m + 1
    OBVIOUS
  <2>1. IsFiniteSet(S(m)) /\ Cardinality(S(m)) = m
    BY <1>2
  <2>2. PICK a \in Nat : a = m * BagSize
    BY <1>0, Product
  <2>3. (m + 1) * BagSize = a + BagSize
    BY <1>0, <2>2, Product
  <2>4. a + BagSize <= Len(q) /\ Len(q) \in Nat
    <3>1. Len(q) = n * BagSize /\ m + 1 \in Nat
      BY DEF WholeBags
    <3>2. (m + 1) * BagSize <= n * BagSize
      BY Multiples, <3>1
    <3> QED
      BY <2>3, <3>1, <3>2
  <2>5. PICK g : g = [i \in 1 .. BagSize |-> q[a + i]]
    OBVIOUS
  <2>6. g \in [1 .. BagSize -> Shape]
    <3>1. ASSUME NEW i \in 1 .. BagSize PROVE q[a + i] \in Shape
      <4>1. a + i \in 1 .. Len(q)
        BY <1>0, <2>4
      <4> HIDE DEF Shape
      <4> QED
        BY <4>1
    <3> QED
      BY <2>5, <3>1
  <2>7. \A z \in Shape : \E i \in 1 .. BagSize : g[i] = z
    <3>1. m \in 0 .. n - 1
      OBVIOUS
    <3>2. \A z \in Shape : \E i \in 1 .. BagSize : q[m * BagSize + i] = z
      BY <3>1 DEF WholeBags
    <3> QED
      BY <2>2, <2>5, <3>2
  <2>8. PICK i0 \in 1 .. BagSize : g[i0] = x
    BY <2>7
  <2>9. S(m + 1) = S(m) \union {a + i0}
    <3>1. ASSUME NEW i \in S(m + 1) PROVE i \in S(m) \union {a + i0}
      <4>1. i \in 1 .. a + BagSize /\ q[i] = x
        BY <2>3, <3>1
      <4>2. CASE i <= a
        <5>1. i \in 1 .. a
          BY <4>1, <4>2
        <5> QED
          BY <2>2, <4>1, <5>1
      <4>3. CASE ~(i <= a)
        <5>1. PICK l \in 1 .. BagSize : i = a + l
          <6>1. i - a \in 1 .. BagSize /\ i = a + (i - a)
            BY <1>0, <4>1, <4>3
          <6> QED
            BY <6>1
        <5>2. g[l] = g[i0]
          BY <2>5, <2>8, <4>1, <5>1
        <5>3. l = i0
          BY <2>6, <2>7, <5>2, BagExact
        <5> QED
          BY <5>1, <5>3
      <4> QED
        BY <4>2, <4>3
    <3>2. ASSUME NEW i \in S(m) PROVE i \in S(m + 1)
      <4>1. i \in 1 .. a /\ q[i] = x
        BY <2>2, <3>2
      <4>2. i \in 1 .. a + BagSize
        BY <1>0, <4>1
      <4> QED
        BY <2>3, <4>1, <4>2
    <3>3. a + i0 \in S(m + 1)
      <4>1. a + i0 \in 1 .. a + BagSize
        BY <1>0
      <4>2. q[a + i0] = x
        BY <2>5, <2>8
      <4> QED
        BY <2>3, <4>1, <4>2
    <3> HIDE DEF S
    <3> QED
      BY <3>1, <3>2, <3>3
  <2>10. a + i0 \notin S(m)
    <3>1. a + i0 \notin 1 .. a
      OBVIOUS
    <3> QED
      BY <2>2, <3>1
  <2> HIDE DEF S
  <2> QED
    BY <2>1, <2>9, <2>10, FS_AddElement
<1>3. k \in T
  <2> HIDE DEF T
  <2>1. Nat \subseteq T
    BY <1>1, <1>2, SetInduction
  <2> QED
    BY <2>1
<1> QED
  BY <1>3

(* Bags are put behind bags. *)
LEMMA BagsAppend ==
  ASSUME NEW q \in Seq(Shape), NEW k \in Nat, WholeBags(q, k), NEW m \in Nat, NEW e \in Bags(m)
  PROVE  WholeBags(q \o e, k + m)
<1>0. BagSize \in Nat /\ BagSize # 0
  BY BlockAssumption
<1>1. e \in Seq(Shape) /\ Len(e) = m * BagSize
  BY BagsFacts
<1>2. PICK a, b \in Nat : a = k * BagSize /\ b = m * BagSize
  BY <1>0, Product
<1>3. Len(q) = a /\ Len(e) = b /\ (k + m) * BagSize = a + b
  BY <1>1, <1>2, Multiples DEF WholeBags
<1>4. PICK w : w = q \o e
  OBVIOUS
<1>5. /\ Len(w) = a + b
      /\ \A i \in 1 .. a : w[i] = q[i]
      /\ \A i \in 1 .. b : w[a + i] = e[i]
  <2> HIDE DEF Shape
  <2>1. Len(w) = a + b
    <3>1. Len(q \o e) = Len(q) + Len(e)
      BY <1>1
    <3> QED
      BY <1>3, <1>4, <3>1
  <2>2. \A i \in 1 .. a : w[i] = q[i]
    BY <1>1, <1>3, <1>4
  <2>3. \A i \in 1 .. b : w[a + i] = e[i]
    BY <1>1, <1>3, <1>4
  <2> QED
    BY <2>1, <2>2, <2>3
<1>6. ASSUME NEW j \in 0 .. (k + m) - 1, NEW x \in Shape
      PROVE  \E i \in 1 .. BagSize : w[j * BagSize + i] = x
  <2>1. CASE j < k
    <3>1. j \in 0 .. k - 1 /\ j \in Nat /\ j + 1 \in Nat /\ j + 1 <= k
      BY <2>1
    <3>2. PICK i \in 1 .. BagSize : q[j * BagSize + i] = x
      BY <3>1 DEF WholeBags
    <3>3. PICK c \in Nat : c = j * BagSize
      BY <1>0, <3>1, Product
    <3>4. (j + 1) * BagSize = c + BagSize /\ (j + 1) * BagSize <= a
      BY <1>0, <1>2, <3>1, <3>3, Product, Multiples
    <3>5. c + i \in 1 .. a
      BY <1>0, <3>4
    <3> QED
      BY <1>5, <3>2, <3>3, <3>5
  <2>2. CASE ~(j < k)
    <3>1. PICK l \in 0 .. m - 1 : j = k + l /\ l \in Nat /\ l + 1 \in Nat /\ l + 1 <= m
      <4>1. j - k \in 0 .. m - 1 /\ j = k + (j - k)
        BY <2>2
      <4>2. \A l \in 0 .. m - 1 : l \in Nat /\ l + 1 \in Nat /\ l + 1 <= m
        OBVIOUS
      <4> QED
        BY <4>1, <4>2
    <3>2. PICK i \in 1 .. BagSize : e[l * BagSize + i] = x
      BY <3>1 DEF Bags
    <3>3. PICK c \in Nat : c = l * BagSize
      BY <1>0, <3>1, Product
    <3>4. (l + 1) * BagSize = c + BagSize /\ (l + 1) * BagSize <= b
      BY <1>0, <1>2, <3>1, <3>3, Product, Multiples
    <3>5. c + i \in 1 .. b
      BY <1>0, <3>4
    <3>6. j * BagSize = a + c
      BY <1>2, <3>1, <3>3, Multiples
    <3>7. (a + c) + i = a + (c + i)
      OBVIOUS
    <3> QED
      BY <1>5, <3>2, <3>3, <3>5, <3>6, <3>7
  <2> QED
    BY <2>1, <2>2
<1> QED
  BY <1>3, <1>4, <1>5, <1>6 DEF WholeBags

LEMMA BagsAre ==
  /\ InBags(<<>>)
  /\ \A k \in Nat : \A e \in Bags(k) : InBags(e)
<1>1. WholeBags(<<>>, 0)
  BY BlockAssumption DEF WholeBags
<1>2. ASSUME NEW k \in Nat, NEW e \in Bags(k) PROVE WholeBags(e, k)
  BY BagsFacts DEF WholeBags, Bags
<1> QED
  BY <1>1, <1>2 DEF InBags

LEMMA InitBags == Init => BagInv
<1> SUFFICES ASSUME Init PROVE BagInv
  OBVIOUS
<1>1. RoomId = {}
  BY DEF Init, RoomId
<1>2. 0 \in Nat /\ 0 = 0 * BagSize /\ \A s \in Session : fallingBlockIndex[s] = 0
  BY BlockAssumption DEF Init
<1> QED
  BY <1>1, <1>2 DEF BagInv

(* Only ReqGameStart and ReqFallingBlock draw blocks or count them, and    *)
(* both do so in whole bags.                                               *)
LEMMA NextBags ==
  ASSUME WholeBatches, TypeOK, PlayerIsInItsRoom, BagInv, [AnyNext]_vars
  PROVE  BagInv'
<1>0. /\ fallingBlocks \in [RoomId -> Seq(Shape)] /\ fallingBlockIndex \in [Session -> Nat]
      /\ nextRoom \in Nat \ {0}
      /\ \A r \in RoomId : InBags(fallingBlocks[r])
      /\ \A s \in Session : \E k \in Nat : fallingBlockIndex[s] = k * BagSize
  BY DEF TypeOK, BagInv
<1>1. CASE UNCHANGED <<nextRoom, fallingBlocks, fallingBlockIndex>>
  BY <1>1 DEF BagInv, RoomId
<1>2. CASE QuietStep
  BY <1>1, <1>2, QuietStepType DEF quietVars, roomVars, playerVars
<1>3. CASE ReqGameStop
  BY <1>1, <1>3 DEF ReqGameStop, Fault, roomVars, playerVars
<1>4. CASE ReqRoomEnter
  BY <1>1, <1>4 DEF ReqRoomEnter
<1>5. CASE ReqRoomCreate
  <2>1. /\ nextRoom' = nextRoom + 1 /\ fallingBlocks' = Append(fallingBlocks, <<>>)
        /\ fallingBlockIndex' = fallingBlockIndex
    BY <1>5 DEF ReqRoomCreate, playerVars
  <2>2. \A r \in RoomId : fallingBlocks'[r] = fallingBlocks[r]
    BY <1>5, CreateFacts
  <2>3. fallingBlocks'[nextRoom] = <<>>
    <3>1. <<>> \in Seq(Shape) /\ fallingBlocks \in [1 .. nextRoom - 1 -> Seq(Shape)]
      BY <1>0 DEF RoomId
    <3> QED
      BY <1>0, <2>1, <3>1, GrowFacts
  <2>4. ASSUME NEW r \in RoomId' PROVE r \in RoomId \/ r = nextRoom
    BY <1>0, <2>1, <2>4 DEF RoomId
  <2>5. \A r \in RoomId' : InBags(fallingBlocks'[r])
    BY <1>0, <2>2, <2>3, <2>4, BagsAre
  <2> QED
    BY <1>0, <2>1, <2>5 DEF BagInv
<1>6. CASE ReqRoomLeave
  <2>1. nextRoom' = nextRoom /\ fallingBlockIndex' = fallingBlockIndex
    BY <1>6 DEF ReqRoomLeave
  <2>2. ASSUME NEW r \in RoomId,
               fallingBlocks' = [fallingBlocks EXCEPT ![r] = IF r \in rooms' THEN @ ELSE <<>>]
        PROVE  \A t \in RoomId : InBags(fallingBlocks'[t])
    <3>1. \A t \in RoomId : fallingBlocks'[t] = fallingBlocks[t] \/ fallingBlocks'[t] = <<>>
      BY <1>0, <2>2
    <3> QED
      BY <1>0, <3>1, BagsAre
  <2>3. \A t \in RoomId : InBags(fallingBlocks'[t])
    BY <1>0, <1>6, <2>2, LeaveFacts
  <2> QED
    BY <1>0, <2>1, <2>3 DEF BagInv, RoomId
<1>7. CASE ReqGameStart
  <2>1. CASE roomOf[req.session] \notin rooms
    BY <1>1, <1>7, <2>1 DEF ReqGameStart, Fault, roomVars, playerVars
  <2>2. CASE roomOf[req.session] \in rooms
    <3>1. PICK s, r : s = req.session /\ r = roomOf[req.session] /\ r \in RoomId
      BY <2>2, RoomFacts
    <3>2. PICK e \in Bags(1 + MissingBags(BagSize, BatchSize)) :
             fallingBlocks' = [fallingBlocks EXCEPT ![r] = e]
      BY <1>7, <2>2, <3>1 DEF ReqGameStart
    <3>3. /\ fallingBlockIndex' = [p \in Session |->
               IF p \in Reset(r, s) THEN BatchSize ELSE fallingBlockIndex[p]]
          /\ nextRoom' = nextRoom
      BY <1>7, <2>2, <3>1 DEF ReqGameStart
    <3>4. 1 + MissingBags(BagSize, BatchSize) \in Nat
      <4>1. MissingBags(BagSize, BatchSize) \in Nat
        BY MissingBagsFacts, BlockAssumption
      <4> QED
        BY <4>1
    <3>5. InBags(e)
      BY <3>4, BagsAre
    <3>6. \A t \in RoomId : InBags(fallingBlocks'[t])
      BY <1>0, <3>2, <3>5
    <3>7. \A t \in Session : \E k \in Nat : fallingBlockIndex'[t] = k * BagSize
      BY <1>0, <3>3 DEF WholeBatches
    <3> QED
      BY <3>3, <3>6, <3>7 DEF BagInv, RoomId
  <2> QED
    BY <2>1, <2>2
<1>8. CASE ReqFallingBlock
  <2>1. CASE roomOf[req.session] \notin rooms
    BY <1>1, <1>8, <2>1 DEF ReqFallingBlock
  <2>2. CASE roomOf[req.session] \in rooms
    <3>1. PICK s, r, n : /\ s = req.session /\ r = roomOf[req.session] /\ r \in RoomId
                         /\ n = fallingBlockIndex[s] + BatchSize
      BY <2>2, RoomFacts
    <3>2. PICK e \in Bags(MissingBags(Len(fallingBlocks[r]), n)) :
             fallingBlocks' = [fallingBlocks EXCEPT ![r] = fallingBlocks[r] \o e]
      BY <1>8, <2>2, <3>1 DEF ReqFallingBlock
    <3>3. fallingBlockIndex' = [fallingBlockIndex EXCEPT ![s] = n] /\ nextRoom' = nextRoom
      BY <1>8, <2>2, <3>1 DEF ReqFallingBlock
    <3>4. s \in Session
      <4>1. req \in Request
        BY <1>8, ServedType DEF ReqFallingBlock, Serving
      <4> QED
        BY <3>1, <4>1 DEF Request
    <3>5. fallingBlocks[r] \in Seq(Shape) /\ Len(fallingBlocks[r]) \in Nat /\ n \in Nat
      <4>1. fallingBlocks[r] \in Seq(Shape) /\ fallingBlockIndex[s] \in Nat
        BY <1>0, <3>1, <3>4
      <4> QED
        BY <3>1, <4>1, BlockAssumption
    <3>6. MissingBags(Len(fallingBlocks[r]), n) \in Nat
      BY <3>5, MissingBagsFacts
    <3>7. InBags(fallingBlocks[r] \o e)
      <4>1. PICK k \in Nat : WholeBags(fallingBlocks[r], k)
        BY <1>0, <3>1 DEF InBags
      <4>2. PICK m \in Nat : m = MissingBags(Len(fallingBlocks[r]), n)
        BY <3>6
      <4>3. WholeBags(fallingBlocks[r] \o e, k + m) /\ k + m \in Nat
        BY <3>5, <4>1, <4>2, BagsAppend
      <4> QED
        BY <4>3 DEF InBags
    <3>8. \A t \in RoomId : InBags(fallingBlocks'[t])
      BY <1>0, <3>2, <3>7
    <3>9. \E k \in Nat : n = k * BagSize
      <4>1. PICK k \in Nat : fallingBlockIndex[s] = k * BagSize
        BY <1>0, <3>4
      <4>2. PICK c \in Nat : BatchSize = c * BagSize
        BY DEF WholeBatches
      <4>3. n = (k + c) * BagSize /\ k + c \in Nat
        BY <3>1, <4>1, <4>2, Multiples
      <4> QED
        BY <4>3
    <3>10. \A t \in Session : \E k \in Nat : fallingBlockIndex'[t] = k * BagSize
      BY <1>0, <3>3, <3>4, <3>9
    <3> QED
      BY <3>3, <3>8, <3>10 DEF BagInv, RoomId
  <2> QED
    BY <2>1, <2>2
<1> QED
  BY <1>2, <1>3, <1>4, <1>5, <1>6, <1>7, <1>8, NextCases

(***************************************************************************)
(* When a batch is a number of bags, as 14 blocks of 7 shapes are, every   *)
(* player of a game has been dealt each shape equally often (FairDeal),    *)
(* for any number of players and however Room::GetFallingBlock's loop is   *)
(* driven by their requests: the supply is always made of whole bags, and  *)
(* a deal never ends inside one.                                           *)
(***************************************************************************)
THEOREM DealtFairly == ASSUME WholeBatches PROVE Spec => []FairDeal
<1>1. TypeOK /\ PlayerIsInItsRoom /\ DealtIsPrefix /\ BagInv => FairDeal
  <2> SUFFICES ASSUME TypeOK, PlayerIsInItsRoom, DealtIsPrefix, BagInv, NEW s \in Session,
                      InGame(s, roomOf[s]), NEW x \in Shape, NEW y \in Shape
               PROVE  Cardinality({i \in DOMAIN dealt[s] : dealt[s][i] = x})
                        = Cardinality({i \in DOMAIN dealt[s] : dealt[s][i] = y})
    BY DEF FairDeal
  <2>1. PICK d \in Seq(Shape) : d = dealt[s]
    BY DEF TypeOK
  <2>2. roomOf[s] \in RoomId
    BY RoomFacts DEF InGame, PlayerIsInItsRoom
  <2>3. PICK q \in Seq(Shape) : q = fallingBlocks[roomOf[s]]
    BY <2>2 DEF TypeOK
  <2>4. PICK n \in Nat : WholeBags(q, n)
    BY <2>2, <2>3 DEF BagInv, InBags
  <2>5. PICK k \in Nat : fallingBlockIndex[s] = k * BagSize
    BY DEF BagInv
  <2>6. Len(d) = k * BagSize /\ Len(d) <= Len(q) /\ \A i \in 1 .. Len(d) : d[i] = q[i]
    BY <2>1, <2>3, <2>5 DEF DealtIsPrefix
  <2>7. k \in 0 .. n
    <3>1. k * BagSize <= n * BagSize
      BY <2>4, <2>6 DEF WholeBags
    <3>2. k <= n
      BY <3>1, Multiples
    <3> QED
      BY <3>2
  <2>8. DOMAIN d = 1 .. k * BagSize
    BY <2>6
  <2>9. ASSUME NEW z \in Shape PROVE Cardinality({i \in DOMAIN d : d[i] = z}) = k
    <3>1. {i \in DOMAIN d : d[i] = z} = {i \in 1 .. k * BagSize : q[i] = z}
      BY <2>6, <2>8
    <3>2. Cardinality({i \in 1 .. k * BagSize : q[i] = z}) = k
      BY <2>4, <2>7, Tally
    <3> QED
      BY <3>1, <3>2
  <2> QED
    BY <2>1, <2>9
<1>2. IInv /\ BagInv => FairDeal
  BY <1>1 DEF IInv
<1>3. IInv /\ BagInv /\ [AnyNext]_vars => BagInv'
  BY NextBags DEF IInv
<1> QED
  BY <1>2, <1>3, InitBags, Inductive, NextIsAny, PTL DEF Spec
-----------------------------------------------------------------------------
(* What the mapping reads: a step that leaves it alone is a stutter. *)
LEMMA RoomStutter ==
  ASSUME UNCHANGED <<up, nextRoom, rooms, roomOf, players, isPlaying>>
  PROVE  UNCHANGED AsRooms!vars
  BY DEF AsRooms!vars, RoomId

(* CreateRoom opens a room under a number no room has had. *)
LEMMA CreateOpens ==
  ASSUME TypeOK, ReqRoomCreate PROVE AsRooms!Next
<1>1. /\ up /\ up' = up /\ UNCHANGED roomOf
      /\ nextRoom \notin RoomId /\ rooms' = rooms \cup {nextRoom}
      /\ players'[nextRoom] = <<>> /\ \A r \in RoomId : players'[r] = players[r]
  BY CreateFacts DEF playerVars
<1>2. isPlaying'[nextRoom] = FALSE /\ \A r \in RoomId : isPlaying'[r] = isPlaying[r]
  <2>1. isPlaying \in [1 .. nextRoom - 1 -> BOOLEAN] /\ nextRoom \in Nat \ {0}
    BY DEF TypeOK, RoomId
  <2>2. PICK no \in BOOLEAN : no = FALSE
    OBVIOUS
  <2>3. isPlaying' = Append(isPlaying, no)
    BY <2>2 DEF ReqRoomCreate
  <2>4. isPlaying'[nextRoom] = no /\ \A r \in 1 .. nextRoom - 1 : isPlaying'[r] = isPlaying[r]
    BY <2>1, <2>3, GrowFacts
  <2> QED
    BY <2>2, <2>4 DEF RoomId
<1>3. rooms \subseteq RoomId /\ nextRoom \in Nat \ {0}
  BY DEF TypeOK
<1>4. RoomId' = RoomId \cup {nextRoom}
  BY <1>3 DEF RoomId, ReqRoomCreate
<1>5. [r \in rooms |-> Len(players[r])]'
        = [q \in rooms' |-> IF q = nextRoom THEN 0 ELSE [r \in rooms |-> Len(players[r])][q]]
  BY <1>1, <1>3
<1>6. {r \in rooms : isPlaying[r]}' = {r \in rooms : isPlaying[r]}
  BY <1>1, <1>2, <1>3
<1>7. PICK n \in Nat \ {0} : n = nextRoom
  BY <1>3
<1>8. AsRooms!Open(n)
  BY <1>1, <1>4, <1>5, <1>6, <1>7 DEF AsRooms!Open
<1> QED
  BY <1>1, <1>8 DEF AsRooms!Next

(* AddPlayer takes a free seat; an entry refused is invisible. *)
LEMMA EnterSeats ==
  ASSUME TypeOK, ReqRoomEnter PROVE AsRooms!Next \/ UNCHANGED AsRooms!vars
<1>1. UNCHANGED <<up, rooms, nextRoom, isPlaying>> /\ up
  BY EnterFacts DEF ReqRoomEnter, Served, Serving
<1>2. CASE UNCHANGED <<roomOf, players, history>>
  BY <1>1, <1>2, RoomStutter
<1>3. ASSUME NEW r \in rooms, NEW s \in Session, r \in RoomId, ~IsFull(r),
             players[r] \in Seq(Session), AddPlayer(r, s)
      PROVE  AsRooms!Next
  <2>1. /\ roomOf' = [roomOf EXCEPT ![s] = r]
        /\ players' = [players EXCEPT ![r] = Append(@, s)]
    BY <1>3 DEF AddPlayer
  <2>2. players \in [RoomId -> Seq(Session)] /\ rooms \subseteq RoomId
    BY DEF TypeOK
  <2>3. Len(players'[r]) = Len(players[r]) + 1 /\ \A q \in RoomId \ {r} : players'[q] = players[q]
    BY <1>3, <2>1, <2>2
  <2>4. [q \in rooms |-> Len(players[q])]'
          = [[q \in rooms |-> Len(players[q])] EXCEPT ![r] = @ + 1]
    BY <1>1, <2>2, <2>3
  <2>5. [q \in rooms |-> Len(players[q])][r] < ROOM_MAX_PLAYER
    BY <1>3, BoundAssumption DEF IsFull
  <2>6. UNCHANGED <<RoomId, {q \in rooms : isPlaying[q]}, ~up>>
    BY <1>1 DEF RoomId
  <2>7. AsRooms!Enter(s, r)
    BY <1>1, <2>1, <2>4, <2>5, <2>6 DEF AsRooms!Enter
  <2> QED
    BY <1>1, <2>7 DEF AsRooms!Next
<1> QED
  BY <1>2, <1>3, EnterFacts

(* RemovePlayer frees a seat, and RemoveRoom closes the room with its last one. *)
LEMMA LeaveFrees ==
  ASSUME TypeOK, PlayerIsInItsRoom, ReqRoomLeave PROVE AsRooms!Next \/ UNCHANGED AsRooms!vars
<1>1. UNCHANGED <<up, nextRoom>> /\ up
  BY LeaveFacts DEF ReqRoomLeave, Served, Serving
<1>2. PICK c \in Session, r \in Nat : c = req.session /\ r = roomOf[c]
  <2>1. req \in Request
    BY ServedType DEF ReqRoomLeave, Serving
  <2>2. req.session \in Session /\ roomOf \in [Session -> Nat]
    BY <2>1 DEF Request, TypeOK
  <2> QED
    BY <2>2
<1>3. CASE r \notin rooms
  <2>1. UNCHANGED <<roomOf, rooms, players, isPlaying>>
    BY <1>2, <1>3 DEF ReqRoomLeave
  <2> QED
    BY <1>1, <2>1, RoomStutter
<1>4. CASE r \in rooms
  <2> DEFINE left == WithoutFirst(players[r], c)
  <2>1. r \in RoomId /\ r # 0 /\ players[r] \in Seq(Session)
    BY <1>4, RoomFacts
  <2>2. c \in Members(r)
    BY <1>2, <2>1 DEF PlayerIsInItsRoom
  <2>3. PICK k \in DOMAIN players[r] : players[r][k] = c
    BY <2>2 DEF Members
  <2>4. left \in Seq(Session) /\ Len(left) = Len(players[r]) - 1
    BY <1>2, <2>1, <2>3, WithoutFirstFacts
  <2>5. /\ roomOf' = [roomOf EXCEPT ![c] = 0]
        /\ rooms' = rooms \ Closed(r, left)
        /\ players' = [players EXCEPT ![r] = left]
        /\ isPlaying' = [isPlaying EXCEPT ![r] = @ /\ r \in rooms']
    BY <1>2, <1>4, <2>2 DEF ReqRoomLeave
  <2> HIDE DEF left
  <2>6. rooms' = IF Len(players[r]) = 1 THEN rooms \ {r} ELSE rooms
    <3>1. left = <<>> <=> Len(left) = 0
      BY <2>4, EmptySeq
    <3>2. Len(left) = 0 <=> Len(players[r]) = 1
      BY <2>1, <2>4
    <3> QED
      BY <2>5, <3>1, <3>2 DEF Closed
  <2>7. /\ players \in [RoomId -> Seq(Session)] /\ rooms \subseteq RoomId
        /\ isPlaying \in [RoomId -> BOOLEAN]
    BY DEF TypeOK
  <2>8. /\ players'[r] = left /\ \A q \in RoomId \ {r} : players'[q] = players[q]
        /\ \A q \in RoomId \ {r} : isPlaying'[q] = isPlaying[q]
        /\ isPlaying'[r] = (isPlaying[r] /\ r \in rooms')
    BY <2>1, <2>5, <2>7
  <2> DEFINE seats == [q \in rooms |-> Len(players[q])]
  <2>9. seats[r] = Len(players[r])
    BY <1>4
  <2>10. seats' = [q \in rooms' |-> IF q = r THEN seats[r] - 1 ELSE seats[q]]
    <3>1. ASSUME NEW q \in rooms'
          PROVE  Len(players'[q]) = IF q = r THEN seats[r] - 1 ELSE seats[q]
      BY <2>4, <2>6, <2>7, <2>8, <2>9, <3>1
    <3> QED
      BY <3>1
  <2>11. {q \in rooms : isPlaying[q]}' = {q \in rooms : isPlaying[q]} \cap rooms'
    BY <2>6, <2>7, <2>8
  <2>12. UNCHANGED <<RoomId, ~up>>
    BY <1>1 DEF RoomId
  <2>13. rooms' = IF seats[r] = 1 THEN rooms \ {r} ELSE rooms
    BY <2>6, <2>9
  <2>14. AsRooms!Leave(c, r)
    BY <1>2, <2>5, <2>10, <2>11, <2>12, <2>13 DEF AsRooms!Leave
  <2> QED
    BY <1>1, <1>2, <1>4, <2>14 DEF AsRooms!Next
<1> QED
  BY <1>3, <1>4

(* The null dereference is the doing of a client in no room. *)
LEMMA CrashRoomless ==
  ASSUME TypeOK, PlayerIsInItsRoom, up, Fault, NEW c \in Session, roomOf[c] \notin rooms
  PROVE  AsRooms!Next
<1>1. roomOf[c] = 0
  BY DEF PlayerIsInItsRoom
<1>2. UNCHANGED <<nextRoom, rooms, roomOf, players, isPlaying>> /\ up' = FALSE
  BY DEF Fault, playerVars, roomVars
<1>3. AsRooms!Crash(c)
  BY <1>1, <1>2 DEF AsRooms!Crash, RoomId
<1> QED
  BY <1>3 DEF AsRooms!Next

(* Room::GameStart and Room::GameStop act on the room of the client that asks. *)
LEMMA GameSwitches ==
  ASSUME TypeOK, PlayerIsInItsRoom, ReqGameStart \/ ReqGameStop PROVE AsRooms!Next
<1>0. up /\ queue # <<>>
  BY DEF ReqGameStart, ReqGameStop, Serving
<1>1. PICK c \in Session, r \in Nat : c = req.session /\ r = roomOf[c]
  <2>1. req \in Request
    BY <1>0, QueueFacts DEF TypeOK, Request
  <2>2. req.session \in Session /\ roomOf \in [Session -> Nat]
    BY <2>1 DEF Request, TypeOK
  <2> QED
    BY <2>2
<1>2. CASE r \notin rooms
  <2>1. Fault
    BY <1>1, <1>2 DEF ReqGameStart, ReqGameStop
  <2> QED
    BY <1>1, <1>0, <1>2, <2>1, CrashRoomless
<1>3. CASE r \in rooms
  <2>1. isPlaying \in [RoomId -> BOOLEAN] /\ rooms \subseteq RoomId
    BY DEF TypeOK
  <2>2. UNCHANGED <<up, nextRoom, rooms, roomOf, players>>
    BY <1>1, <1>3 DEF ReqGameStart, ReqGameStop, Served, playerVars
  <2>3. UNCHANGED <<rooms, RoomId, [q \in rooms |-> Len(players[q])], roomOf, ~up>>
    BY <2>2 DEF RoomId
  <2>4. CASE ReqGameStart
    <3>1. isPlaying' = [isPlaying EXCEPT ![r] = TRUE]
      BY <1>1, <1>3, <2>4 DEF ReqGameStart
    <3>2. {q \in rooms : isPlaying[q]}' = {q \in rooms : isPlaying[q]} \cup {r}
      BY <1>3, <2>1, <2>2, <3>1
    <3>3. AsRooms!Start(c, r)
      BY <1>1, <2>3, <3>2 DEF AsRooms!Start
    <3> QED
      BY <1>0, <1>3, <3>3 DEF AsRooms!Next
  <2>5. CASE ReqGameStop
    <3>1. isPlaying' = [isPlaying EXCEPT ![r] = FALSE]
      BY <1>1, <1>3, <2>5 DEF ReqGameStop
    <3>2. {q \in rooms : isPlaying[q]}' = {q \in rooms : isPlaying[q]} \ {r}
      BY <1>3, <2>1, <2>2, <3>1
    <3>3. AsRooms!Stop(c, r)
      BY <1>1, <2>3, <3>2 DEF AsRooms!Stop
    <3> QED
      BY <1>0, <1>3, <3>3 DEF AsRooms!Next
  <2> QED
    BY <2>4, <2>5
<1> QED
  BY <1>2, <1>3

(* No room, no seat taken: the server starts as a room service does. *)
LEMMA RoomsAtStart == Init => AsRooms!Init
<1> SUFFICES ASSUME Init PROVE AsRooms!Init
  OBVIOUS
<1>1. /\ rooms = {} /\ RoomId = {} /\ roomOf = [s \in Session |-> 0]
      /\ up = TRUE
  BY DEF Init, RoomId
<1> QED
  BY <1>1 DEF AsRooms!Init

(* Every step of the server is a step of the room service or invisible to it. *)
LEMMA RoomStep ==
  ASSUME IInv, [AnyNext]_vars PROVE [AsRooms!Next]_(AsRooms!vars)
<1>1. TypeOK /\ PlayerIsInItsRoom
  BY DEF IInv
<1>2. CASE QuietStep
  <2>1. UNCHANGED <<up, nextRoom, rooms, roomOf, players, isPlaying>>
    BY <1>1, <1>2, QuietStepType DEF quietVars, playerVars, roomVars
  <2> QED
    BY <2>1, RoomStutter
<1>3. CASE ReqFallingBlock
  <2>1. UNCHANGED <<up, nextRoom, rooms, roomOf, players, isPlaying>>
    BY <1>3 DEF ReqFallingBlock, Served
  <2> QED
    BY <2>1, RoomStutter
<1> QED
  BY <1>1, <1>2, <1>3, NextCases, CreateOpens, EnterSeats, LeaveFrees, GameSwitches

(***************************************************************************)
(* The request handlers, Room and RoomManager, for any number of clients   *)
(* and rooms and any order of their requests, implement a service of       *)
(* rooms: a room number is never given out twice, a seat is taken only     *)
(* while one is free, a room goes with the departure that frees its last   *)
(* seat and never otherwise, a game is started and stopped only from       *)
(* within its room, and only a client in no room can crash the server.     *)
(***************************************************************************)
THEOREM ServerIsRoomService == Spec => AsRooms!Safety
  BY RoomsAtStart, RoomStep, Inductive, NextIsAny, PTL DEF Spec, AsRooms!Safety
=============================================================================
