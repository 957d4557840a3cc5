----------------------------- MODULE GameServer -----------------------------
(***************************************************************************)
(* The game side of the server: the player, session and room tables and    *)
(* the ten request handlers that PacketManager::PacketThread runs one at a *)
(* time over the queue the worker threads fill.  Clients are arbitrary: a  *)
(* connected client may send any request at any time, which includes every *)
(* order that delays, double clicks and races between two real clients     *)
(* produce.  A session is closed only through OnClose, which this module   *)
(* leaves to the model of the connection slots.                            *)
(***************************************************************************)
EXTENDS Integers, Sequences, FiniteSets

CONSTANTS
  MaxSessions,       \* bound on the number of clients that connect
  MaxRooms,          \* bound on the number of rooms ever created
  MaxQueue,          \* bound on the length of recvPacketQeueu
  MaxBlocks,         \* bound on the blocks one player asks for in a row
  ROOM_MAX_PLAYER,
  ROOM_CNT_PER_PAGE,
  BagSize,           \* the number of shapes GenerateFallingBlocks shuffles (7)
  BatchSize,         \* PACKET_FALLING_BLOCK_SIZE (14)
  Requests           \* the requests a client may send, as [id, arg] records

Session == 1 .. MaxSessions
Shape   == 1 .. BagSize        \* 0 is ShapeType::NONE

ReqId == {"LOGIN", "ROOM_CREATE", "ROOM_ENTER", "ROOM_LIST", "ROOM_LEAVE",
          "ROOM_CAN_ENTER", "GAME_STOP", "GAME_START", "GAME_INPUT", "FALLING_BLOCK"}

ASSUME BoundAssumption ==
  /\ MaxSessions \in Nat /\ MaxRooms \in Nat /\ MaxQueue \in Nat /\ MaxBlocks \in Nat
  /\ ROOM_MAX_PLAYER \in Nat \ {0} /\ ROOM_CNT_PER_PAGE \in Nat \ {0}

ASSUME BlockAssumption ==
  BagSize \in Nat \ {0} /\ BatchSize \in Nat \ {0}

ASSUME RequestAssumption == Requests \subseteq [id : ReqId, arg : Nat]

(* ResultID *)
SUCCESS    == 1
FAILED     == 2
MAX_PLAYER == 101
NOT_FOUND  == 102
IS_PLAYING == 103

VARIABLES
  up,                 \* FALSE once the process has died of a null dereference
  sessions,           \* how many sessions AddSession has made
  queue,              \* recvPacketQeueu
  roomOf, fallingBlockIndex,            \* Player::roomIndex, fallingBlockIndex
  rooms, nextRoom,                      \* RoomManager::rooms (by index), roomIndex
  players, isPlaying, fallingBlocks,    \* the members of each Room, by roomIndex
  enterRes, blockRes, \* what the two handlers that do not always set res keep in it
  sent,               \* the messages the last handler gave to SendMsg, in order
  game, dealt,        \* history: the room whose game a player is in since its
                      \* start, and the blocks of that game sent to the player
  met,                \* history: whom a player was told of since entering its room
  entered             \* history: the rooms somebody has entered

playerVars == <<roomOf, fallingBlockIndex>>
roomVars   == <<rooms, nextRoom, players, isPlaying, fallingBlocks>>
resVars    == <<enterRes, blockRes>>
history    == <<game, dealt, met, entered>>
vars == <<up, sessions, queue, playerVars, roomVars, resVars, sent, history>>

(* The indices CreateRoom has given out; the room itself may be gone. *)
RoomId == 1 .. nextRoom - 1

Members(r) == {players[r][i] : i \in DOMAIN players[r]}

-----------------------------------------------------------------------------
(* Two slips: every block is drawn on its own; the shapes are counted from NONE. *)
LooseBags(k)    == [1 .. k * BagSize -> Shape]
BagsFromNone(k) == [1 .. k * BagSize -> 0 .. BagSize - 1]

(* What k calls of Room::GenerateFallingBlocks may append. *)
Bags(k) ==
  { e \in [1 .. k * BagSize -> Shape] :
      \A j \in 0 .. k - 1 : \A x \in Shape : \E i \in 1 .. BagSize : e[j * BagSize + i] = x }

(* How often the loop of Room::GetFallingBlock generates to get past index. *)
MissingBags(have, index) ==
  IF index < have THEN 0 ELSE (index - have) \div BagSize + 1

(***************************************************************************)
(* Room::RemovePlayer erases the first entry of the session.               *)
(***************************************************************************)
WithoutFirst(seq, s) ==
  IF \E i \in DOMAIN seq : seq[i] = s
  THEN LET first == CHOOSE i \in DOMAIN seq :
                      seq[i] = s /\ \A j \in 1 .. i - 1 : seq[j] # s
       IN [j \in 1 .. Len(seq) - 1 |-> IF j < first THEN seq[j] ELSE seq[j + 1]]
  ELSE seq

(* The slip keeps one seat too many. *)
IsOverfull(r) == Len(players[r]) > ROOM_MAX_PLAYER

(* The capacity test of Room::AddPlayer and Room::CanEnterPlayer. *)
IsFull(r) == Len(players[r]) >= ROOM_MAX_PLAYER

(* Room::CanEnterPlayer *)
CanEnterPlayer(r) ==
  IF IsFull(r) THEN MAX_PLAYER ELSE IF isPlaying[r] THEN IS_PLAYING ELSE SUCCESS

(***************************************************************************)
(* RoomManager::GetRoomList: the vector is in the order of the indices;    *)
(* the page is cut at the end of the vector and always starts a full page  *)
(* before its end.  An entry is <<roomIndex, currentPlayerCnt>>, or zeros. *)
(***************************************************************************)
RoomAt(k) == CHOOSE r \in rooms : Cardinality({q \in rooms : q < r}) = k - 1

(* The slip starts a page one entry late. *)
LatePageStart(end) == IF end < ROOM_CNT_PER_PAGE THEN 0 ELSE end - ROOM_CNT_PER_PAGE + 1

PageStart(end) == IF end < ROOM_CNT_PER_PAGE THEN 0 ELSE end - ROOM_CNT_PER_PAGE

GetRoomList(roomPage) ==
  LET count == Cardinality(rooms)
      end   == IF roomPage * ROOM_CNT_PER_PAGE > count THEN count
               ELSE roomPage * ROOM_CNT_PER_PAGE
  IN [i \in 1 .. ROOM_CNT_PER_PAGE |->
        IF PageStart(end) + i <= end
        THEN LET r == RoomAt(PageStart(end) + i) IN <<r, Len(players[r])>>
        ELSE <<0, 0>>]

(* ProcessPacket's response and SessionManager::SendNotify. *)
Response(req, data)  == <<[to |-> req.session, id |-> req.id, reply |-> TRUE, data |-> data]>>
Notify(s, id, data)  == [to |-> s, id |-> id, reply |-> FALSE, data |-> data]

(* The entries of seq at the positions at, in their order. *)
Picked(seq, at) ==
  LET upTo[n \in 0 .. Len(seq)] ==
        IF n = 0 THEN <<>>
        ELSE IF n \in at THEN Append(upTo[n - 1], seq[n]) ELSE upTo[n - 1]
  IN upTo[Len(seq)]

(* One notification for every listed player but s. *)
NotifyOthers(r, s, id, data) ==
  LET others == Picked(players[r], {i \in DOMAIN players[r] : players[r][i] # s})
  IN [i \in 1 .. Len(others) |-> Notify(others[i], id, data)]

(* The slip tells the players that are there, and not the newcomer. *)
OneWayIntroductions(r, s) ==
  [i \in 1 .. Len(players[r]) |-> Notify(players[r][i], "ROOM_ENTER", <<s>>)]

(* Room::AddPlayer: each listed player hears of s, and s of each of them. *)
Introductions(r, s) ==
  [i \in 1 .. 2 * Len(players[r]) |->
     LET p == players[r][(i + 1) \div 2]
     IN IF i % 2 = 1 THEN Notify(p, "ROOM_ENTER", <<s>>) ELSE Notify(s, "ROOM_ENTER", <<p>>)]

(***************************************************************************)
(* PacketManager::DequeRecvPacket; the slip takes the newest request.      *)
(***************************************************************************)
DequeNewest == [front |-> queue[Len(queue)], rest |-> SubSeq(queue, 1, Len(queue) - 1)]

DequeRecvPacket == [front |-> Head(queue), rest |-> Tail(queue)]

(* PacketThread has a request of this kind to process, and takes it. *)
req == DequeRecvPacket.front

Serving(id) ==
  /\ up
  /\ queue # <<>>
  /\ req.id = id

Served == queue' = DequeRecvPacket.rest /\ UNCHANGED <<up, sessions>>

(* A null dereference takes the process down before the request is answered. *)
Fault == up' = FALSE /\ sent' = <<>> /\ UNCHANGED <<sessions, queue, playerVars, roomVars, resVars, history>>

-----------------------------------------------------------------------------
(* ReqLogin::Logic *)
ReqLogin ==
  /\ Serving("LOGIN")
  /\ Served
  /\ sent' = Response(req, <<SUCCESS, req.session>>)
  /\ UNCHANGED <<playerVars, roomVars, resVars, history>>

(* ReqRoomCreate::Logic, RoomManager::CreateRoom *)
ReqRoomCreate ==
  /\ Serving("ROOM_CREATE")
  /\ Served
  /\ rooms' = rooms \cup {nextRoom}
  /\ nextRoom' = nextRoom + 1
  /\ players' = Append(players, <<>>)
  /\ isPlaying' = Append(isPlaying, FALSE)
  /\ fallingBlocks' = Append(fallingBlocks, <<>>)
  /\ sent' = Response(req, <<FAILED, nextRoom>>)
  /\ UNCHANGED <<playerVars, resVars, history>>

(* ReqRoomList::Logic *)
ReqRoomList ==
  /\ Serving("ROOM_LIST")
  /\ Served
  /\ sent' = Response(req, GetRoomList(req.arg))
  /\ UNCHANGED <<playerVars, roomVars, resVars, history>>

(* ReqRoomCanEnter::Logic *)
ReqRoomCanEnter ==
  /\ Serving("ROOM_CAN_ENTER")
  /\ Served
  /\ sent' = Response(req, <<IF req.arg \in rooms THEN CanEnterPlayer(req.arg) ELSE NOT_FOUND>>)
  /\ UNCHANGED <<playerVars, roomVars, resVars, history>>

(* The players that the introductions of s to the room r mention to p. *)
Heard(r, s, p) ==
  {Introductions(r, s)[i].data[1] :
     i \in {j \in DOMAIN Introductions(r, s) : Introductions(r, s)[j].to = p}}

(***************************************************************************)
(* Room::AddPlayer past its capacity test.  It asks neither whether the    *)
(* player is in a room already nor whether the room is playing.            *)
(***************************************************************************)
AddPlayer(r, s) ==
  /\ roomOf' = [roomOf EXCEPT ![s] = r]
  /\ players' = [players EXCEPT ![r] = Append(@, s)]
  /\ met' = [p \in Session |-> (IF p = s THEN {} ELSE met[p]) \cup Heard(r, s, p)]
  /\ game' = [game EXCEPT ![s] = 0]
  /\ dealt' = [dealt EXCEPT ![s] = <<>>]
  /\ entered' = entered \cup {r}

(***************************************************************************)
(* ReqRoomEnter::Logic.  The result is written only when the room does not *)
(* exist and stays in the handler from then on; a full room is not told    *)
(* from a successful entry.                                                *)
(***************************************************************************)
ReqRoomEnter ==
  /\ Serving("ROOM_ENTER")
  /\ Served
  /\ \/ /\ req.arg \notin rooms
        /\ enterRes' = [enterRes EXCEPT !.result = NOT_FOUND]
        /\ sent' = Response(req, <<NOT_FOUND, enterRes.session>>)
        /\ UNCHANGED <<roomOf, players, history>>
     \/ /\ req.arg \in rooms
        /\ enterRes' = [enterRes EXCEPT !.session = req.session]
        /\ \/ /\ IsFull(req.arg)
              /\ sent' = Response(req, <<enterRes.result, req.session>>)
              /\ UNCHANGED <<roomOf, players, history>>
           \/ /\ ~IsFull(req.arg)
              /\ AddPlayer(req.arg, req.session)
              /\ sent' = Introductions(req.arg, req.session)
                           \o Response(req, <<enterRes.result, req.session>>)
  /\ UNCHANGED <<fallingBlockIndex, rooms, nextRoom, isPlaying, fallingBlocks, blockRes>>

(* Two slips: the room goes whoever is still in it; the room never goes. *)
ClosedAlways(r, left) == {r}
ClosedNever(r, left)  == {}

(* The rooms ReqRoomLeave removes: the one the last player has left. *)
Closed(r, left) == IF left = <<>> THEN {r} ELSE {}

(***************************************************************************)
(* ReqRoomLeave::Logic, Room::RemovePlayer and RoomManager::RemoveRoom.    *)
(***************************************************************************)
ReqRoomLeave ==
  LET s    == req.session
      r    == roomOf[s]
      left == WithoutFirst(players[r], s)
  IN /\ Serving("ROOM_LEAVE")
     /\ Served
     /\ sent' = Response(req, <<FAILED>>)
     /\ \/ /\ r \notin rooms
           /\ UNCHANGED <<roomOf, rooms, players, isPlaying, fallingBlocks, game, dealt>>
        \/ /\ r \in rooms
           /\ roomOf' = IF s \in Members(r) THEN [roomOf EXCEPT ![s] = 0] ELSE roomOf
           /\ game' = [game EXCEPT ![s] = 0]
           /\ dealt' = [dealt EXCEPT ![s] = <<>>]
           /\ rooms' = rooms \ Closed(r, left)
           /\ players' = [players EXCEPT ![r] = left]
           /\ isPlaying' = [isPlaying EXCEPT ![r] = @ /\ r \in rooms']
           /\ fallingBlocks' = [fallingBlocks EXCEPT ![r] = IF r \in rooms' THEN @ ELSE <<>>]
     /\ UNCHANGED <<fallingBlockIndex, nextRoom, resVars, met, entered>>

-----------------------------------------------------------------------------
(* Two slips: only the starter's count is reset; every count but the starter's. *)
ResetStarter(r, s) == {s}
ResetOthers(r, s)  == Members(r) \ {s}

(* The players whose block count a game start resets. *)
Reset(r, s) == Members(r) \cup {s}

(***************************************************************************)
(* ReqGameStart::Logic and Room::GameStart.  The blocks are drawn anew and *)
(* every listed player gets the first batch: the others by notification,   *)
(* the requester in its response.                                          *)
(***************************************************************************)
ReqGameStart ==
  LET s == req.session
      r == roomOf[s]
  IN /\ Serving("GAME_START")
     /\ \/ r \notin rooms /\ Fault
        \/ /\ r \in rooms
           /\ Served
           /\ isPlaying' = [isPlaying EXCEPT ![r] = TRUE]
           /\ \E e \in Bags(1 + MissingBags(BagSize, BatchSize)) :
                LET batch == SubSeq(e, 1, BatchSize)
                IN /\ fallingBlocks' = [fallingBlocks EXCEPT ![r] = e]
                   /\ dealt' = [p \in Session |-> IF p \in Reset(r, s) THEN batch ELSE dealt[p]]
                   /\ sent' = NotifyOthers(r, s, "GAME_START", batch) \o Response(req, batch)
           /\ fallingBlockIndex' = [p \in Session |->
                IF p \in Reset(r, s) THEN BatchSize ELSE fallingBlockIndex[p]]
           /\ game' = [p \in Session |-> IF p \in Members(r) \cup {s} THEN r ELSE game[p]]
           /\ UNCHANGED <<roomOf, rooms, nextRoom, players, resVars, met, entered>>

(* ReqGameStop::Logic and Room::GameStop *)
ReqGameStop ==
  LET s == req.session
      r == roomOf[s]
  IN /\ Serving("GAME_STOP")
     /\ \/ r \notin rooms /\ Fault
        \/ /\ r \in rooms
           /\ Served
           /\ isPlaying' = [isPlaying EXCEPT ![r] = FALSE]
           /\ sent' = NotifyOthers(r, s, "GAME_STOP", <<FAILED>>) \o Response(req, <<FAILED>>)
           /\ UNCHANGED <<playerVars, rooms, nextRoom, players, fallingBlocks, resVars, history>>

(* Room::AddKeyInput forwards cnt key inputs, unless there are none. *)
AddKeyInput(r, s, cnt) ==
  IF cnt = 0 THEN <<>> ELSE NotifyOthers(r, s, "GAME_INPUT", <<cnt>>)

(* ReqGameInput::Logic; the argument is the number of key inputs. *)
ReqGameInput ==
  LET s == req.session
      r == roomOf[s]
  IN /\ Serving("GAME_INPUT")
     /\ Served
     /\ sent' = (IF r \in rooms THEN AddKeyInput(r, s, req.arg) ELSE <<>>)
                  \o Response(req, <<FAILED>>)
     /\ UNCHANGED <<playerVars, roomVars, resVars, history>>

(***************************************************************************)
(* ReqFallingBlock::Logic and Room::GetFallingBlock.  Without a room the   *)
(* response carries the blocks of whoever asked last.                      *)
(***************************************************************************)
ReqFallingBlock ==
  LET s     == req.session
      r     == roomOf[s]
      index == fallingBlockIndex[s] + BatchSize
  IN /\ Serving("FALLING_BLOCK")
     /\ Served
     /\ \/ /\ r \notin rooms
           /\ sent' = Response(req, blockRes)
           /\ UNCHANGED <<fallingBlockIndex, fallingBlocks, blockRes, dealt>>
        \/ /\ r \in rooms
           /\ \E e \in Bags(MissingBags(Len(fallingBlocks[r]), index)) :
                LET supply == fallingBlocks[r] \o e
                    batch  == SubSeq(supply, index - BatchSize + 1, index)
                IN /\ fallingBlocks' = [fallingBlocks EXCEPT ![r] = supply]
                   /\ blockRes' = batch
                   /\ dealt' = [dealt EXCEPT ![s] = IF game[s] = r THEN @ \o batch ELSE @]
                   /\ sent' = Response(req, batch)
           /\ fallingBlockIndex' = [fallingBlockIndex EXCEPT ![s] = index]
     /\ UNCHANGED <<roomOf, rooms, nextRoom, players, isPlaying, enterRes, game, met, entered>>

-----------------------------------------------------------------------------
(* IOCPTetrisServer::OnConnect: GetEmptyPlayer and AddSession. *)
OnConnect ==
  /\ up
  /\ sessions < MaxSessions
  /\ sessions' = sessions + 1
  /\ sent' = <<>>
  /\ UNCHANGED <<up, queue, playerVars, roomVars, resVars, history>>

Queued(P(_)) == Cardinality({i \in DOMAIN queue : P(queue[i])})

(***************************************************************************)
(* IOCPTetrisServer::OnReceive and PacketManager::QueueRecvPacket, for any *)
(* request of a connected client that stays within the bounds.             *)
(***************************************************************************)
OnReceive(s, q) ==
  /\ up
  /\ s <= sessions
  /\ Len(queue) < MaxQueue
  /\ q.id = "ROOM_CREATE" =>
       nextRoom + Queued(LAMBDA m : m.id = "ROOM_CREATE") <= MaxRooms
  /\ q.id = "FALLING_BLOCK" =>
       fallingBlockIndex[s] + BatchSize *
         (1 + Queued(LAMBDA m : m.session = s /\ m.id = "FALLING_BLOCK")) <= MaxBlocks
  /\ queue' = Append(queue, [session |-> s, id |-> q.id, arg |-> q.arg])
  /\ sent' = <<>>
  /\ UNCHANGED <<up, sessions, playerVars, roomVars, resVars, history>>

Init ==
  /\ up = TRUE
  /\ sessions = 0
  /\ queue = <<>>
  /\ roomOf = [s \in Session |-> 0]
  /\ fallingBlockIndex = [s \in Session |-> 0]
  /\ rooms = {}
  /\ nextRoom = 1
  /\ players = <<>>
  /\ isPlaying = <<>>
  /\ fallingBlocks = <<>>
  /\ enterRes = [result |-> FAILED, session |-> 0]
  /\ blockRes = [i \in 1 .. BatchSize |-> 0]
  /\ sent = <<>>
  /\ game = [s \in Session |-> 0]
  /\ dealt = [s \in Session |-> <<>>]
  /\ met = [s \in Session |-> {}]
  /\ entered = {}

PacketThread ==
  \/ ReqLogin
  \/ ReqRoomCreate
  \/ ReqRoomList
  \/ ReqRoomCanEnter
  \/ ReqRoomEnter
  \/ ReqRoomLeave
  \/ ReqGameStart
  \/ ReqGameStop
  \/ ReqGameInput
  \/ ReqFallingBlock

Next ==
  \/ OnConnect
  \/ \E s \in Session, q \in Requests : OnReceive(s, q)
  \/ PacketThread

Spec == Init /\ [][Next]_vars

(* PacketThread polls its queue every millisecond and never waits. *)
FairSpec == Spec /\ WF_vars(PacketThread)

-----------------------------------------------------------------------------
TypeOK ==
  /\ up \in BOOLEAN
  /\ sessions \in 0 .. MaxSessions
  /\ queue \in Seq([session : Session, id : ReqId, arg : Nat])
  /\ roomOf \in [Session -> Nat]
  /\ fallingBlockIndex \in [Session -> Nat]
  /\ nextRoom \in Nat \ {0}
  /\ rooms \subseteq RoomId
  /\ players \in [RoomId -> Seq(Session)]
  /\ isPlaying \in [RoomId -> BOOLEAN]
  /\ fallingBlocks \in [RoomId -> Seq(Shape)]
  /\ enterRes \in [result : {FAILED, NOT_FOUND}, session : 0 .. MaxSessions]
  /\ blockRes \in Seq(0 .. BagSize)
  /\ game \in [Session -> Nat]
  /\ dealt \in [Session -> Seq(Shape)]
  /\ met \in [Session -> SUBSET Session]
  /\ entered \subseteq RoomId

(***************************************************************************)
(* A player whose roomIndex is not 0 is listed in a room that exists,      *)
(* whatever order creations, entries and departures arrive in: the removal *)
(* of a room never strands a player that still refers to it.               *)
(***************************************************************************)
PlayerIsInItsRoom ==
  \A s \in Session : roomOf[s] # 0 => roomOf[s] \in rooms /\ s \in Members(roomOf[s])

(***************************************************************************)
(* However entries race with the answers of ROOM_CAN_ENTER, a room never   *)
(* lists more players than GetMaxPlayerCnt.                                *)
(***************************************************************************)
NeverOverfull == \A r \in rooms : Len(players[r]) <= ROOM_MAX_PLAYER

(***************************************************************************)
(* The process dies only while it handles the GAME_START or GAME_STOP of a *)
(* player that is in no room at all.                                       *)
(***************************************************************************)
FaultOnlyRoomless ==
  ~up => queue # <<>> /\ roomOf[Head(queue).session] = 0

(***************************************************************************)
(* An empty room is one that nobody has entered yet: the room goes with    *)
(* its last player, so abandoned games do not pile up in the room list.    *)
(***************************************************************************)
EmptyRoomIsFresh == \A r \in rooms : players[r] = <<>> => r \notin entered

(***************************************************************************)
(* Two players in one room have each been told of the other since they     *)
(* entered it, in whichever order they did (the RES_ROOM_ENTER             *)
(* notifications that set up the enemy boards).                            *)
(***************************************************************************)
MutualIntroduction ==
  \A s, t \in Session :
    s # t /\ roomOf[s] # 0 /\ roomOf[s] = roomOf[t] => t \in met[s]

InGame(s, r) == r # 0 /\ game[s] = r /\ roomOf[s] = r

(***************************************************************************)
(* The blocks a player of a game has been sent are the first               *)
(* fallingBlockIndex blocks of its room, none left out, none twice.        *)
(***************************************************************************)
DealtIsPrefix ==
  \A s \in Session : InGame(s, roomOf[s]) =>
    /\ Len(dealt[s]) = fallingBlockIndex[s]
    /\ Len(dealt[s]) <= Len(fallingBlocks[roomOf[s]])
    /\ \A i \in 1 .. Len(dealt[s]) : dealt[s][i] = fallingBlocks[roomOf[s]][i]

(***************************************************************************)
(* The players of a game get the same blocks in the same order, however    *)
(* their requests for more interleave with those of others, with restarts, *)
(* and with players that come and go.                                      *)
(***************************************************************************)
SamePieces ==
  \A s, t \in Session : \A r \in rooms :
    InGame(s, r) /\ InGame(t, r) =>
      \A i \in DOMAIN dealt[s] \cap DOMAIN dealt[t] : dealt[s][i] = dealt[t][i]

(***************************************************************************)
(* Every player of a game has been dealt each shape equally often: no      *)
(* batch straddles a bag that another player's request made.               *)
(***************************************************************************)
FairDeal ==
  \A s \in Session : InGame(s, roomOf[s]) =>
    \A x, y \in Shape :
      Cardinality({i \in DOMAIN dealt[s] : dealt[s][i] = x})
        = Cardinality({i \in DOMAIN dealt[s] : dealt[s][i] = y})

(***************************************************************************)
(* Paging through the room list shows every room, though the last page     *)
(* starts in the middle of the page before it.                             *)
(***************************************************************************)
EveryRoomListed ==
  \A r \in rooms : \E page \in 1 .. Cardinality(rooms) :
    \E i \in 1 .. ROOM_CNT_PER_PAGE : GetRoomList(page)[i][1] = r

(***************************************************************************)
(* A request that is queued is answered sooner or later, however many      *)
(* requests other clients keep sending, unless the process dies.           *)
(***************************************************************************)
NoStarvation ==
  \A s \in Session :
    (\E i \in DOMAIN queue : queue[i].session = s)
      ~> (~up \/ \E i \in DOMAIN sent : sent[i].reply /\ sent[i].to = s)

(***************************************************************************)
(* The server as a service of rooms: the seats taken are the entries of a  *)
(* room's list, also those of players that have gone to another room.      *)
(***************************************************************************)
AsRooms == INSTANCE RoomService WITH
  Clients  <- Session,
  Capacity <- ROOM_MAX_PLAYER,
  open     <- rooms,
  used     <- RoomId,
  seats    <- [r \in rooms |-> Len(players[r])],
  at       <- roomOf,
  playing  <- {r \in rooms : isPlaying[r]},
  down     <- ~up

=============================================================================
