---------------------------- MODULE ClientScene -----------------------------
(***************************************************************************)
(* The scenes of the clients composed with the server of GameServer.  Each *)
(* client's main thread runs Game::Update: one response and one            *)
(* notification, the scene's update, the change of scene.  SendSync holds  *)
(* it in a loop of HandlerThread.  Requests and responses meet on the two  *)
(* heaps of class Server, newest on top: the stack holds the requests that *)
(* were sent, with their answers as they come.  The interleavings inside   *)
(* HandlerThread are those of ClientNet and left out here, as are the      *)
(* boards but for isPlaying.                                               *)
(***************************************************************************)
EXTENDS GameServer

CONSTANTS
  Patient,    \* users wait for the answer to a click before the next one
  MaxClicks,  \* bound on the clicks of the users together
  Traffic,    \* what a playing client sends by itself
  MaxTraffic  \* bound on what the lobbies and boards send by themselves

ASSUME SceneAssumption ==
  /\ Patient \in BOOLEAN /\ Traffic \subseteq {"FALLING_BLOCK", "GAME_INPUT"}
  /\ MaxClicks \in Nat /\ MaxTraffic \in Nat

VARIABLES
  client,   \* each client's state, a record
  wire,     \* the messages on their way to each client
  spent     \* what has been used of the two bounds

sceneVars == <<client, wire, spent>>

NoScene == -1   \* preservedScene: nothing, the lobby (0) or a room's scene

-----------------------------------------------------------------------------
(* Server::Send and Server::SendSync *)
Queue(c, id, arg, sync) ==
  [c EXCEPT !.sendQueue = Append(@, [id |-> id, arg |-> arg, sync |-> sync, ans |-> <<>>])]
Send(c, id, arg)     == Queue(c, id, arg, FALSE)
SendUnmarked(c, id, arg) == [Queue(c, id, arg, FALSE) EXCEPT !.wait = id] \* a slip
SendSync(c, id, arg) == [Queue(c, id, arg, TRUE) EXCEPT !.wait = id]

(* LobbyScene::Start, from the room list on, and InGameScene::Start up to  *)
(* its SendSync: the buttons come after it.                                *)
StartLobby(c) == SendSync([c EXCEPT !.scene = "lobby", !.room = 0, !.list = <<>>], "ROOM_LIST", 1)
StartGame(c, r) ==
  SendSync([c EXCEPT !.scene = "game", !.room = r, !.start = "null", !.mine = FALSE,
                     !.enemy = FALSE, !.seated = FALSE],
           "ROOM_ENTER", r)

(* The end of Game::Update. *)
SwitchScene(c) ==
  LET idle == [c EXCEPT !.next = NoScene]
  IN CASE c.next = NoScene -> c
       [] c.next = 0 -> StartLobby(idle)
       [] OTHER -> StartGame(idle, c.next)

-----------------------------------------------------------------------------
(* The OnResponse of each handler.  A list that arrives while a RoomButton *)
(* is being pressed destroys the buttons LobbyScene::Update iterates over. *)
Pressing(c) == c.wait \in {"ROOM_CREATE", "ROOM_CAN_ENTER"}

OnRoomList(c, rooms2) ==
  IF c.scene # "lobby" THEN c
  ELSE [c EXCEPT !.list = [i \in DOMAIN rooms2 |-> rooms2[i][1]],
                 !.fault = IF Pressing(c) THEN "iterator" ELSE @]

OnRoomEnter(c, who) ==
  CASE c.scene # "game" -> c
    [] c.scene = "game" /\ who = c.session -> [c EXCEPT !.mine = FALSE]
    [] OTHER -> [c EXCEPT !.enemy = FALSE]

(* GameStart() uses gameStartButton. *)
OnGameStart(c) ==
  CASE c.scene # "game" -> c
    [] c.scene = "game" /\ c.start = "null" -> [c EXCEPT !.fault = "null"]
    [] OTHER -> [c EXCEPT !.mine = TRUE, !.enemy = TRUE, !.start = "off"]

(* A slip: the answer to ROOM_LEAVE changes nothing. *)
OnOtherResponse(c, id, data) ==
  CASE id = "LOGIN"       -> [c EXCEPT !.session = data[2]]
    [] id = "ROOM_CREATE" -> [c EXCEPT !.next = data[2]]
    [] id = "ROOM_LIST"   -> OnRoomList(c, data)
    [] id = "ROOM_ENTER"  -> OnRoomEnter(c, data[Len(data)])
    [] id = "GAME_START"  -> OnGameStart(c)
    [] OTHER -> c

OnResponse(c, id, data) ==
  CASE id = "LOGIN"       -> [c EXCEPT !.session = data[2]]
    [] id = "ROOM_CREATE" -> [c EXCEPT !.next = data[2]]
    [] id = "ROOM_LEAVE"  -> [c EXCEPT !.next = 0]
    [] id = "ROOM_LIST"   -> OnRoomList(c, data)
    [] id = "ROOM_ENTER"  -> OnRoomEnter(c, data[Len(data)])
    [] id = "GAME_START"  -> OnGameStart(c)
    [] OTHER -> c

(* Server::HandlerThread: the response on top, if it answers the newest    *)
(* request, then a notification.                                           *)
Answered(c) == c.stack # <<>> /\ c.stack[Len(c.stack)].ans # <<>>
Top(c)      == c.stack[Len(c.stack)]

HandleResponse(c) ==
  IF Answered(c)
  THEN OnResponse([c EXCEPT !.stack = SubSeq(@, 1, Len(@) - 1)], Top(c).id, Top(c).ans[1])
  ELSE c
(* A slip: notifications are thrown away during SendSync. *)
HandleNotifyIdle(c) ==
  IF c.notes # <<>> /\ c.fault = "none"
  THEN IF c.wait # "none" THEN [c EXCEPT !.notes = Tail(@)]
       ELSE OnResponse([c EXCEPT !.notes = Tail(@)], Head(c.notes).id, Head(c.notes).data)
  ELSE c
HandleNotify(c) ==
  IF c.notes # <<>> /\ c.fault = "none"
  THEN OnResponse([c EXCEPT !.notes = Tail(@)], Head(c.notes).id, Head(c.notes).data)
  ELSE c
HandlerThread(c) == HandleNotify(HandleResponse(c))

(* What follows SendSync where it was called: the Start of the two scenes, *)
(* or RoomButton::OnPressed and the rest of Game::Update.                  *)
Returned(c, request) ==
  LET data == request.ans[1]
      go   == CASE request.id = "ROOM_CREATE" -> data[2] [] OTHER -> request.arg
  IN CASE request.id = "LOGIN" -> StartLobby(c)
       [] request.id = "ROOM_ENTER" -> [c EXCEPT !.start = "on"]
       [] request.id \in {"ROOM_CREATE", "ROOM_CAN_ENTER"} ->
            SwitchScene(IF data[1] = SUCCESS THEN [c EXCEPT !.next = go] ELSE c)
       [] OTHER -> c

-----------------------------------------------------------------------------
Alive(s) == client[s].fault = "none"
Free(s)  == Alive(s) /\ client[s].wait = "none"

(* The user has not seen the outcome of an earlier click. *)
Clicked(c) ==
  \/ c.next # NoScene
  \/ \E i \in DOMAIN c.sendQueue : c.sendQueue[i].id \in {"ROOM_LEAVE", "GAME_START"}
  \/ \E i \in DOMAIN c.stack : c.stack[i].id \in {"ROOM_LEAVE", "GAME_START"}

(* A frame of the client s: HandlerThread, then what its scene does, which *)
(* leaves the client as "after".                                           *)
Handled(s) == HandlerThread(client[s])
FrameWith(s, after) ==
  /\ Free(s)
  /\ client' = [client EXCEPT ![s] = IF Handled(s).fault = "none" THEN after ELSE Handled(s)]
  /\ UNCHANGED <<vars, wire>>

Frame(s) == FrameWith(s, SwitchScene(Handled(s))) /\ UNCHANGED spent

Click(s) ==
  /\ spent.clicks < MaxClicks
  /\ Patient => ~Clicked(Handled(s))
  /\ spent' = [spent EXCEPT !.clicks = @ + 1]

(* RoomButton::OnPressed *)
ClickRoom(s) ==
  /\ Click(s)
  /\ client[s].scene = "lobby"
  /\ LET list == Handled(s).list
     IN \E i \in DOMAIN list :
          FrameWith(s, IF list[i] = 0 THEN SendSync(Handled(s), "ROOM_CREATE", 0)
                       ELSE SendSync(Handled(s), "ROOM_CAN_ENTER", list[i]))

(* GameStartButton::OnPressed and GameLeaveButton::OnPressed *)
ClickStart(s) ==
  /\ Click(s)
  /\ client[s].scene = "game"
  /\ Handled(s).start = "on"
  /\ FrameWith(s, SwitchScene(Send(Handled(s), "GAME_START", 0)))

(* A slip: the scene is changed without a word to the server. *)
ClickLeaveAtOnce(s) ==
  /\ Click(s)
  /\ client[s].scene = "game"
  /\ FrameWith(s, SwitchScene([Handled(s) EXCEPT !.next = 0]))

ClickLeave(s) ==
  /\ Click(s)
  /\ client[s].scene = "game"
  /\ FrameWith(s, SwitchScene(Send(Handled(s), "ROOM_LEAVE", 0)))

(* The lobby's refresh every five seconds. *)
Refresh(s) ==
  /\ client[s].scene = "lobby"
  /\ spent.traffic < MaxTraffic
  /\ spent' = [spent EXCEPT !.traffic = @ + 1]
  /\ FrameWith(s, SwitchScene(Send(Handled(s), "ROOM_LIST", 1)))

(* A playing board asks for blocks and reports its inputs. *)
Play(s) ==
  /\ client[s].scene = "game"
  /\ Handled(s).mine
  /\ spent.traffic < MaxTraffic
  /\ spent' = [spent EXCEPT !.traffic = @ + 1]
  /\ \E id \in Traffic : FrameWith(s, SwitchScene(Send(Handled(s), id, 1)))

(* One turn of the loop of SendSync. *)
Poll(s) ==
  LET c == client[s]
      handled == HandlerThread(c)
  IN /\ Alive(s)
     /\ c.wait # "none"
     /\ client' = [client EXCEPT ![s] =
          IF Answered(c) /\ Top(c).sync /\ handled.fault = "none"
          THEN Returned([handled EXCEPT !.wait = "none"], Top(c)) ELSE handled]
     /\ UNCHANGED <<vars, wire, spent>>

-----------------------------------------------------------------------------
(* A first packet reaches the server: its worker calls OnConnect. *)
Connect(s) ==
  /\ s = sessions + 1
  /\ client[s].sendQueue # <<>>
  /\ OnConnect
  /\ UNCHANGED sceneVars

(* SendThread, and the worker that queues the packet. *)
Transmit(s) ==
  LET c == client[s]
  IN /\ Alive(s)
     /\ c.sendQueue # <<>>
     /\ OnReceive(s, Head(c.sendQueue))
     /\ client' = [client EXCEPT ![s].sendQueue = Tail(@),
                                 ![s].stack = Append(@, Head(c.sendQueue))]
     /\ UNCHANGED <<wire, spent>>

(* PacketThread handles a request and its messages set out. *)
Serve ==
  /\ PacketThread
  /\ wire' = [s \in Session |-> wire[s] \o Picked(sent', {i \in DOMAIN sent' : sent'[i].to = s})]
  /\ client' = [s \in Session |->
       [client[s] EXCEPT !.seated = @ \/ roomOf'[s] # 0]]
  /\ UNCHANGED spent

FirstOpen(stack) ==
  CHOOSE i \in DOMAIN stack : stack[i].ans = <<>> /\ \A j \in 1 .. i - 1 : stack[j].ans # <<>>

(* RecvThread *)
Deliver(s) ==
  LET m == Head(wire[s])
  IN /\ Alive(s)
     /\ wire[s] # <<>>
     /\ wire' = [wire EXCEPT ![s] = Tail(@)]
     /\ client' = IF m.reply
                  THEN [client EXCEPT ![s].stack[FirstOpen(client[s].stack)].ans = <<m.data>>]
                  ELSE [client EXCEPT ![s].notes = Append(@, [id |-> m.id, data |-> m.data])]
     /\ UNCHANGED <<vars, spent>>

(* Game::Initialize, up to the SendSync of the login. *)
SceneInit ==
  /\ Init
  /\ client = [s \in Session |-> SendSync(
       [session |-> 0, scene |-> "lobby", room |-> 0, next |-> NoScene, wait |-> "none",
        list |-> <<>>, start |-> "null", mine |-> FALSE, enemy |-> FALSE, fault |-> "none",
        sendQueue |-> <<>>, stack |-> <<>>, notes |-> <<>>, seated |-> FALSE],
       "LOGIN", 0)]
  /\ wire = [s \in Session |-> <<>>]
  /\ spent = [clicks |-> 0, traffic |-> 0]

User(s) == ClickRoom(s) \/ ClickStart(s) \/ ClickLeave(s) \/ Refresh(s) \/ Play(s)

SceneNext ==
  \/ Serve
  \/ \E s \in Session :
       Frame(s) \/ User(s) \/ Poll(s) \/ Connect(s) \/ Transmit(s) \/ Deliver(s)

(* The frame loop, the network threads and the server's thread run on. *)
SceneFairness ==
  /\ WF_<<vars, sceneVars>>(Serve)
  /\ \A s \in Session :
       /\ WF_<<vars, sceneVars>>(Frame(s) \/ Poll(s))
       /\ WF_<<vars, sceneVars>>(Connect(s) \/ Transmit(s))
       /\ WF_<<vars, sceneVars>>(Deliver(s))

SceneSpec == SceneInit /\ [][SceneNext]_<<vars, sceneVars>> /\ SceneFairness

-----------------------------------------------------------------------------
(* Nothing the client s has sent or been sent is still on its way. *)
Quiet(s) ==
  /\ up /\ Free(s)
  /\ client[s].sendQueue = <<>> /\ client[s].stack = <<>> /\ wire[s] = <<>>
  /\ client[s].next = NoScene

(* When a client has caught up, its scene is what the server believes: in  *)
(* the lobby it is in no room, and in a room's scene it is in that room or *)
(* its entry was refused.  Rooms are created, entered and left through     *)
(* answers that several requests may wait for at once.                     *)
SceneFollowsServer ==
  \A s \in Session : Quiet(s) =>
    IF client[s].scene = "lobby" THEN roomOf[s] = 0
    ELSE roomOf[s] \in {0, client[s].room} /\ (client[s].seated => roomOf[s] # 0)

(* A client in a room's scene takes the server down with GAME_START only   *)
(* when its entry had been refused: the room went or filled between        *)
(* ROOM_CAN_ENTER and ROOM_ENTER.                                          *)
ServerDiesOnlyUnseated ==
  ~up => LET c == client[Head(queue).session] IN c.scene = "game" /\ ~c.seated

(* A SendSync returns, whatever the other client does, unless a process    *)
(* ends.                                                                   *)
SyncReturns ==
  \A s \in Session :
    client[s].wait # "none" ~> (client[s].wait = "none" \/ ~Alive(s) \/ ~up)

(* A player who was in the room when a game started gets to play, unless   *)
(* he leaves it or a process ends.                                         *)
GameReachesAll ==
  \A s \in Session :
    game[s] # 0 ~> (client[s].mine \/ game[s] = 0 \/ ~Alive(s) \/ ~up)
=============================================================================
