------------------------------- MODULE MCMatch -------------------------------
(***************************************************************************)
(* GameServer with a bound on the number of requests, so that two clients  *)
(* can play in two rooms, leave, come back and restart while the random    *)
(* bags stay enumerable.                                                   *)
(***************************************************************************)
EXTENDS GameServer

CONSTANT MaxRequests    \* bound on the requests all clients together send

VARIABLE received       \* how many requests have been sent

MatchRequests ==
  [id : {"ROOM_CREATE", "ROOM_LEAVE", "GAME_START", "GAME_STOP",
         "FALLING_BLOCK"}, arg : {0}]
    \cup [id : {"ROOM_ENTER"}, arg : 1 .. MaxRooms]

MatchInit == Init /\ received = 0

Receive(s, q) ==
  /\ received < MaxRequests
  /\ received' = received + 1
  /\ OnReceive(s, q)

MatchNext ==
  \/ OnConnect /\ UNCHANGED received
  \/ \E s \in Session, q \in Requests : Receive(s, q)
  \/ PacketThread /\ UNCHANGED received

MatchSpec == MatchInit /\ [][MatchNext]_<<vars, received>>

=============================================================================
