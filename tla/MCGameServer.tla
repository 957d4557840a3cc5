---------------------------- MODULE MCGameServer ----------------------------
(***************************************************************************)
(* Request sets for the runs of GameServer.  Clients send any of them at   *)
(* any time, for rooms that exist, are gone or do not exist yet.           *)
(***************************************************************************)
EXTENDS GameServer

Plain(ids)      == [id : ids, arg : {0}]
About(id, args) == [id : {id}, arg : args]

AnyRoom == 1 .. MaxRooms

LobbyRequests ==
  Plain({"LOGIN", "ROOM_CREATE", "ROOM_LEAVE"})
    \cup About("GAME_INPUT", {0, 1})
    \cup About("ROOM_CAN_ENTER", AnyRoom)
    \cup About("ROOM_ENTER", AnyRoom)

PagingRequests ==
  Plain({"ROOM_CREATE", "ROOM_LEAVE", "GAME_START", "GAME_STOP", "FALLING_BLOCK"})
    \cup About("ROOM_LIST", {2})
    \cup About("ROOM_ENTER", {5})

=============================================================================
