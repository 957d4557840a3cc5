---------------------------- MODULE BoardMirror -----------------------------
(***************************************************************************)
(* A player's board and its mirror, the enemyBoard of the opponent's       *)
(* client.  Each frame the applied inputs go out in one REQ_GAME_INPUT,    *)
(* and the mirror replays them in one Update without time.  The server     *)
(* deals both clients the same blocks, each when it asks for them.         *)
(***************************************************************************)
EXTENDS TetrisBoard

CONSTANTS
  MaxWire   \* bound on the packets under way

VARIABLES
  mirror,    \* enemyBoard on the other client
  wire,      \* the inputs under way, one sequence for each packet
  supply,    \* the blocks the room has made so far
  mirrored,  \* how many of them the opponent's client has queued
  stale      \* history: a block was walled at an outdated expected place

vars == <<own, dealt, mirror, wire, supply, mirrored, stale>>

Together == own.fault = "none" /\ mirror.fault = "none"

MirrorInit ==
  /\ Init
  /\ mirror = Start(NewBoard)
  /\ wire = <<>> /\ supply = <<>> /\ mirrored = 0
  /\ stale = FALSE

Stale(b) == \E m \in b.marks : "stale" \in m

(* The player's client queues the next block of the room, on its board. *)
OwnBlock ==
  /\ Together
  /\ AddFallingBlock
  /\ supply' = Append(supply, own'.next[Len(own'.next)])
  /\ UNCHANGED <<mirror, wire, mirrored, stale>>

(* The opponent's client does, on its copy. *)
MirrorBlock ==
  /\ Together
  /\ mirrored < Len(supply)
  /\ mirror' = QueueNextBlock(mirror, supply[mirrored + 1])
  /\ mirrored' = mirrored + 1
  /\ UNCHANGED <<own, dealt, wire, supply, stale>>

(* InGameScene::Update: a frame, and a packet when something was applied. *)
OwnFrame ==
  /\ Together
  /\ Len(wire) < MaxWire
  /\ Frame
  /\ wire' = IF own'.apply = <<>> THEN wire ELSE Append(wire, own'.apply)
  /\ stale' = (stale \/ Stale(own'))
  /\ UNCHANGED <<mirror, supply, mirrored>>

(* ReqGameInput::OnResponse, for the notification on the other side. *)
MirrorInput ==
  /\ Together
  /\ wire # <<>>
  /\ wire' = Tail(wire)
  /\ mirror' = Update(mirror, Head(wire), FALSE)
  /\ stale' = (stale \/ Stale(mirror'))
  /\ UNCHANGED <<own, dealt, supply, mirrored>>

(* The same for the response to the opponent's own REQ_GAME_INPUT: it has  *)
(* no inputs, and still updates the mirror.                                *)
MirrorIdle ==
  /\ Together
  /\ mirror' = Update(mirror, <<>>, FALSE)
  /\ stale' = (stale \/ Stale(mirror'))
  /\ UNCHANGED <<own, dealt, wire, supply, mirrored>>

MirrorNext == OwnBlock \/ MirrorBlock \/ OwnFrame \/ MirrorInput \/ MirrorIdle

MirrorSpec == MirrorInit /\ [][MirrorNext]_vars

-----------------------------------------------------------------------------
(* The block a board has in play, or will have when it next looks. *)
InPlay(b) == IF b.falling = None THEN NextFallingBlock(b).falling ELSE b.falling

(* When every packet has been replayed the mirror shows the player's walls *)
(* and hold, and the same block in the same place unless it still waits    *)
(* for it, although the boards turn to the next block at different times.  *)
(* Only a landing at an outdated expected place can part the two.          *)
MirrorInStep ==
  Together /\ wire = <<>> /\ ~stale =>
    /\ mirror.wall = own.wall
    /\ mirror.hold = own.hold
    /\ mirror.canHold = own.canHold
    /\ InPlay(mirror) = None \/ InPlay(own) = None \/ InPlay(mirror) = InPlay(own)

(* Short of a landing at an outdated place, a packet takes the opponent's  *)
(* client down only where it lacks a block that the player already had:    *)
(* each client asks for blocks as its own board needs them.                *)
OnlyShortMirrorFaults ==
  mirror.fault # "none" /\ ~stale => mirrored < Len(supply)
=============================================================================
