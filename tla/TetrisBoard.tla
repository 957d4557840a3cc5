---------------------------- MODULE TetrisBoard -----------------------------
(***************************************************************************)
(* A player's own board under InGameScene::Update: frames with any key,    *)
(* with or without a gravity step, while blocks arrive from the server.    *)
(* BoardMirror runs it together with its copy on the other client.         *)
(***************************************************************************)
EXTENDS TetrisRules

CONSTANTS
  Shapes,     \* the shapes the server deals
  Inputs,     \* the keys the player uses
  MaxBlocks,  \* bound on the blocks dealt
  Ahead       \* bound on the blocks waiting

ASSUME PlayAssumption ==
  /\ Shapes \subseteq DOMAIN BlockShape
  /\ MaxBlocks \in Nat /\ Ahead \in Nat

(* A block that is set up has its columns on the board. *)
ASSUME FitAssumption ==
  \A s \in Shapes : \A n \in 1 .. 4 : SpawnX + BlockShape[s][n][1] \in 0 .. Width - 1

VARIABLES
  own,    \* tetrisBoard
  dealt   \* how many blocks have arrived

Playing == own.fault = "none"

Init ==
  /\ own = Start(NewBoard)
  /\ dealt = 0

(* AddFallingBlock, from a response or a notification. *)
AddFallingBlock ==
  /\ Playing
  /\ dealt < MaxBlocks
  /\ Len(own.next) < Ahead
  /\ \E s \in Shapes : own' = QueueNextBlock(own, s)
  /\ dealt' = dealt + 1

(* Input::GetInput: of the keys pressed since the last frame, one. *)
GetInput == {<<>>} \union {<<key>> : key \in Inputs}

(* InGameScene::Update, with or without a gravity step. *)
Frame ==
  /\ Playing
  /\ \E inputs \in GetInput, tick \in BOOLEAN : own' = Update(own, inputs, tick)
  /\ UNCHANGED dealt

-----------------------------------------------------------------------------
(* The walls are what was laid less the lines removed, and no full line    *)
(* outlives the update that completed it: RemoveWall goes over the rows    *)
(* once, from the top, while it moves rows down, and neither doubles nor   *)
(* swallows a cell.                                                        *)
NothingLost ==
  Playing => /\ FullRows(own.wall) = {}
             /\ Cardinality(own.wall) + Width * own.cleared = own.laid

(* The wall without its full rows, every other row moved down by the       *)
(* number of full rows below it.                                           *)
Compacted(wall) ==
  {<<c[1], c[2] + Cardinality({y \in FullRows(wall) : y > c[2]})>> :
     c \in {d \in wall : d[2] \notin FullRows(wall)}}

Gapless(wall) ==
  \A y \in 1 .. Height - 1 : Row(wall, y) = {} => Row(wall, y - 1) = {}

(* On a wall without an empty row in it, the loop of RemoveWall computes   *)
(* the textbook result.  On another one it does not: it stops at the empty *)
(* row, although "if a whole line is WALL, the WALLs above are brought     *)
(* down" (TetrisBoard.h:161).                                              *)
RemovalCompacts ==
  Playing /\ Gapless(own.before) => own.wall = Compacted(own.before)

(* A block that was neither rotated nor taken back from hold, and whose    *)
(* expected place was up to date, is walled on free cells of the board's   *)
(* columns, so that only a stack at the top can push it out.               *)
CleanLanding ==
  \A m \in own.marks : m \intersect {"stale", "odd"} = {} => m = {}
=============================================================================
