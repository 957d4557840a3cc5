---------------------------- MODULE TetrisRules -----------------------------
(***************************************************************************)
(* class TetrisBoard as operators on a board.  A board is a record: the    *)
(* WALL cells, the falling, expected and held block (None for nullptr),    *)
(* the shapes that come next, canHold, isPlaying, the inputs applied by    *)
(* the last Update, and wait: lastFallingTime has been set back in this    *)
(* Update, and as StepTimer caps its elapsed time at a tenth of a second   *)
(* gravity, with its interval of one second, cannot act in it.  Colours    *)
(* are left out.  A null pointer that is followed or a cell written        *)
(* outside the array ends the process (fault).                             *)
(* History: odd tells of a block that was rotated or came back from hold,  *)
(* laid and cleared count the cells walled and the lines removed, before   *)
(* is the wall the last Update removed lines from, and marks holds, for    *)
(* every landing of the last Update, what was wrong with it.               *)
(***************************************************************************)
EXTENDS Integers, Sequences, FiniteSets

CONSTANTS
  Width, Height,  \* TETRIS_BOARD_WIDTH, TETRIS_BOARD_HEIGHT
  SpawnX          \* the column SetFallingBlock puts a block at

ASSUME BoardAssumption ==
  /\ Width \in Nat \ {0} /\ Height \in Nat \ {0}
  /\ SpawnX \in 0 .. Width - 1

None == [shape |-> "none"]

BlockShape == [
  Z |-> <<<<-1, -1>>, <<0, -1>>, <<0, 0>>, <<1, 0>>>>,
  L |-> <<<<-1, 0>>, <<0, 0>>, <<1, 0>>, <<1, -1>>>>,
  O |-> <<<<0, 0>>, <<1, 0>>, <<0, -1>>, <<1, -1>>>>,
  S |-> <<<<-1, 0>>, <<0, 0>>, <<0, -1>>, <<1, -1>>>>,
  I |-> <<<<-1, 0>>, <<0, 0>>, <<1, 0>>, <<2, 0>>>>,
  J |-> <<<<-1, -1>>, <<-1, 0>>, <<0, 0>>, <<1, 0>>>>,
  T |-> <<<<-1, 0>>, <<0, 0>>, <<1, 0>>, <<0, -1>>>>]

Add(p, v) == <<p[1] + v[1], p[2] + v[2]>>

MakeFallingBlock(type) ==
  [shape |-> type, pos |-> <<0, 0>>, info |-> BlockShape[type], odd |-> FALSE]

Cells(block, v) == {Add(Add(block.pos, block.info[n]), v) : n \in 1 .. 4}
Inside(c) == c[1] \in 0 .. Width - 1 /\ c[2] \in 0 .. Height - 1

(* TetrisBoard::Init of a new object: expectBlock has its default cells.   *)
NewBoard ==
  [wall |-> {}, falling |-> None, hold |-> None, next |-> <<>>, apply |-> <<>>,
   expect |-> [shape |-> "none", pos |-> <<0, 0>>, info |-> [n \in 1 .. 4 |-> <<0, 0>>],
               odd |-> FALSE],
   canHold |-> FALSE, playing |-> FALSE, fault |-> "none",
   wait |-> FALSE, laid |-> 0, cleared |-> 0, before |-> {}, marks |-> {}]
Start(b) == [b EXCEPT !.playing = TRUE, !.canHold = TRUE]
QueueNextBlock(b, type) == [b EXCEPT !.next = Append(@, type)]

Crash(b, why) == [b EXCEPT !.fault = why]

-----------------------------------------------------------------------------
CanMoveFallingBlock(b, v) ==
  \A c \in Cells(b.falling, v) :
    c[2] < Height /\ c[1] \in 0 .. Width - 1 /\ c \notin b.wall

(* Where the falling block would come to rest: UpdateExpectBlock goes down *)
(* from where it is and back up by one.                                    *)
Expected(b) ==
  LET far == CHOOSE n \in 0 .. Height + 4 :
               /\ ~CanMoveFallingBlock(b, <<0, n>>)
               /\ \A m \in 0 .. n - 1 : CanMoveFallingBlock(b, <<0, m>>)
  IN [b.falling EXCEPT !.pos = Add(@, <<0, far - 1>>)]

UpdateExpectBlock(b) == IF b.falling = None THEN b ELSE [b EXCEPT !.expect = Expected(b)]

(* SetFallingBlock(DequeNextBlock()), for a board without a falling block. *)
NextFallingBlock(b) ==
  IF b.next = <<>> THEN b
  ELSE [b EXCEPT !.next = Tail(@), !.wait = TRUE,
                 !.falling = [MakeFallingBlock(Head(b.next)) EXCEPT !.pos = <<SpawnX, -1>>]]

(* The cells come from expectBlock, which the last Update has set. *)
LandFalling(b, block) ==
  LET cells == Cells(block, <<0, 0>>)
      marks == {m \in {"stale", "odd", "overlap", "aside"} :
                  CASE m = "stale" -> Cells(b.expect, <<0, 0>>) # Cells(Expected(b), <<0, 0>>)
                    [] m = "odd" -> b.falling.odd
                    [] m = "overlap" -> cells \intersect b.wall # {}
                    [] m = "aside" -> \E c \in cells : c[1] \notin 0 .. Width - 1 \/ c[2] >= Height}
      landed == [b EXCEPT !.falling = None, !.canHold = TRUE, !.marks = @ \union {marks},
                         !.laid = @ + Cardinality(cells \ b.wall)]
  IN IF b.falling = None THEN Crash(b, "null")
     ELSE IF \A c \in cells : Inside(c) THEN [landed EXCEPT !.wall = @ \union cells]
     ELSE Crash(landed, "outside")
LandLower(b) ==
  LandFalling(b, [b.expect EXCEPT !.pos = Add(@, <<0, 1>>)])
FallingBlockToWall(b) == LandFalling(b, b.expect)

Direction(input) ==
  CASE input = "DOWN" -> <<0, 1>> [] input = "LEFT" -> <<-1, 0>>
    [] input = "RIGHT" -> <<1, 0>> [] OTHER -> <<0, 0>>

(* A quarter turn of every cell about the block's centre, tested against   *)
(* nothing.                                                                *)
Rotate(block, input) ==
  [block EXCEPT !.odd = TRUE,
                !.info = [n \in 1 .. 4 |-> IF input = "ROTATELEFT"
                                           THEN <<@[n][2], -@[n][1]>>
                                           ELSE <<-@[n][2], @[n][1]>>]]

MoveFallingBlock(b, input) ==
  CASE b.falling = None -> Crash(b, "null")
    [] b.falling # None /\ input = "DROP" ->
         LET landed == FallingBlockToWall(b)
         IN IF landed.fault = "none" THEN NextFallingBlock(landed) ELSE landed
    [] b.falling # None /\ input \in {"UP", "ROTATELEFT", "ROTATERIGHT"} /\ b.falling.shape # "O" ->
         [b EXCEPT !.falling = Rotate(@, input)]
    [] OTHER -> IF CanMoveFallingBlock(b, Direction(input))
                THEN [b EXCEPT !.falling.pos = Add(@, Direction(input))] ELSE b

(* HOLD: the first block is put away and the next one set up; later ones   *)
(* are swapped and the one that comes back keeps its place beside the      *)
(* board.                                                                  *)
Hold(b) ==
  LET kept == [MakeFallingBlock(b.falling.shape) EXCEPT !.pos = <<-3, 3>>]
      held == [b EXCEPT !.hold = kept, !.canHold = FALSE, !.wait = TRUE]
  IN CASE b.falling = None -> Crash(b, "null")
       [] b.falling # None /\ b.hold = None -> NextFallingBlock([held EXCEPT !.falling = None])
       [] OTHER -> [held EXCEPT !.falling = [b.hold EXCEPT !.odd = TRUE]]

ApplyInput(b, input) ==
  LET moved == IF input = "HOLD" /\ b.canHold THEN Hold(b) ELSE MoveFallingBlock(b, input)
  IN IF b.fault # "none" THEN b
     ELSE [moved EXCEPT !.apply = Append(@, input), !.wait = @ \/ input = "DOWN"]

(* A slip: the landing is not reported to the opponent. *)
FallSilently(b) ==
  IF CanMoveFallingBlock(b, <<0, 1>>)
  THEN [MoveFallingBlock(b, "DOWN") EXCEPT !.apply = Append(@, "DOWN")]
  ELSE FallingBlockToWall(b)

(* A slip: the landing is reported twice. *)
FallTwice(b) ==
  IF CanMoveFallingBlock(b, <<0, 1>>)
  THEN [MoveFallingBlock(b, "DOWN") EXCEPT !.apply = Append(@, "DOWN")]
  ELSE [FallingBlockToWall(b) EXCEPT !.apply = @ \o <<"DROP", "DROP">>]

(* The gravity step of UpdateFallingBlock, when its interval is over. *)
Fall(b) ==
  IF CanMoveFallingBlock(b, <<0, 1>>)
  THEN [MoveFallingBlock(b, "DOWN") EXCEPT !.apply = Append(@, "DOWN")]
  ELSE [FallingBlockToWall(b) EXCEPT !.apply = Append(@, "DROP")]

UpdateFallingBlock(b, tick) ==
  LET ready == IF b.falling = None THEN NextFallingBlock(b) ELSE b
  IN IF tick /\ ~ready.wait /\ ready.falling # None THEN Fall(ready) ELSE ready

-----------------------------------------------------------------------------
Row(wall, y)  == {c \in wall : c[2] = y}
IsFull(wall, y) == \A x \in 0 .. Width - 1 : <<x, y>> \in wall

(* A slip: the rows above are moved as if the removed line were not there. *)
DropAllButTop(wall, y) ==
  {c \in wall : c[2] > y} \union {<<c[1], c[2] + 1>> : c \in {d \in wall : 0 < d[2] /\ d[2] < y - 1}}

(* One line is removed: the rows above it move down as far as the first    *)
(* one without a wall.                                                     *)
DropRows(wall, y) ==
  LET gaps == {g \in 0 .. y - 1 : Row(wall, g) = {}}
      top  == IF gaps = {} THEN -1 ELSE CHOOSE g \in gaps : \A f \in gaps : f <= g
  IN {c \in wall : c[2] > y \/ c[2] < top}
     \union {<<c[1], c[2] + 1>> : c \in {d \in wall : top < d[2] /\ d[2] < y}}

RemoveLine(wall, y) == IF IsFull(wall, y) THEN DropRows(wall, y) ELSE wall

(* A slip: the rows are gone over from below. *)
RemoveFromBelow(wall) ==
  LET after[n \in 0 .. Height] ==
        IF n = 0 THEN wall ELSE RemoveLine(after[n - 1], Height - n)
  IN after[Height]

(* after[n] is the wall when the first n rows have been gone over. *)
RemoveWall(wall) ==
  LET after[n \in 0 .. Height] == IF n = 0 THEN wall ELSE RemoveLine(after[n - 1], n - 1)
  IN after[Height]

FullRows(wall) == {y \in 0 .. Height - 1 : IsFull(wall, y)}

ApplyInputs(b, inputs) ==
  LET after[n \in 0 .. Len(inputs)] ==
        IF n = 0 THEN b ELSE ApplyInput(after[n - 1], inputs[n])
  IN after[Len(inputs)]

(* TetrisBoard::Update *)
Update(b, inputs, tick) ==
  LET ready   == IF b.falling = None THEN NextFallingBlock(b) ELSE b
      applied == ApplyInputs([ready EXCEPT !.apply = <<>>, !.marks = {}], inputs)
      fallen  == UpdateFallingBlock(applied, tick)
      expects == UpdateExpectBlock(fallen)
  IN IF ~b.playing THEN [b EXCEPT !.apply = <<>>]
     ELSE IF applied.fault # "none" THEN applied
     ELSE IF fallen.fault # "none" THEN fallen
     ELSE [expects EXCEPT !.wall = RemoveWall(@), !.before = fallen.wall, !.wait = FALSE,
                          !.cleared = @ + Cardinality(FullRows(fallen.wall))]
=============================================================================
