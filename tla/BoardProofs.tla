----------------------------- MODULE BoardProofs -----------------------------
(***************************************************************************)
(* Theorems about BoardMirror, for a board of any size, any shapes and     *)
(* keys, and any number of blocks and packets.  On the player's own board  *)
(* no cell of the wall is lost or doubled by RemoveWall, which compacts a  *)
(* wall without empty rows, and a block whose expected place was up to     *)
(* date lands on free cells.  The mirror that replays its packets keeps up *)
(* with it, unless it lacks a block that the player had.                   *)
(***************************************************************************)
EXTENDS BoardMirror, FiniteSetTheorems, WellFoundedInduction, TLAPS

Cols == 0 .. Width - 1
Rows == 0 .. Height - 1
Cell == Cols \X Rows

-----------------------------------------------------------------------------
(* Induction on numbers, as a fact about sets. *)
LEMMA NatClosed ==
  ASSUME NEW T, 0 \in T, \A n \in Nat : n \in T => n + 1 \in T
  PROVE  Nat \subseteq T
<1> SUFFICES ASSUME Nat \ T # {} PROVE FALSE
  OBVIOUS
<1> DEFINE R == OpToRel(<, Nat)
<1>1. IsWellFoundedOn(R, Nat)
  BY NatLessThanWellFounded
<1> HIDE DEF R
<1>2. PICK x \in Nat \ T : \A y \in Nat \ T : ~ (<<y, x>> \in R)
  BY <1>1, WFMin
<1>3. x # 0 /\ x - 1 \in Nat /\ <<x - 1, x>> \in R
  BY <1>2 DEF R, OpToRel
<1>4. x - 1 \in T
  BY <1>2, <1>3
<1> QED
  BY <1>2, <1>3, <1>4

LEMMA LeastOf ==
  ASSUME NEW T, T \subseteq Nat, T # {} PROVE \E x \in T : \A y \in T : x <= y
<1> DEFINE R == OpToRel(<, Nat)
<1>1. IsWellFoundedOn(R, Nat)
  BY NatLessThanWellFounded
<1> HIDE DEF R
<1>2. PICK x \in T : \A y \in T : ~ (<<y, x>> \in R)
  BY <1>1, WFMin
<1>3. ASSUME NEW y \in T PROVE x <= y
  <2>1. x \in Nat /\ y \in Nat /\ <<y, x>> \notin R
    BY <1>2
  <2>2. y < x => <<y, x>> \in R
    BY <2>1 DEF R, OpToRel
  <2> QED
    BY <2>1, <2>2
<1> QED
  BY <1>3

(* A set of numbers below a bound that is not empty has a largest one. *)
LEMMA LargestOf ==
  ASSUME NEW n \in Nat, NEW T, T \subseteq 0 .. n, T # {}
  PROVE  \E x \in T : \A y \in T : y <= x
<1> DEFINE U == {n - x : x \in T}
<1>1. U \subseteq Nat /\ U # {}
  <2>1. \A x \in T : x \in Int /\ 0 <= x /\ x <= n
    OBVIOUS
  <2>2. \A x \in T : n - x \in Nat
    BY <2>1
  <2> QED
    BY <2>2
<1>2. PICK u \in U : \A v \in U : u <= v
  BY <1>1, LeastOf
<1>3. PICK x \in T : u = n - x
  BY <1>2
<1>4. ASSUME NEW y \in T PROVE y <= x
  <2>1. n - x <= n - y
    BY <1>2, <1>3
  <2> QED
    BY <2>1
<1> QED
  BY <1>4

(* A board is finite. *)
LEMMA CellsFinite ==
  /\ IsFiniteSet(Cell)
  /\ \A wall \in SUBSET Cell : IsFiniteSet(wall) /\ Cardinality(wall) \in Nat
<1>1. IsFiniteSet(Cols) /\ IsFiniteSet(Rows)
  <2>1. 0 \in Int /\ Width - 1 \in Int /\ Height - 1 \in Int
    BY BoardAssumption
  <2> QED
    BY <2>1, FS_Interval DEF Cols, Rows
<1>2. IsFiniteSet(Cell)
  BY <1>1, FS_Product DEF Cell
<1> QED
  BY <1>2, FS_Subset, FS_CardinalityType

LEMMA CellIs ==
  /\ \A x, y : <<x, y>> \in Cell <=> x \in Cols /\ y \in Rows
  /\ \A c \in Cell : /\ c[1] \in Cols /\ c[2] \in Rows /\ c = <<c[1], c[2]>>
                     /\ c[2] \in Int /\ 0 <= c[2] /\ c[2] < Height
  /\ Height \in Nat
<1>1. \A y \in Rows : y \in Int /\ 0 <= y /\ y < Height
  BY BoardAssumption DEF Rows
<1>2. \A x, y : <<x, y>> \in Cell <=> x \in Cols /\ y \in Rows
  BY DEF Cell
<1>3. \A c \in Cell : c[1] \in Cols /\ c[2] \in Rows /\ c = <<c[1], c[2]>>
  BY DEF Cell
<1> QED
  BY <1>1, <1>2, <1>3, BoardAssumption

(* What DropRows leaves, cell by cell: top is the lowest empty row above   *)
(* the removed one, or -1.                                                 *)
LEMMA DropRowsIs ==
  ASSUME NEW wall \in SUBSET Cell, NEW y \in Rows
  PROVE  \E top \in Int :
           /\ -1 <= top /\ top < y
           /\ \A c \in wall : c[2] # top
           /\ \A g \in Rows : top < g /\ g < y => Row(wall, g) # {}
           /\ DropRows(wall, y) =
                {c \in wall : c[2] > y \/ c[2] < top}
                \union {<<c[1], c[2] + 1>> : c \in {d \in wall : top < d[2] /\ d[2] < y}}
<1> DEFINE gaps == {g \in 0 .. y - 1 : Row(wall, g) = {}}
           top  == IF gaps = {} THEN -1 ELSE CHOOSE g \in gaps : \A f \in gaps : f <= g
<1>0. y \in Int /\ 0 <= y /\ y < Height /\ Height \in Nat
  BY BoardAssumption DEF Rows
<1>1. DropRows(wall, y) =
        {c \in wall : c[2] > y \/ c[2] < top}
        \union {<<c[1], c[2] + 1>> : c \in {d \in wall : top < d[2] /\ d[2] < y}}
  BY DEF DropRows
<1>2. CASE gaps = {}
  <2>1. top = -1
    BY <1>2
  <2>2. \A g \in Rows : -1 < g /\ g < y => Row(wall, g) # {}
    BY <1>0, <1>2 DEF Rows
  <2>3. \A c \in wall : c[2] # -1
    BY CellIs
  <2> HIDE DEF top
  <2> QED
    BY <1>0, <1>1, <2>1, <2>2, <2>3
<1>3. CASE gaps # {}
  <2>1. gaps \subseteq 0 .. Height
    BY <1>0
  <2>2. \E g \in gaps : \A f \in gaps : f <= g
    BY <1>0, <1>3, <2>1, LargestOf
  <2>3. top = CHOOSE g \in gaps : \A f \in gaps : f <= g
    BY <1>3
  <2>4. top \in gaps /\ \A f \in gaps : f <= top
    <3> HIDE DEF gaps
    <3>1. PICK t : t = CHOOSE g \in gaps : \A f \in gaps : f <= g
      OBVIOUS
    <3>2. t \in gaps /\ \A f \in gaps : f <= t
      BY <2>2, <3>1, Zenon
    <3> QED
      BY <2>3, <3>1, <3>2
  <2> HIDE DEF top
  <2>5. top \in Int /\ 0 <= top /\ top < y /\ Row(wall, top) = {}
    BY <1>0, <2>4
  <2>6. \A g \in Rows : top < g /\ g < y => Row(wall, g) # {}
    BY <1>0, <2>4, <2>5 DEF Rows
  <2>7. \A c \in wall : c[2] # top
    BY <2>5 DEF Row
  <2> QED
    BY <1>1, <2>5, <2>6, <2>7
<1> QED
  BY <1>2, <1>3

(* A full row is as many cells as the board is wide. *)
LEMMA FullRowCard ==
  ASSUME NEW wall \in SUBSET Cell, NEW y \in Rows, IsFull(wall, y)
  PROVE  Cardinality(Row(wall, y)) = Width
<1>1. Row(wall, y) = Cols \X {y}
  <2>1. \A c \in Row(wall, y) : c \in Cols \X {y}
    BY CellIs DEF Row
  <2>2. \A c \in Cols \X {y} : c = <<c[1], y>> /\ c[1] \in Cols
    OBVIOUS
  <2>3. \A x \in Cols : <<x, y>> \in wall
    BY DEF IsFull, Cols
  <2>4. \A x \in Cols : <<x, y>> \in Row(wall, y)
    BY <2>3 DEF Row
  <2> QED
    BY <2>1, <2>2, <2>4
<1>2. IsFiniteSet(Cols) /\ Cardinality(Cols) = Width
  <2>1. 0 \in Int /\ Width - 1 \in Int /\ Width \in Nat /\ Width # 0
    BY BoardAssumption
  <2>2. IsFiniteSet(0 .. Width - 1)
        /\ Cardinality(0 .. Width - 1) = IF 0 > Width - 1 THEN 0 ELSE Width - 1 - 0 + 1
    BY <2>1, FS_Interval
  <2> QED
    BY <2>1, <2>2 DEF Cols
<1>3. IsFiniteSet({y}) /\ Cardinality({y}) = 1
  BY FS_Singleton
<1>4. Cardinality(Cols \X {y}) = Width * 1
  BY <1>2, <1>3, FS_Product
<1> QED
  BY <1>1, <1>4, BoardAssumption

(* Removing a full line takes its cells away and no other. *)
LEMMA DropRowsCard ==
  ASSUME NEW wall \in SUBSET Cell, NEW y \in Rows, IsFull(wall, y)
  PROVE  /\ DropRows(wall, y) \in SUBSET Cell
         /\ Cardinality(DropRows(wall, y)) + Width = Cardinality(wall)
<1>0. y \in Int /\ 0 <= y /\ y < Height
  BY BoardAssumption DEF Rows
<1>1. PICK top \in Int :
        /\ -1 <= top /\ top < y
        /\ \A c \in wall : c[2] # top
        /\ DropRows(wall, y) =
             {c \in wall : c[2] > y \/ c[2] < top}
             \union {<<c[1], c[2] + 1>> : c \in {d \in wall : top < d[2] /\ d[2] < y}}
  BY DropRowsIs
<1> DEFINE S == wall \ Row(wall, y)
           D == DropRows(wall, y)
           f == [c \in S |-> IF c[2] > y \/ c[2] < top THEN c ELSE <<c[1], c[2] + 1>>]
<1>2. \A c \in S : /\ c \in wall /\ c \in Cell /\ c[2] # y /\ c[2] # top
                   /\ c[2] \in Int /\ 0 <= c[2] /\ c[2] < Height /\ c = <<c[1], c[2]>>
  BY <1>1, CellIs DEF Row
<1>3. \A c \in S : f[c] \in D
  <2> SUFFICES ASSUME NEW c \in S PROVE f[c] \in D
    OBVIOUS
  <2>1. CASE c[2] > y \/ c[2] < top
    BY <1>1, <1>2, <2>1
  <2>2. CASE ~(c[2] > y \/ c[2] < top)
    <3>1. top < c[2] /\ c[2] < y
      BY <1>0, <1>1, <1>2, <2>2
    <3> QED
      BY <1>1, <1>2, <2>2, <3>1
  <2> QED
    BY <2>1, <2>2
<1>4. \A d \in D : \E c \in S : f[c] = d
  <2> SUFFICES ASSUME NEW d \in D PROVE \E c \in S : f[c] = d
    OBVIOUS
  <2>1. CASE d \in {c \in wall : c[2] > y \/ c[2] < top}
    <3>1. d \in S
      BY <1>0, <1>1, <2>1, CellIs DEF Row
    <3> QED
      BY <2>1, <3>1
  <2>2. CASE \E c \in wall : top < c[2] /\ c[2] < y /\ d = <<c[1], c[2] + 1>>
    <3>1. PICK c \in wall : top < c[2] /\ c[2] < y /\ d = <<c[1], c[2] + 1>>
      BY <2>2
    <3>2. c \in S /\ ~(c[2] > y \/ c[2] < top)
      BY <1>0, <1>1, <3>1, CellIs DEF Row
    <3> QED
      BY <3>1, <3>2
  <2> QED
    BY <1>1, <2>1, <2>2
<1>5. ASSUME NEW c \in S, NEW d \in S, f[c] = f[d] PROVE c = d
  <2>1. /\ f[c] = IF c[2] > y \/ c[2] < top THEN c ELSE <<c[1], c[2] + 1>>
        /\ f[d] = IF d[2] > y \/ d[2] < top THEN d ELSE <<d[1], d[2] + 1>>
    BY <1>5
  <2> HIDE DEF S, f
  <2>2. c = <<c[1], c[2]>> /\ d = <<d[1], d[2]>>
    BY <1>2, <1>5
  <2>3. /\ f[c][1] = c[1] /\ f[d][1] = d[1]
        /\ f[c][2] = IF c[2] > y \/ c[2] < top THEN c[2] ELSE c[2] + 1
        /\ f[d][2] = IF d[2] > y \/ d[2] < top THEN d[2] ELSE d[2] + 1
    BY <2>1, <2>2
  <2>4. c[1] = d[1]
    BY <1>5, <2>3
  <2>5. c[2] = d[2]
    BY <1>0, <1>1, <1>2, <1>5, <2>3
  <2> QED
    BY <2>2, <2>4, <2>5
<1>6. f \in Bijection(S, D)
  <2>1. f \in [S -> D]
    BY <1>3
  <2> HIDE DEF S, D, f
  <2> QED
    BY <2>1, <1>3, <1>4, <1>5 DEF Bijection, Injection, Surjection, IsInjective
<1>7. D \in SUBSET Cell
  <2> SUFFICES ASSUME NEW d \in D PROVE d \in Cell
    OBVIOUS
  <2>1. PICK c \in S : f[c] = d
    BY <1>4
  <2>2. c \in Cell /\ c[1] \in Cols /\ c[2] \in Int /\ 0 <= c[2]
    BY <1>2, CellIs
  <2>3. CASE c[2] > y \/ c[2] < top
    BY <2>1, <2>2, <2>3
  <2>4. CASE ~(c[2] > y \/ c[2] < top)
    <3>1. d = <<c[1], c[2] + 1>>
      BY <2>1, <2>4
    <3>2. c[2] # y
      BY <1>2
    <3>3. c[2] + 1 \in Rows
      BY <1>0, <2>2, <2>4, <3>2, BoardAssumption DEF Rows
    <3> QED
      BY <2>2, <3>1, <3>3, CellIs
  <2> QED
    BY <2>3, <2>4
<1>8. Cardinality(D) = Cardinality(S)
  <2>1. IsFiniteSet(S)
    BY CellsFinite
  <2> HIDE DEF S, D, f
  <2>2. ExistsBijection(S, D)
    BY <1>6 DEF ExistsBijection
  <2> QED
    BY <2>1, <2>2, FS_Bijection
<1>9. Cardinality(S) + Width = Cardinality(wall)
  <2>1. Row(wall, y) \in SUBSET Cell /\ S \in SUBSET Cell /\ IsFiniteSet(wall)
    BY CellsFinite DEF Row
  <2>2. Cardinality(wall \ Row(wall, y)) = Cardinality(wall) - Cardinality(wall \cap Row(wall, y))
    BY <2>1, FS_Difference
  <2>3. wall \cap Row(wall, y) = Row(wall, y)
    BY DEF Row
  <2>4. Cardinality(Row(wall, y)) = Width
    BY FullRowCard
  <2>5. Cardinality(wall) \in Nat /\ Cardinality(S) \in Nat /\ Width \in Nat
    BY <2>1, CellsFinite, BoardAssumption
  <2> QED
    BY <2>2, <2>3, <2>4, <2>5
<1> QED
  BY <1>7, <1>8, <1>9

(* v is wall without row y, the rows between top and y moved down by one. *)
CutAt(v, wall, y, top) ==
  /\ -1 <= top /\ top < y
  /\ \A x : <<x, top>> \notin wall
  /\ \A x : \A z \in Int :
       <<x, z>> \in v <=>
         \/ <<x, z>> \in wall /\ (z > y \/ z < top)
         \/ <<x, z - 1>> \in wall /\ top < z - 1 /\ z - 1 < y

(* The same, as the cells that are in and those that are not. *)
LEMMA DropCells ==
  ASSUME NEW wall \in SUBSET Cell, NEW y \in Rows
  PROVE  \E top \in Int : CutAt(DropRows(wall, y), wall, y, top)
<1>1. PICK top \in Int :
        /\ -1 <= top /\ top < y
        /\ \A c \in wall : c[2] # top
        /\ \A g \in Rows : top < g /\ g < y => Row(wall, g) # {}
        /\ DropRows(wall, y) =
             {c \in wall : c[2] > y \/ c[2] < top}
             \union {<<c[1], c[2] + 1>> : c \in {d \in wall : top < d[2] /\ d[2] < y}}
  BY DropRowsIs
<1>2. \A x : <<x, top>> \notin wall
  BY <1>1
<1>3. ASSUME NEW x, NEW z \in Int
      PROVE  <<x, z>> \in DropRows(wall, y) <=>
               \/ <<x, z>> \in wall /\ (z > y \/ z < top)
               \/ <<x, z - 1>> \in wall /\ top < z - 1 /\ z - 1 < y
  <2>1. <<x, z>> \in {c \in wall : c[2] > y \/ c[2] < top}
        <=> <<x, z>> \in wall /\ (z > y \/ z < top)
    OBVIOUS
  <2>2. ASSUME NEW c \in wall, top < c[2], c[2] < y, <<x, z>> = <<c[1], c[2] + 1>>
        PROVE  <<x, z - 1>> \in wall /\ top < z - 1 /\ z - 1 < y
    <3>1. c = <<c[1], c[2]>> /\ c[2] \in Int
      BY CellIs
    <3>2. x = c[1] /\ z - 1 = c[2]
      BY <2>2, <3>1
    <3> QED
      BY <2>2, <3>1, <3>2
  <2>3. ASSUME <<x, z - 1>> \in wall, top < z - 1, z - 1 < y
        PROVE  \E c \in wall : top < c[2] /\ c[2] < y /\ <<x, z>> = <<c[1], c[2] + 1>>
    <3>1. <<x, z - 1>>[1] = x /\ <<x, z - 1>>[2] = z - 1 /\ (z - 1) + 1 = z
      OBVIOUS
    <3> QED
      BY <2>3, <3>1
  <2>4. <<x, z>> \in DropRows(wall, y) <=>
          \/ <<x, z>> \in {c \in wall : c[2] > y \/ c[2] < top}
          \/ \E c \in wall : top < c[2] /\ c[2] < y /\ <<x, z>> = <<c[1], c[2] + 1>>
    BY <1>1
  <2> QED
    BY <2>1, <2>2, <2>3, <2>4
<1>4. CutAt(DropRows(wall, y), wall, y, top)
  BY <1>1, <1>2, <1>3 DEF CutAt
<1> QED
  BY <1>4

(* RemoveLine counts, keeps the rows below, and leaves no full row above.  *)
LEMMA RemoveLineFacts ==
  ASSUME NEW wall \in SUBSET Cell, NEW y \in Rows
  PROVE  /\ RemoveLine(wall, y) \in SUBSET Cell
         /\ Cardinality(RemoveLine(wall, y)) + (IF IsFull(wall, y) THEN Width ELSE 0)
              = Cardinality(wall)
         /\ \A x : \A z \in Rows : z > y =>
              (<<x, z>> \in RemoveLine(wall, y) <=> <<x, z>> \in wall)
         /\ (\A z \in Rows : z < y => ~IsFull(wall, z)) =>
              \A z \in Rows : z <= y => ~IsFull(RemoveLine(wall, y), z)
<1>0. y \in Int /\ 0 <= y /\ y < Height /\ \A z \in Rows : z \in Int /\ 0 <= z
  BY BoardAssumption DEF Rows
<1>1. CASE ~IsFull(wall, y)
  <2>1. RemoveLine(wall, y) = wall /\ Cardinality(wall) \in Nat
    BY <1>1, CellsFinite DEF RemoveLine
  <2>2. \A z \in Rows : z <= y => z < y \/ z = y
    BY <1>0
  <2> QED
    BY <1>1, <2>1, <2>2
<1>2. CASE IsFull(wall, y)
  <2> DEFINE D == DropRows(wall, y)
  <2>1. RemoveLine(wall, y) = D
    BY <1>2 DEF RemoveLine
  <2>2. D \in SUBSET Cell /\ Cardinality(D) + Width = Cardinality(wall)
    BY <1>2, DropRowsCard
  <2>9. PICK top \in Int : CutAt(D, wall, y, top)
    BY DropCells
  <2> HIDE DEF D
  <2>3. /\ -1 <= top /\ top < y
        /\ \A x : <<x, top>> \notin wall
        /\ \A x : \A z \in Int :
             <<x, z>> \in D <=>
               \/ <<x, z>> \in wall /\ (z > y \/ z < top)
               \/ <<x, z - 1>> \in wall /\ top < z - 1 /\ z - 1 < y
    BY <2>9 DEF CutAt
  <2>4. ASSUME NEW x, NEW z \in Rows, z > y PROVE <<x, z>> \in D <=> <<x, z>> \in wall
    <3>1. ~(z - 1 < y)
      BY <1>0, <2>4
    <3> QED
      BY <1>0, <2>3, <2>4, <3>1
  <2>5. ASSUME \A z \in Rows : z < y => ~IsFull(wall, z), NEW z \in Rows, z <= y, IsFull(D, z)
        PROVE  FALSE
    <3>1. \A x \in Cols : <<x, z>> \in D
      BY <2>5 DEF IsFull, Cols
    <3>2. 0 \in Cols
      BY BoardAssumption DEF Cols
    <3>3. z \in Int /\ 0 <= z /\ ~(z > y)
      BY <1>0, <2>5
    <3>4. CASE z < top
      <4>1. ~(top < z - 1)
        BY <3>3, <3>4
      <4>2. \A x \in Cols : <<x, z>> \in wall
        BY <2>3, <3>1, <3>3, <4>1
      <4>3. z < y
        BY <1>0, <2>3, <3>3, <3>4
      <4> QED
        BY <2>5, <4>2, <4>3 DEF IsFull, Cols
    <3>5. CASE z >= top
      <4>1. ASSUME NEW x \in Cols PROVE <<x, z - 1>> \in wall /\ top < z - 1
        <5>1. ~(z > y \/ z < top)
          BY <2>3, <3>3, <3>5
        <5>2. <<x, z>> \in D
          BY <3>1
        <5> QED
          BY <2>3, <3>3, <5>1, <5>2
      <4>2. z - 1 \in Rows
        <5>1. top < z - 1
          BY <3>2, <4>1
        <5> QED
          BY <1>0, <2>3, <3>3, <5>1, BoardAssumption DEF Rows
      <4>3. z - 1 < y
        BY <1>0, <3>3
      <4> QED
        BY <2>5, <4>1, <4>2, <4>3 DEF IsFull, Cols
    <3> QED
      BY <2>3, <3>3, <3>4, <3>5
  <2> QED
    BY <1>2, <2>1, <2>2, <2>4, <2>5
<1> QED
  BY <1>1, <1>2

(* The loop of RemoveWall: after[n] exists and follows RemoveLine. *)
IsRun(f, wall) ==
  f = [n \in 0 .. Height |-> IF n = 0 THEN wall ELSE RemoveLine(f[n - 1], n - 1)]

LEMMA RunExists ==
  ASSUME NEW wall PROVE \E f : IsRun(f, wall) /\ RemoveWall(wall) = f[Height]
<1> DEFINE Good(f, m) == f = [n \in 0 .. m |-> IF n = 0 THEN wall ELSE RemoveLine(f[n - 1], n - 1)]
           T == {m \in Nat : \E f : Good(f, m)}
<1>1. 0 \in T
  <2>1. Good([n \in 0 .. 0 |-> wall], 0)
    OBVIOUS
  <2> HIDE DEF Good
  <2> QED
    BY <2>1
<1>2. ASSUME NEW m \in Nat, m \in T PROVE m + 1 \in T
  <2>1. PICK f : Good(f, m)
    BY <1>2
  <2> DEFINE g == [n \in 0 .. m + 1 |-> IF n = m + 1 THEN RemoveLine(f[m], m) ELSE f[n]]
  <2>2. ASSUME NEW n \in 0 .. m + 1
        PROVE  g[n] = IF n = 0 THEN wall ELSE RemoveLine(g[n - 1], n - 1)
    <3>1. CASE n = m + 1
      <4>1. n - 1 = m /\ m \in 0 .. m + 1 /\ n # 0 /\ m # m + 1
        BY <3>1
      <4>2. g[n] = RemoveLine(f[m], m) /\ g[m] = f[m]
        BY <3>1, <4>1
      <4> QED
        BY <4>1, <4>2
    <3>2. CASE n # m + 1
      <4>1. n \in 0 .. m /\ (n # 0 => n - 1 \in 0 .. m + 1 /\ n - 1 # m + 1)
        BY <3>2
      <4>2. g[n] = f[n] /\ (n # 0 => g[n - 1] = f[n - 1])
        BY <3>2, <4>1
      <4>3. f[n] = IF n = 0 THEN wall ELSE RemoveLine(f[n - 1], n - 1)
        BY <2>1, <4>1
      <4> QED
        BY <4>2, <4>3
    <3> QED
      BY <3>1, <3>2
  <2>3. g = [n \in 0 .. m + 1 |-> g[n]]
    OBVIOUS
  <2> HIDE DEF g
  <2>4. Good(g, m + 1)
    BY <2>2, <2>3
  <2> HIDE DEF Good
  <2> QED
    BY <2>4
<1>3. Height \in T
  <2> HIDE DEF T
  <2>1. Nat \subseteq T
    BY <1>1, <1>2, NatClosed
  <2> QED
    BY <2>1, BoardAssumption
<1> DEFINE R(f) == f = [n \in 0 .. Height |-> IF n = 0 THEN wall ELSE RemoveLine(f[n - 1], n - 1)]
<1>4. \E f : R(f)
  BY <1>3
<1>5. RemoveWall(wall) = (CHOOSE f : R(f))[Height]
  BY DEF RemoveWall
<1> HIDE DEF R
<1>6. R(CHOOSE f : R(f))
  BY <1>4
<1>7. \E f : R(f) /\ RemoveWall(wall) = f[Height]
  BY <1>5, <1>6
<1> QED
  BY <1>7 DEF R, IsRun

LEMMA TimesNat == ASSUME NEW a \in Nat, NEW k \in Nat PROVE a * k \in Nat
  OBVIOUS

LEMMA TimesNext == ASSUME NEW a \in Nat, NEW k \in Nat PROVE a * (k + 1) = a * k + a
  OBVIOUS

(* After n rows: the rows from n on are untouched, none of the others is   *)
(* full, and a row's worth of cells is gone for every full row so far.     *)
LEMMA RunFacts ==
  ASSUME NEW wall \in SUBSET Cell, NEW f, IsRun(f, wall), NEW n \in 0 .. Height
  PROVE  /\ f[n] \in SUBSET Cell
         /\ \A x : \A z \in Rows : z >= n => (<<x, z>> \in f[n] <=> <<x, z>> \in wall)
         /\ \A z \in Rows : z < n => ~IsFull(f[n], z)
         /\ Cardinality(f[n]) + Width * Cardinality({y \in FullRows(wall) : y < n})
              = Cardinality(wall)
<1> DEFINE Sofar(m) == {y \in FullRows(wall) : y < m}
           P(m) == /\ f[m] \in SUBSET Cell
                   /\ \A x : \A z \in Rows : z >= m => (<<x, z>> \in f[m] <=> <<x, z>> \in wall)
                   /\ \A z \in Rows : z < m => ~IsFull(f[m], z)
                   /\ Cardinality(f[m]) + Width * Cardinality(Sofar(m)) = Cardinality(wall)
           T == {m \in Nat : m <= Height => P(m)}
<1>0. /\ Height \in Nat /\ Width \in Nat /\ \A z \in Rows : z \in Int /\ 0 <= z
      /\ f[0] = wall
      /\ \A m \in Nat : m + 1 <= Height => f[m + 1] = RemoveLine(f[m], m)
  <2>1. Height \in Nat /\ Width \in Nat /\ \A z \in Rows : z \in Int /\ 0 <= z
    BY BoardAssumption DEF Rows
  <2>2. f[0] = wall
    BY <2>1 DEF IsRun
  <2>3. ASSUME NEW m \in Nat, m + 1 <= Height PROVE f[m + 1] = RemoveLine(f[m], m)
    <3>1. m + 1 \in 0 .. Height /\ m + 1 # 0 /\ (m + 1) - 1 = m
      BY <2>1, <2>3
    <3>2. f[m + 1] = IF m + 1 = 0 THEN wall ELSE RemoveLine(f[(m + 1) - 1], (m + 1) - 1)
      BY <3>1 DEF IsRun
    <3> QED
      BY <3>1, <3>2
  <2> QED
    BY <2>1, <2>2, <2>3
<1>1. \A m : IsFiniteSet(Sofar(m)) /\ Cardinality(Sofar(m)) \in Nat
  <2>1. \A m : Sofar(m) \in SUBSET (0 .. Height - 1)
    BY DEF FullRows
  <2>2. IsFiniteSet(0 .. Height - 1)
    BY <1>0, FS_Interval
  <2> HIDE DEF Sofar
  <2> QED
    BY <2>1, <2>2, FS_Subset, FS_CardinalityType
<1>2. P(0)
  <2>1. Sofar(0) = {}
    BY <1>0 DEF FullRows, Rows
  <2>2. Cardinality(Sofar(0)) = 0
    BY <2>1, FS_EmptySet
  <2>3. Cardinality(wall) \in Nat
    BY CellsFinite
  <2> HIDE DEF Sofar
  <2> QED
    BY <1>0, <2>2, <2>3
<1>3. ASSUME NEW m \in Nat, m + 1 <= Height, P(m) PROVE P(m + 1)
  <2>1. m \in Rows
    BY <1>0, <1>3 DEF Rows
  <2>2. f[m] \in SUBSET Cell
    BY <1>3
  <2>3. PICK u, v : u = f[m] /\ v = f[m + 1]
    OBVIOUS
  <2>4. v = RemoveLine(u, m) /\ u \in SUBSET Cell
    BY <1>0, <1>3, <2>2, <2>3
  <2>5. /\ v \in SUBSET Cell
        /\ Cardinality(v) + (IF IsFull(u, m) THEN Width ELSE 0) = Cardinality(u)
        /\ \A x : \A z \in Rows : z > m => (<<x, z>> \in v <=> <<x, z>> \in u)
        /\ (\A z \in Rows : z < m => ~IsFull(u, z)) => \A z \in Rows : z <= m => ~IsFull(v, z)
    BY <2>1, <2>4, RemoveLineFacts
  <2>6. ASSUME NEW x, NEW z \in Rows, z >= m + 1 PROVE <<x, z>> \in v <=> <<x, z>> \in wall
    <3>1. z > m /\ z >= m
      BY <1>0, <2>6
    <3> QED
      BY <1>3, <2>3, <2>5, <3>1
  <2>7. ASSUME NEW z \in Rows, z < m + 1 PROVE ~IsFull(v, z)
    <3>1. z <= m
      BY <1>0, <2>7
    <3> QED
      BY <1>3, <2>3, <2>5, <3>1
  <2>8. IsFull(u, m) <=> IsFull(wall, m)
    <3>1. \A x : <<x, m>> \in u <=> <<x, m>> \in wall
      BY <1>3, <2>1, <2>3
    <3> QED
      BY <3>1 DEF IsFull
  <2>9. m \notin Sofar(m) /\ Sofar(m + 1) = IF IsFull(wall, m) THEN Sofar(m) \cup {m} ELSE Sofar(m)
    <3>1. \A y \in FullRows(wall) : y \in Int /\ IsFull(wall, y)
      BY DEF FullRows
    <3>2. m \in FullRows(wall) <=> IsFull(wall, m)
      BY <2>1 DEF FullRows, Rows
    <3>3. \A y \in FullRows(wall) : y < m + 1 <=> y < m \/ y = m
      BY <3>1
    <3> QED
      BY <3>1, <3>2, <3>3
  <2>10. Cardinality(Sofar(m + 1)) = Cardinality(Sofar(m)) + (IF IsFull(wall, m) THEN 1 ELSE 0)
    <3> HIDE DEF Sofar
    <3>1. CASE IsFull(wall, m)
      BY <1>1, <2>9, <3>1, FS_AddElement
    <3>2. CASE ~IsFull(wall, m)
      BY <1>1, <2>9, <3>2
    <3> QED
      BY <3>1, <3>2
  <2>11. Cardinality(v) + Width * Cardinality(Sofar(m + 1)) = Cardinality(wall)
    <3>1. PICK k, l, cu, cv, cw :
            /\ k = Cardinality(Sofar(m)) /\ l = Cardinality(Sofar(m + 1))
            /\ cu = Cardinality(u) /\ cv = Cardinality(v) /\ cw = Cardinality(wall)
      OBVIOUS
    <3>2. k \in Nat /\ cu \in Nat /\ cv \in Nat /\ cw \in Nat
      <4> HIDE DEF Sofar
      <4> QED
        BY <1>1, <2>4, <2>5, <3>1, CellsFinite
    <3>3. cu + Width * k = cw
      BY <1>3, <2>3, <3>1
    <3> HIDE DEF Sofar
    <3>4. CASE IsFull(wall, m)
      <4>1. l = k + 1 /\ cv + Width = cu
        BY <2>5, <2>8, <2>10, <3>1, <3>2, <3>4
      <4>2. Width * (k + 1) = Width * k + Width /\ Width * k \in Nat
        BY <1>0, <3>2, TimesNext
      <4>3. cv + Width * l = cw
        BY <1>0, <3>2, <3>3, <4>1, <4>2
      <4> QED
        BY <3>1, <4>3
    <3>5. CASE ~IsFull(wall, m)
      <4>1. l = k /\ cv = cu
        BY <2>5, <2>8, <2>10, <3>1, <3>2, <3>5
      <4> QED
        BY <3>1, <3>3, <4>1
    <3> QED
      BY <3>4, <3>5
  <2> HIDE DEF Sofar
  <2> QED
    BY <2>3, <2>5, <2>6, <2>7, <2>11
<1> HIDE DEF P
<1>4. Nat \subseteq T
  <2>1. 0 \in T
    BY <1>2
  <2>2. ASSUME NEW m \in Nat, m \in T PROVE m + 1 \in T
    <3>1. m + 1 <= Height => m <= Height
      BY <1>0
    <3> QED
      BY <1>3, <2>2, <3>1
  <2> HIDE DEF T
  <2> QED
    BY <2>1, <2>2, NatClosed
<1>5. P(n)
  <2>1. n \in Nat /\ n <= Height
    BY <1>0
  <2> QED
    BY <1>4, <2>1
<1> QED
  BY <1>5 DEF P

(* RemoveWall leaves no full row, and takes away what was in them. *)
LEMMA RemoveWallCounts ==
  ASSUME NEW wall \in SUBSET Cell
  PROVE  /\ RemoveWall(wall) \in SUBSET Cell
         /\ FullRows(RemoveWall(wall)) = {}
         /\ Cardinality(FullRows(wall)) \in Nat
         /\ Cardinality(RemoveWall(wall)) + Width * Cardinality(FullRows(wall)) = Cardinality(wall)
<1>1. PICK f : IsRun(f, wall) /\ RemoveWall(wall) = f[Height]
  BY RunExists
<1>2. Height \in 0 .. Height /\ Height \in Nat
  BY BoardAssumption
<1>3. /\ f[Height] \in SUBSET Cell
      /\ \A z \in Rows : z < Height => ~IsFull(f[Height], z)
      /\ Cardinality(f[Height]) + Width * Cardinality({y \in FullRows(wall) : y < Height})
           = Cardinality(wall)
  BY <1>1, <1>2, RunFacts
<1>4. \A z \in Rows : z < Height
  BY <1>2 DEF Rows
<1>5. {y \in FullRows(wall) : y < Height} = FullRows(wall)
  BY <1>4 DEF FullRows, Rows
<1>6. FullRows(f[Height]) = {}
  BY <1>3, <1>4 DEF FullRows, Rows
<1>7. Cardinality(FullRows(wall)) \in Nat
  <2>1. FullRows(wall) \in SUBSET (0 .. Height - 1) /\ IsFiniteSet(0 .. Height - 1)
    BY <1>2, FS_Interval DEF FullRows
  <2> QED
    BY <2>1, FS_Subset, FS_CardinalityType
<1> QED
  BY <1>1, <1>3, <1>5, <1>6, <1>7

-----------------------------------------------------------------------------
(* The rows above an empty one are empty too. *)
Stacked(wall, n) ==
  \A z, g \in Rows : g < z /\ z < n /\ (\A x : <<x, z>> \notin wall) => \A x : <<x, g>> \notin wall

LEMMA GaplessStacked ==
  ASSUME NEW wall \in SUBSET Cell, Gapless(wall) PROVE Stacked(wall, Height)
<1>0. Height \in Nat /\ \A z : z \in Rows <=> z \in Int /\ 0 <= z /\ z < Height
  BY BoardAssumption DEF Rows
<1>1. \A z : (\A x : <<x, z>> \notin wall) <=> Row(wall, z) = {}
  BY CellIs DEF Row
<1> SUFFICES ASSUME NEW z \in Rows, NEW g \in Rows, g < z, Row(wall, z) = {}
             PROVE  Row(wall, g) = {}
  BY <1>1 DEF Stacked
<1> DEFINE T == {k \in Nat : k <= z => Row(wall, z - k) = {}}
<1>2. 0 \in T
  BY <1>0
<1>3. ASSUME NEW k \in Nat, k \in T PROVE k + 1 \in T
  <2> SUFFICES ASSUME k + 1 <= z PROVE Row(wall, z - (k + 1)) = {}
    OBVIOUS
  <2>1. k <= z /\ z - k \in 1 .. Height - 1 /\ (z - k) - 1 = z - (k + 1)
    BY <1>0
  <2>2. Row(wall, z - k) = {}
    BY <1>3, <2>1
  <2> QED
    BY <2>1, <2>2 DEF Gapless
<1>4. Nat \subseteq T
  <2> HIDE DEF T
  <2> QED
    BY <1>2, <1>3, NatClosed
<1>5. z - g \in Nat /\ z - g <= z /\ z - (z - g) = g
  BY <1>0
<1> QED
  BY <1>4, <1>5

(* Removing a line below stacked rows moves all of them down by one. *)
LEMMA LineDropsStack ==
  ASSUME NEW wall \in SUBSET Cell, NEW y \in Rows, IsFull(wall, y), Stacked(wall, y)
  PROVE  \A x : \A z \in Rows : z <= y =>
           (<<x, z>> \in RemoveLine(wall, y) <=> <<x, z - 1>> \in wall)
<1>0. \A z : z \in Rows <=> z \in Int /\ 0 <= z /\ z < Height
  BY BoardAssumption DEF Rows
<1>1. \A x, z : <<x, z>> \in wall => z \in Rows
  BY CellIs
<1>7. PICK top \in Int : CutAt(RemoveLine(wall, y), wall, y, top)
  BY DropCells DEF RemoveLine
<1>2. /\ -1 <= top /\ top < y
      /\ \A x : <<x, top>> \notin wall
      /\ \A x : \A z \in Int :
           <<x, z>> \in RemoveLine(wall, y) <=>
             \/ <<x, z>> \in wall /\ (z > y \/ z < top)
             \/ <<x, z - 1>> \in wall /\ top < z - 1 /\ z - 1 < y
  BY <1>7 DEF CutAt
<1>3. ASSUME NEW z \in Rows, z < top PROVE \A x : <<x, z>> \notin wall
  <2>1. top \in Rows
    BY <1>0, <1>2, <1>3, BoardAssumption
  <2> QED
    BY <1>2, <1>3, <2>1 DEF Stacked
<1> SUFFICES ASSUME NEW x, NEW z \in Rows, z <= y
             PROVE  <<x, z>> \in RemoveLine(wall, y) <=> <<x, z - 1>> \in wall
  OBVIOUS
<1>4. z \in Int /\ z - 1 < y /\ ~(z > y) /\ y \in Int
  BY <1>0
<1>5. z < top => <<x, z>> \notin wall
  BY <1>3
<1>6. <<x, z - 1>> \in wall => top < z - 1
  <2> SUFFICES ASSUME <<x, z - 1>> \in wall, ~(top < z - 1) PROVE FALSE
    OBVIOUS
  <2>1. z - 1 # top
    BY <1>2
  <2>2. z - 1 \in Rows /\ z - 1 < top
    BY <1>1, <1>4, <2>1
  <2> QED
    BY <1>3, <2>2
<1> QED
  BY <1>2, <1>4, <1>5, <1>6

(* How far row y has moved when n rows have been gone over. *)
Shift(wall, y, n) == Cardinality({g \in FullRows(wall) : y < g /\ g < n})

LEMMA ShiftFacts ==
  ASSUME NEW wall \in SUBSET Cell, NEW y \in Rows
  PROVE  /\ \A n \in Nat : Shift(wall, y, n) \in Nat /\ (y < n => y + Shift(wall, y, n) < n)
         /\ \A n \in Rows : y < n =>
              Shift(wall, y, n + 1) = Shift(wall, y, n) + (IF IsFull(wall, n) THEN 1 ELSE 0)
         /\ Shift(wall, y, y + 1) = 0
<1> DEFINE B(n) == {g \in FullRows(wall) : y < g /\ g < n}
<1>0. /\ Height \in Nat /\ \A z : z \in Rows <=> z \in Int /\ 0 <= z /\ z < Height
      /\ \A g : g \in FullRows(wall) <=> g \in Rows /\ IsFull(wall, g)
  BY BoardAssumption DEF Rows, FullRows
<1>1. ASSUME NEW n \in Nat
      PROVE  /\ IsFiniteSet(B(n)) /\ Cardinality(B(n)) \in Nat
             /\ y < n => y + Cardinality(B(n)) < n
  <2>1. B(n) \in SUBSET (y + 1 .. n - 1)
    BY <1>0
  <2>2. /\ IsFiniteSet(y + 1 .. n - 1)
        /\ Cardinality(y + 1 .. n - 1) = IF y + 1 > n - 1 THEN 0 ELSE (n - 1) - (y + 1) + 1
    <3>1. y + 1 \in Int /\ n - 1 \in Int
      BY <1>0
    <3> QED
      BY <3>1, FS_Interval, Zenon
  <2>3. IsFiniteSet(B(n)) /\ Cardinality(B(n)) <= Cardinality(y + 1 .. n - 1)
        /\ Cardinality(B(n)) \in Nat
    <3> HIDE DEF B
    <3> QED
      BY <2>1, <2>2, FS_Subset, FS_CardinalityType
  <2> HIDE DEF B
  <2>4. y \in Int
    BY <1>0
  <2> QED
    BY <2>2, <2>3, <2>4
<1>2. ASSUME NEW n \in Rows, y < n
      PROVE  Cardinality(B(n + 1)) = Cardinality(B(n)) + (IF IsFull(wall, n) THEN 1 ELSE 0)
  <2>1. n \in Nat
    BY <1>0
  <2>2. \A g \in FullRows(wall) : g < n + 1 <=> g < n \/ g = n
    BY <1>0
  <2>3. CASE IsFull(wall, n)
    <3>1. B(n + 1) = B(n) \cup {n} /\ n \notin B(n)
      BY <1>0, <1>2, <2>2, <2>3
    <3> HIDE DEF B
    <3>2. Cardinality(B(n) \cup {n}) = Cardinality(B(n)) + 1
      BY <1>1, <2>1, <3>1, FS_AddElement
    <3> QED
      BY <2>3, <3>1, <3>2
  <2>4. CASE ~IsFull(wall, n)
    <3>1. B(n + 1) = B(n)
      BY <1>0, <2>2, <2>4
    <3>2. Cardinality(B(n)) \in Nat
      BY <1>1, <2>1
    <3> HIDE DEF B
    <3> QED
      BY <2>4, <3>1, <3>2
  <2> QED
    BY <2>3, <2>4
<1>3. Cardinality(B(y + 1)) = 0
  <2>1. B(y + 1) = {}
    BY <1>0
  <2> HIDE DEF B
  <2> QED
    BY <2>1, FS_EmptySet
<1> HIDE DEF B
<1>4. \A n : Shift(wall, y, n) = Cardinality(B(n))
  BY DEF Shift, B
<1> QED
  BY <1>1, <1>2, <1>3, <1>4

(* The cell of the wall that is at <<x, z>> after n rows. *)
CameDown(wall, x, z, n) ==
  \E y \in Rows : /\ y < n /\ ~IsFull(wall, y) /\ <<x, y>> \in wall
                  /\ z = y + Shift(wall, y, n)

(* On a wall without empty rows in it, what is above row n after n rows is *)
(* the rows that were not full, each moved down by its shift.              *)
LEMMA RunCompacts ==
  ASSUME NEW wall \in SUBSET Cell, Gapless(wall), NEW f, IsRun(f, wall), NEW n \in 0 .. Height
  PROVE  \A x : \A z \in Rows : z < n =>
           (<<x, z>> \in f[n] <=> CameDown(wall, x, z, n))
<1> DEFINE P(m) == /\ Stacked(f[m], m)
                   /\ \A x : \A z \in Rows : z < m => (<<x, z>> \in f[m] <=> CameDown(wall, x, z, m))
           T == {m \in Nat : m <= Height => P(m)}
<1>0. /\ Height \in Nat /\ \A z : z \in Rows <=> z \in Int /\ 0 <= z /\ z < Height
      /\ \A m \in Nat : m + 1 <= Height => f[m + 1] = RemoveLine(f[m], m)
  <2>1. Height \in Nat /\ \A z : z \in Rows <=> z \in Int /\ 0 <= z /\ z < Height
    BY BoardAssumption DEF Rows
  <2>2. ASSUME NEW m \in Nat, m + 1 <= Height PROVE f[m + 1] = RemoveLine(f[m], m)
    <3>1. m + 1 \in 0 .. Height /\ m + 1 # 0 /\ (m + 1) - 1 = m
      BY <2>1, <2>2
    <3>2. f[m + 1] = IF m + 1 = 0 THEN wall ELSE RemoveLine(f[(m + 1) - 1], (m + 1) - 1)
      BY <3>1 DEF IsRun
    <3> QED
      BY <3>1, <3>2
  <2> QED
    BY <2>1, <2>2
<1>1. Stacked(wall, Height)
  BY GaplessStacked
<1>2. P(0)
  <2>1. \A z \in Rows : ~(z < 0)
    BY <1>0
  <2> QED
    BY <2>1 DEF Stacked
<1>3. ASSUME NEW m \in Nat, m + 1 <= Height, P(m) PROVE P(m + 1)
  <2>1. m \in Rows /\ m \in 0 .. Height
    BY <1>0, <1>3
  <2>2. PICK u, v : u = f[m] /\ v = f[m + 1]
    OBVIOUS
  <2>3. /\ v = RemoveLine(u, m) /\ u \in SUBSET Cell
        /\ \A x : \A z \in Rows : z >= m => (<<x, z>> \in u <=> <<x, z>> \in wall)
    BY <1>0, <1>3, <2>1, <2>2, RunFacts
  <2>4. Stacked(u, m) /\ \A x : \A z \in Rows : z < m => (<<x, z>> \in u <=> CameDown(wall, x, z, m))
    BY <1>3, <2>2
  <2>5. /\ \A x : <<x, m>> \in u <=> <<x, m>> \in wall
        /\ IsFull(u, m) <=> IsFull(wall, m)
    <3>1. \A x : <<x, m>> \in u <=> <<x, m>> \in wall
      BY <2>1, <2>3
    <3> QED
      BY <3>1 DEF IsFull
  <2>6. \A x, z : <<x, z>> \in u \/ <<x, z>> \in wall => z \in Rows
    BY <2>3, CellIs
  <2> SUFFICES /\ Stacked(v, m + 1)
               /\ \A x : \A z \in Rows : z < m + 1 => (<<x, z>> \in v <=> CameDown(wall, x, z, m + 1))
    BY <2>2
  <2>7. CASE IsFull(wall, m)
    <3>1. \A x : \A z \in Rows : z <= m => (<<x, z>> \in v <=> <<x, z - 1>> \in u)
      BY <2>1, <2>3, <2>4, <2>5, <2>7, LineDropsStack
    <3>2. ASSUME NEW z \in Rows, NEW g \in Rows, g < z, z < m + 1, \A x : <<x, z>> \notin v, NEW x
          PROVE  <<x, g>> \notin v
      <4>1. z <= m /\ g <= m /\ z - 1 \in Rows /\ g - 1 < z - 1 /\ z - 1 < m
        BY <1>0, <2>1, <3>2
      <4>2. \A w : <<w, z - 1>> \notin u
        BY <3>1, <3>2, <4>1
      <4>3. g - 1 \in Rows => <<x, g - 1>> \notin u
        BY <2>4, <4>1, <4>2 DEF Stacked
      <4> QED
        BY <2>6, <3>1, <3>2, <4>1, <4>3
    <3>3. ASSUME NEW x, NEW z \in Rows, z < m + 1 PROVE <<x, z>> \in v <=> CameDown(wall, x, z, m + 1)
      <4>1. z <= m /\ z \in Int /\ z - 1 < m
        BY <1>0, <2>1, <3>3
      <4>2. <<x, z>> \in v <=> <<x, z - 1>> \in u
        BY <3>1, <4>1
      <4>3. \A y \in Rows : /\ y < m => Shift(wall, y, m) \in Nat
                            /\ y < m => Shift(wall, y, m + 1) = Shift(wall, y, m) + 1
        BY <2>1, <2>7, ShiftFacts
      <4>4. \A y \in Rows : y < m + 1 /\ ~IsFull(wall, y) <=> y < m /\ ~IsFull(wall, y)
        BY <1>0, <2>1, <2>7
      <4>5. ASSUME <<x, z - 1>> \in u PROVE CameDown(wall, x, z, m + 1)
        <5>1. z - 1 \in Rows
          BY <2>6, <4>5
        <5>2. PICK y \in Rows : /\ y < m /\ ~IsFull(wall, y) /\ <<x, y>> \in wall
                                /\ z - 1 = y + Shift(wall, y, m)
          BY <2>4, <4>1, <4>5, <5>1 DEF CameDown
        <5>3. z = y + Shift(wall, y, m + 1)
          BY <1>0, <4>1, <4>3, <5>2
        <5> QED
          BY <4>4, <5>2, <5>3 DEF CameDown
      <4>6. ASSUME CameDown(wall, x, z, m + 1) PROVE <<x, z - 1>> \in u
        <5>1. PICK y \in Rows : /\ y < m + 1 /\ ~IsFull(wall, y) /\ <<x, y>> \in wall
                                /\ z = y + Shift(wall, y, m + 1)
          BY <4>6 DEF CameDown
        <5>2. y < m
          BY <4>4, <5>1
        <5>3. z - 1 = y + Shift(wall, y, m) /\ 0 <= z - 1
          BY <1>0, <4>3, <5>1, <5>2
        <5>4. z - 1 \in Rows
          BY <1>0, <4>1, <5>3
        <5>5. CameDown(wall, x, z - 1, m)
          BY <5>1, <5>2, <5>3 DEF CameDown
        <5> QED
          BY <2>4, <4>1, <5>4, <5>5
      <4> QED
        BY <4>2, <4>5, <4>6
    <3> QED
      BY <3>2, <3>3 DEF Stacked
  <2>8. CASE ~IsFull(wall, m)
    <3>1. v = u
      BY <2>3, <2>5, <2>8 DEF RemoveLine
    <3>2. ASSUME NEW z \in Rows, NEW g \in Rows, g < z, z < m + 1, \A x : <<x, z>> \notin v, NEW x
          PROVE  <<x, g>> \notin v
      <4>1. CASE z < m
        BY <2>4, <3>1, <3>2, <4>1 DEF Stacked
      <4>2. CASE z = m
        <5>1. \A w : <<w, m>> \notin wall
          BY <2>5, <3>1, <3>2, <4>2
        <5>2. \A y \in Rows : y < m => \A w : <<w, y>> \notin wall
          BY <1>0, <1>1, <2>1, <5>1 DEF Stacked
        <5>3. g < m
          BY <3>2, <4>2
        <5> QED
          BY <2>4, <3>1, <5>2, <5>3 DEF CameDown
      <4> QED
        BY <1>0, <3>2, <4>1, <4>2
    <3>3. ASSUME NEW x, NEW z \in Rows, z < m + 1 PROVE <<x, z>> \in v <=> CameDown(wall, x, z, m + 1)
      <4>1. \A y \in Rows : y < m =>
              /\ Shift(wall, y, m + 1) = Shift(wall, y, m) /\ y + Shift(wall, y, m) < m
              /\ y + Shift(wall, y, m) \in Int
        <5>1. ASSUME NEW y \in Rows, y < m
              PROVE  /\ Shift(wall, y, m + 1) = Shift(wall, y, m) + 0
                     /\ y + Shift(wall, y, m) < m /\ Shift(wall, y, m) \in Nat /\ y \in Int
          BY <1>0, <2>1, <2>8, <5>1, ShiftFacts
        <5> QED
          BY <5>1
      <4>2. Shift(wall, m, m + 1) = 0
        BY <2>1, ShiftFacts
      <4>3. \A y \in Rows : y < m + 1 <=> y < m \/ y = m
        BY <1>0
      <4>4. CASE z < m
        <5>1. CameDown(wall, x, z, m) => CameDown(wall, x, z, m + 1)
          BY <4>1, <4>3 DEF CameDown
        <5>2. CameDown(wall, x, z, m + 1) => CameDown(wall, x, z, m)
          <6>1. SUFFICES ASSUME CameDown(wall, x, z, m + 1) PROVE CameDown(wall, x, z, m)
            OBVIOUS
          <6>2. PICK y \in Rows : /\ y < m + 1 /\ ~IsFull(wall, y) /\ <<x, y>> \in wall
                                  /\ z = y + Shift(wall, y, m + 1)
            BY <6>1 DEF CameDown
          <6>3. y # m
            BY <1>0, <4>2, <4>4, <6>2
          <6> QED
            BY <4>1, <4>3, <6>2, <6>3 DEF CameDown
        <5> QED
          BY <2>4, <3>1, <4>4, <5>1, <5>2
      <4>5. CASE z = m
        <5>1. <<x, m>> \in wall => CameDown(wall, x, z, m + 1)
          <6>1. m < m + 1 /\ m = m + Shift(wall, m, m + 1)
            BY <4>2
          <6> QED
            BY <2>1, <2>8, <4>5, <6>1 DEF CameDown
        <5>2. CameDown(wall, x, z, m + 1) => <<x, m>> \in wall
          <6>1. SUFFICES ASSUME CameDown(wall, x, z, m + 1) PROVE <<x, m>> \in wall
            OBVIOUS
          <6>2. PICK y \in Rows : /\ y < m + 1 /\ ~IsFull(wall, y) /\ <<x, y>> \in wall
                                  /\ z = y + Shift(wall, y, m + 1)
            BY <6>1 DEF CameDown
          <6>3. y = m
            BY <4>1, <4>3, <4>5, <6>2
          <6> QED
            BY <6>2, <6>3
        <5> QED
          BY <2>5, <3>1, <4>5, <5>1, <5>2
      <4> QED
        BY <3>3, <4>3, <4>4, <4>5
    <3> QED
      BY <3>2, <3>3 DEF Stacked
  <2> QED
    BY <2>7, <2>8
<1> HIDE DEF P
<1>4. Nat \subseteq T
  <2>1. 0 \in T
    BY <1>2
  <2>2. ASSUME NEW m \in Nat, m \in T PROVE m + 1 \in T
    <3>1. m + 1 <= Height => m <= Height
      BY <1>0
    <3> QED
      BY <1>3, <2>2, <3>1
  <2> HIDE DEF T
  <2> QED
    BY <2>1, <2>2, NatClosed
<1>5. P(n)
  <2>1. n \in Nat /\ n <= Height
    BY <1>0
  <2> QED
    BY <1>4, <2>1
<1> QED
  BY <1>5 DEF P

(* On such a wall RemoveWall gives the textbook result. *)
LEMMA RemoveWallCompacts ==
  ASSUME NEW wall \in SUBSET Cell, Gapless(wall) PROVE RemoveWall(wall) = Compacted(wall)
<1>0. /\ Height \in 0 .. Height /\ Height \in Nat
      /\ \A z : z \in Rows <=> z \in Int /\ 0 <= z /\ z < Height
      /\ \A g : g \in FullRows(wall) <=> g \in Rows /\ IsFull(wall, g)
  BY BoardAssumption DEF Rows, FullRows
<1>1. PICK f : IsRun(f, wall) /\ RemoveWall(wall) = f[Height]
  BY RunExists
<1>2. f[Height] \in SUBSET Cell
  BY <1>0, <1>1, RunFacts
<1>3. \A x : \A z \in Rows : z < Height =>
        (<<x, z>> \in f[Height] <=> CameDown(wall, x, z, Height))
  <2>1. Height \in 0 .. Height /\ IsRun(f, wall)
    BY <1>0, <1>1
  <2> QED
    BY <2>1, RunCompacts
<1>4. \A y \in Rows : /\ {g \in FullRows(wall) : g > y} = {g \in FullRows(wall) : y < g /\ g < Height}
                      /\ y + Shift(wall, y, Height) \in Rows
  <2>1. ASSUME NEW y \in Rows
        PROVE  {g \in FullRows(wall) : g > y} = {g \in FullRows(wall) : y < g /\ g < Height}
    BY <1>0
  <2>2. ASSUME NEW y \in Rows PROVE y + Shift(wall, y, Height) \in Rows
    <3>1. Shift(wall, y, Height) \in Nat /\ y + Shift(wall, y, Height) < Height
      BY <1>0, ShiftFacts
    <3> QED
      BY <1>0, <3>1
  <2> QED
    BY <2>1, <2>2
<1>5. \A y \in Rows : Cardinality({g \in FullRows(wall) : g > y}) = Shift(wall, y, Height)
  BY <1>4 DEF Shift
<1>6. ASSUME NEW c \in f[Height] PROVE c \in Compacted(wall)
  <2>1. c \in Cell /\ c = <<c[1], c[2]>> /\ c[2] \in Rows /\ c[2] < Height
    BY <1>2, <1>6, CellIs
  <2>2. PICK y \in Rows : /\ ~IsFull(wall, y) /\ <<c[1], y>> \in wall
                          /\ c[2] = y + Shift(wall, y, Height)
    BY <1>3, <1>6, <2>1 DEF CameDown
  <2>3. PICK d : d = <<c[1], y>>
    OBVIOUS
  <2>4. d \in wall /\ d[1] = c[1] /\ d[2] = y /\ d[2] \notin FullRows(wall)
    BY <1>0, <2>2, <2>3
  <2>5. c = <<d[1], d[2] + Cardinality({g \in FullRows(wall) : g > d[2]})>>
    BY <1>5, <2>1, <2>2, <2>4
  <2> QED
    BY <2>4, <2>5 DEF Compacted
<1>7. ASSUME NEW c \in Compacted(wall) PROVE c \in f[Height]
  <2>1. PICK d \in wall : /\ d[2] \notin FullRows(wall)
                          /\ c = <<d[1], d[2] + Cardinality({g \in FullRows(wall) : g > d[2]})>>
    BY <1>7 DEF Compacted
  <2>2. d = <<d[1], d[2]>> /\ d[2] \in Rows
    BY CellIs
  <2>3. PICK x, y : x = d[1] /\ y = d[2]
    OBVIOUS
  <2>4. /\ <<x, y>> \in wall /\ y \in Rows /\ ~IsFull(wall, y) /\ y < Height
        /\ c = <<x, y + Shift(wall, y, Height)>>
    BY <1>0, <1>5, <2>1, <2>2, <2>3
  <2>5. y + Shift(wall, y, Height) \in Rows /\ y + Shift(wall, y, Height) < Height
    BY <1>0, <1>4, <2>4
  <2> QED
    BY <1>3, <2>4, <2>5 DEF CameDown
<1> QED
  BY <1>1, <1>6, <1>7

-----------------------------------------------------------------------------
(* Boards and blocks are records with these fields. *)
Fields == {"wall", "falling", "hold", "next", "apply", "expect", "canHold", "playing",
           "fault", "wait", "laid", "cleared", "before", "marks"}
IsBoard(b) == b = [k \in Fields |-> b[k]]
IsBlock(k) == k = [j \in {"shape", "pos", "info", "odd"} |-> k[j]]

(* A block as MakeFallingBlock made it, that has only been moved since. *)
Straight(k) ==
  /\ k.shape \in Shapes /\ k.info = BlockShape[k.shape]
  /\ k.pos = <<k.pos[1], k.pos[2]>> /\ k.pos[1] \in Int /\ k.pos[2] \in Int /\ k.pos[2] >= -1

(* Such a block is on free cells. *)
Fits(b) ==
  \/ b.falling = None
  \/ /\ IsBlock(b.falling)
     /\ \/ b.falling.odd
        \/ Straight(b.falling) /\ CanMoveFallingBlock(b, <<0, 0>>)

Clean(m) == m \intersect {"stale", "odd"} = {} => m = {}

Accounted(b) == Cardinality(b.wall) + Width * b.cleared = b.laid

Sound(b) ==
  /\ IsBoard(b) /\ b.playing = TRUE /\ b.next \in Seq(Shapes)
  /\ b.hold = None \/ IsBlock(b.hold)
  /\ \A m \in b.marks : Clean(m)
  /\ b.wall \in SUBSET Cell /\ b.cleared \in Nat
  /\ b.fault = "none" => Accounted(b)
  /\ Fits(b)

(* A block that has just been set up is above the board. *)
Above(k) == \A c \in Cells(k, <<0, 0>>) : c[2] < 0 /\ c[1] \in Cols

(* A row is full only while the block that completed it has no successor   *)
(* in play, or one that has just been set up.                              *)
Tidy(b) ==
  FullRows(b.wall) = {} \/ b.falling = None \/ (Above(b.falling) /\ b.wait = TRUE)

(* The cells of the shapes: none is below the centre, and one is beside it. *)
LEMMA ShapeFacts ==
  ASSUME NEW s \in DOMAIN BlockShape
  PROVE  /\ \A n \in 1 .. 4 : /\ BlockShape[s][n][1] \in Int /\ BlockShape[s][n][2] \in Int
                              /\ BlockShape[s][n][2] <= 0
         /\ \E n \in 1 .. 4 : BlockShape[s][n][2] = 0
<1>1. s \in {"Z", "L", "O", "S", "I", "J", "T"}
  BY DEF BlockShape
<1>2. \A n \in 1 .. 4 : n = 1 \/ n = 2 \/ n = 3 \/ n = 4
  OBVIOUS
<1>3. CASE s = "Z"
  BY <1>2, <1>3 DEF BlockShape
<1>4. CASE s = "L"
  BY <1>2, <1>4 DEF BlockShape
<1>5. CASE s = "O"
  BY <1>2, <1>5 DEF BlockShape
<1>6. CASE s = "S"
  BY <1>2, <1>6 DEF BlockShape
<1>7. CASE s = "I"
  BY <1>2, <1>7 DEF BlockShape
<1>8. CASE s = "J"
  BY <1>2, <1>8 DEF BlockShape
<1>9. CASE s = "T"
  BY <1>2, <1>9 DEF BlockShape
<1> QED
  BY <1>1, <1>3, <1>4, <1>5, <1>6, <1>7, <1>8, <1>9

(* What CanMoveFallingBlock asks, cell by cell. *)
LEMMA CanMoveIs ==
  ASSUME NEW b, NEW v
  PROVE  CanMoveFallingBlock(b, v) <=>
           \A n \in 1 .. 4 :
             LET c == Add(Add(b.falling.pos, b.falling.info[n]), v)
             IN c[2] < Height /\ c[1] \in 0 .. Width - 1 /\ c \notin b.wall
  BY DEF CanMoveFallingBlock, Cells

(* The expected place of a block that fits is free. *)
LEMMA ExpectedFree ==
  ASSUME NEW b, IsBlock(b.falling), Straight(b.falling), CanMoveFallingBlock(b, <<0, 0>>),
         NEW c \in Cells(Expected(b), <<0, 0>>)
  PROVE  c[2] \in Int /\ c[2] < Height /\ c[1] \in 0 .. Width - 1 /\ c \notin b.wall
<1> DEFINE Far(n) == /\ ~CanMoveFallingBlock(b, <<0, n>>)
                     /\ \A m \in 0 .. n - 1 : CanMoveFallingBlock(b, <<0, m>>)
           far == CHOOSE n \in 0 .. Height + 4 : Far(n)
<1>0. Height \in Nat
  BY BoardAssumption
<1>1. /\ b.falling.pos[1] \in Int /\ b.falling.pos[2] \in Int /\ b.falling.pos[2] >= -1
      /\ b.falling.shape \in DOMAIN BlockShape /\ b.falling.info = BlockShape[b.falling.shape]
  BY PlayAssumption DEF Straight
<1>2. /\ \A n \in 1 .. 4 : b.falling.info[n][1] \in Int /\ b.falling.info[n][2] \in Int
      /\ \E n \in 1 .. 4 : b.falling.info[n][2] = 0
  BY <1>1, ShapeFacts
<1>3. ~CanMoveFallingBlock(b, <<0, Height + 1>>)
  <2>1. PICK n \in 1 .. 4 : b.falling.info[n][2] = 0
    BY <1>2
  <2>2. Add(Add(b.falling.pos, b.falling.info[n]), <<0, Height + 1>>)[2]
          = b.falling.pos[2] + 0 + (Height + 1)
    BY <2>1 DEF Add
  <2>3. ~(b.falling.pos[2] + 0 + (Height + 1) < Height)
    BY <1>0, <1>1
  <2> QED
    BY <2>2, <2>3, CanMoveIs
<1>4. \E n \in 0 .. Height + 4 : Far(n)
  <2> DEFINE S == {n \in Nat : ~CanMoveFallingBlock(b, <<0, n>>)}
  <2>1. Height + 1 \in S
    BY <1>0, <1>3
  <2>2. PICK n \in S : \A m \in S : n <= m
    BY <2>1, LeastOf
  <2>3. n \in 0 .. Height + 4
    BY <1>0, <2>1, <2>2
  <2>4. ASSUME NEW m \in 0 .. n - 1 PROVE CanMoveFallingBlock(b, <<0, m>>)
    <3>1. m \in Nat /\ ~(n <= m)
      BY <2>3
    <3> QED
      BY <2>2, <3>1
  <2> QED
    BY <2>2, <2>3, <2>4
<1>5. far \in 0 .. Height + 4 /\ Far(far)
  <2> HIDE DEF Far
  <2> QED
    BY <1>4, Zenon
<1>6. Expected(b) = [b.falling EXCEPT !.pos = Add(b.falling.pos, <<0, far - 1>>)]
  BY DEF Expected
<1> HIDE DEF far
<1>7. far # 0
  BY <1>5
<1>8. far - 1 \in 0 .. far - 1 /\ far - 1 \in Int
  BY <1>0, <1>5, <1>7
<1>9. CanMoveFallingBlock(b, <<0, far - 1>>)
  BY <1>5, <1>8
<1>10. Expected(b).pos = Add(b.falling.pos, <<0, far - 1>>) /\ Expected(b).info = b.falling.info
  BY <1>6 DEF IsBlock
<1>11. PICK n \in 1 .. 4 : c = Add(Add(Expected(b).pos, Expected(b).info[n]), <<0, 0>>)
  BY DEF Cells
<1>12. c = Add(Add(b.falling.pos, b.falling.info[n]), <<0, far - 1>>)
  <2>1. PICK p1, p2, i1, i2 \in Int :
          /\ p1 = b.falling.pos[1] /\ p2 = b.falling.pos[2]
          /\ i1 = b.falling.info[n][1] /\ i2 = b.falling.info[n][2]
    BY <1>1, <1>2
  <2>2. PICK d \in Int : d = far - 1
    BY <1>8
  <2>3. c = <<(p1 + 0) + i1 + 0, (p2 + d) + i2 + 0>>
    BY <1>10, <1>11, <2>1, <2>2 DEF Add
  <2>4. Add(Add(b.falling.pos, b.falling.info[n]), <<0, far - 1>>) = <<p1 + i1 + 0, p2 + i2 + d>>
    BY <2>1, <2>2 DEF Add
  <2>5. (p1 + 0) + i1 + 0 = p1 + i1 + 0 /\ (p2 + d) + i2 + 0 = p2 + i2 + d
    OBVIOUS
  <2> QED
    BY <2>3, <2>4, <2>5
<1>13. c[2] \in Int
  <2>1. c[2] = b.falling.pos[2] + b.falling.info[n][2] + (far - 1)
    BY <1>12 DEF Add
  <2>2. b.falling.info[n][2] \in Int
    BY <1>2
  <2> QED
    BY <1>1, <1>8, <2>1, <2>2
<1> QED
  BY <1>9, <1>12, <1>13, CanMoveIs

(* Only the wall and the falling block matter for Fits. *)
LEMMA FitsSame ==
  ASSUME NEW b, NEW r, Fits(b), r.wall = b.wall, r.falling = b.falling
  PROVE  Fits(r)
  BY DEF Fits, CanMoveFallingBlock

LEMMA SoundSame ==
  ASSUME NEW b, NEW r, Sound(b), IsBoard(r), r.playing = b.playing, r.next = b.next,
         r.hold = b.hold, r.marks \subseteq b.marks, r.wall = b.wall, r.laid = b.laid,
         r.cleared = b.cleared, r.falling = b.falling,
         r.fault = "none" => b.fault = "none"
  PROVE  Sound(r)
<1>1. Fits(r)
  BY FitsSame DEF Sound
<1> QED
  BY <1>1 DEF Sound, Accounted

(* DequeNextBlock and SetFallingBlock: the new block is above the board. *)
LEMMA NextKeeps ==
  ASSUME NEW b, NEW r, Sound(b), b.falling = None, r = NextFallingBlock(b)
  PROVE  Sound(r) /\ Tidy(r) /\ r.wall = b.wall /\ r.fault = b.fault
<1>1. CASE b.next = <<>>
  <2>1. r = b
    BY <1>1 DEF NextFallingBlock
  <2> QED
    BY <2>1 DEF Tidy
<1>2. CASE b.next # <<>>
  <2>1. PICK k : k = [MakeFallingBlock(Head(b.next)) EXCEPT !.pos = <<SpawnX, -1>>]
    OBVIOUS
  <2>2. r = [b EXCEPT !.next = Tail(b.next), !.wait = TRUE, !.falling = k]
    BY <1>2, <2>1 DEF NextFallingBlock
  <2>3. b.next \in Seq(Shapes) /\ IsBoard(b)
    BY DEF Sound
  <2>4. PICK s \in Shapes : s = Head(b.next)
    BY <1>2, <2>3
  <2>5. Tail(b.next) \in Seq(Shapes)
    BY <1>2, <2>3
  <2>6. /\ IsBlock(k) /\ k.shape = s /\ k.info = BlockShape[s] /\ k.pos = <<SpawnX, -1>>
        /\ k.odd = FALSE
    BY <2>1, <2>4 DEF MakeFallingBlock, IsBlock
  <2>7. SpawnX \in Int
    BY BoardAssumption
  <2>8. Straight(k)
    BY <2>6, <2>7 DEF Straight
  <2>9. /\ IsBoard(r) /\ r.playing = b.playing /\ r.next = Tail(b.next) /\ r.hold = b.hold
        /\ r.marks = b.marks /\ r.wall = b.wall /\ r.laid = b.laid /\ r.cleared = b.cleared
        /\ r.fault = b.fault /\ r.falling = k /\ r.wait = TRUE
    BY <2>2, <2>3 DEF IsBoard, Fields
  <2>10. ASSUME NEW n \in 1 .. 4
         PROVE  LET c == Add(Add(k.pos, k.info[n]), <<0, 0>>)
                IN c[2] < 0 /\ c[1] \in Cols
    <3>1. /\ SpawnX + BlockShape[s][n][1] \in Cols
      BY FitAssumption DEF Cols
    <3>2. BlockShape[s][n][1] \in Int /\ BlockShape[s][n][2] \in Int /\ BlockShape[s][n][2] <= 0
      BY PlayAssumption, ShapeFacts
    <3>3. PICK i1, i2 \in Int : i1 = BlockShape[s][n][1] /\ i2 = BlockShape[s][n][2]
      BY <3>2
    <3>4. Add(Add(k.pos, k.info[n]), <<0, 0>>) = <<SpawnX + i1 + 0, -1 + i2 + 0>>
      BY <2>6, <3>3 DEF Add
    <3>5. SpawnX + i1 + 0 = SpawnX + i1 /\ -1 + i2 + 0 < 0
      BY <2>7, <3>2, <3>3
    <3> QED
      BY <3>1, <3>3, <3>4, <3>5
  <2>11. Above(k)
    BY <2>10 DEF Above, Cells
  <2>12. CanMoveFallingBlock(r, <<0, 0>>)
    <3>1. ASSUME NEW c \in Cells(k, <<0, 0>>)
          PROVE  c[2] < Height /\ c[1] \in 0 .. Width - 1 /\ c \notin b.wall
      <4>1. c[2] < 0 /\ c[1] \in Cols
        BY <2>11 DEF Above
      <4>2. b.wall \in SUBSET Cell
        BY DEF Sound
      <4>3. c \in b.wall => 0 <= c[2] /\ c[2] \in Int
        BY <4>2, CellIs
      <4>4. c[2] \in Int
        <5>1. PICK n \in 1 .. 4 : c = Add(Add(k.pos, k.info[n]), <<0, 0>>)
          BY DEF Cells
        <5>2. BlockShape[s][n][2] \in Int
          BY PlayAssumption, ShapeFacts
        <5>3. PICK i2 \in Int : i2 = BlockShape[s][n][2]
          BY <5>2
        <5>4. c[2] = -1 + i2 + 0
          BY <2>6, <5>1, <5>3 DEF Add
        <5> QED
          BY <5>4
      <4> QED
        BY <4>1, <4>3, <4>4, BoardAssumption DEF Cols
    <3> QED
      BY <2>9, <3>1 DEF CanMoveFallingBlock
  <2>13. Fits(r)
    BY <2>6, <2>8, <2>9, <2>12 DEF Fits
  <2>14. Sound(r)
    BY <2>5, <2>9, <2>13 DEF Sound, Accounted
  <2>15. Tidy(r)
    BY <2>9, <2>11 DEF Tidy
  <2> QED
    BY <2>9, <2>14, <2>15
<1> QED
  BY <1>1, <1>2

(* Walling a block: what it covers is added, and the landing is clean. *)
LEMMA LandKeeps ==
  ASSUME NEW b, NEW r, Sound(b), b.fault = "none", b.falling # None, r = FallingBlockToWall(b)
  PROVE  Sound(r) /\ r.falling = None
<1>1. PICK cells, marks :
        /\ cells = Cells(b.expect, <<0, 0>>)
        /\ marks = {m \in {"stale", "odd", "overlap", "aside"} :
              CASE m = "stale" -> Cells(b.expect, <<0, 0>>) # Cells(Expected(b), <<0, 0>>)
                [] m = "odd" -> b.falling.odd
                [] m = "overlap" -> cells \intersect b.wall # {}
                [] m = "aside" -> \E c \in cells : c[1] \notin 0 .. Width - 1 \/ c[2] >= Height}
  OBVIOUS
<1>2. PICK landed : landed = [b EXCEPT !.falling = None, !.canHold = TRUE,
                                       !.marks = b.marks \union {marks},
                                       !.laid = b.laid + Cardinality(cells \ b.wall)]
  OBVIOUS
<1>3. r = IF \A c \in cells : Inside(c) THEN [landed EXCEPT !.wall = landed.wall \union cells]
                                        ELSE [landed EXCEPT !.fault = "outside"]
  BY <1>1, <1>2 DEF FallingBlockToWall, LandFalling, Crash
<1>4. IsBoard(b) /\ b.wall \in SUBSET Cell /\ b.cleared \in Nat
      /\ Accounted(b) /\ \A m \in b.marks : Clean(m)
  BY DEF Sound
<1>5. /\ IsBoard(landed) /\ landed.playing = b.playing /\ landed.next = b.next
      /\ landed.hold = b.hold /\ landed.marks = b.marks \union {marks}
      /\ landed.wall = b.wall /\ landed.laid = b.laid + Cardinality(cells \ b.wall)
      /\ landed.cleared = b.cleared /\ landed.falling = None
  BY <1>2, <1>4 DEF IsBoard, Fields
<1>6. Clean(marks)
  <2> SUFFICES ASSUME marks \intersect {"stale", "odd"} = {} PROVE marks = {}
    BY DEF Clean
  <2>1. /\ Cells(b.expect, <<0, 0>>) = Cells(Expected(b), <<0, 0>>)
        /\ ~b.falling.odd
    <3>1. "stale" \notin marks /\ "odd" \notin marks
      OBVIOUS
    <3>2. "stale" \notin marks => Cells(b.expect, <<0, 0>>) = Cells(Expected(b), <<0, 0>>)
      BY <1>1
    <3>3. "odd" \notin marks => ~b.falling.odd
      BY <1>1
    <3> QED
      BY <3>1, <3>2, <3>3
  <2>2. IsBlock(b.falling) /\ Straight(b.falling) /\ CanMoveFallingBlock(b, <<0, 0>>)
    BY <2>1 DEF Sound, Fits
  <2>3. \A c \in cells : c[2] \in Int /\ c[2] < Height /\ c[1] \in 0 .. Width - 1 /\ c \notin b.wall
    BY <1>1, <2>1, <2>2, ExpectedFree
  <2>4. "overlap" \notin marks
    BY <1>1, <2>3
  <2>5. "aside" \notin marks
    BY <1>1, <2>3, BoardAssumption
  <2>6. \A m \in marks : m \in {"stale", "odd", "overlap", "aside"}
    BY <1>1
  <2> QED
    BY <2>4, <2>5, <2>6
<1>7. CASE ~ \A c \in cells : Inside(c)
  <2>1. r = [landed EXCEPT !.fault = "outside"]
    BY <1>3, <1>7
  <2>2. /\ IsBoard(r) /\ r.playing = b.playing /\ r.next = b.next
        /\ r.hold = b.hold /\ r.marks = b.marks \union {marks}
        /\ r.wall = b.wall /\ r.cleared = b.cleared /\ r.falling = None /\ r.fault = "outside"
    BY <1>5, <2>1 DEF IsBoard, Fields
  <2> QED
    BY <1>4, <1>6, <2>2 DEF Sound, Fits
<1>8. CASE \A c \in cells : Inside(c)
  <2>1. r = [landed EXCEPT !.wall = landed.wall \union cells]
    BY <1>3, <1>8
  <2>2. /\ IsBoard(r) /\ r.playing = b.playing /\ r.next = b.next
        /\ r.hold = b.hold /\ r.marks = b.marks \union {marks}
        /\ r.wall = b.wall \union cells /\ r.laid = b.laid + Cardinality(cells \ b.wall)
        /\ r.cleared = b.cleared /\ r.falling = None
    BY <1>5, <2>1 DEF IsBoard, Fields
  <2>3. cells \in SUBSET Cell
    <3> SUFFICES ASSUME NEW c \in cells PROVE c \in Cell
      OBVIOUS
    <3>1. PICK n \in 1 .. 4 : c = Add(Add(b.expect.pos, b.expect.info[n]), <<0, 0>>)
      BY <1>1 DEF Cells
    <3>2. c = <<c[1], c[2]>>
      BY <3>1 DEF Add
    <3>3. c[1] \in 0 .. Width - 1 /\ c[2] \in 0 .. Height - 1
      BY <1>8 DEF Inside
    <3> QED
      BY <3>2, <3>3 DEF Cell, Cols, Rows
  <2>4. /\ Cardinality(b.wall \union cells) = Cardinality(b.wall) + Cardinality(cells \ b.wall)
        /\ Cardinality(b.wall) \in Nat /\ Cardinality(cells \ b.wall) \in Nat
    <3>1. IsFiniteSet(b.wall) /\ IsFiniteSet(cells \ b.wall)
      <4>1. cells \ b.wall \subseteq Cell
        BY <2>3
      <4> QED
        BY <1>4, <4>1, CellsFinite, FS_Subset
    <3>2. b.wall \union cells = b.wall \union (cells \ b.wall) /\ b.wall \intersect (cells \ b.wall) = {}
      OBVIOUS
    <3>3. Cardinality({}) = 0
      BY FS_EmptySet
    <3>4. /\ Cardinality(b.wall) \in Nat /\ Cardinality(cells \ b.wall) \in Nat
          /\ Cardinality(b.wall \union (cells \ b.wall)) =
               Cardinality(b.wall) + Cardinality(cells \ b.wall)
                 - Cardinality(b.wall \intersect (cells \ b.wall))
      BY <3>1, FS_Union, FS_CardinalityType
    <3>5. PICK ca, cb \in Nat : ca = Cardinality(b.wall) /\ cb = Cardinality(cells \ b.wall)
      BY <3>4
    <3>6. PICK cu, cn : cu = Cardinality(b.wall \union cells) /\ cn = Cardinality({})
      OBVIOUS
    <3>7. cu = ca + cb - cn
      BY <3>2, <3>4, <3>5, <3>6, Zenon
    <3>8. cn = 0
      BY <3>3, <3>6
    <3>9. cu = ca + cb
      BY <3>7, <3>8
    <3> QED
      BY <3>5, <3>6, <3>9
  <2>5. Accounted(r)
    <3>1. Width * b.cleared \in Nat
      BY <1>4, TimesNat, BoardAssumption
    <3>2. Cardinality(b.wall) + Width * b.cleared = b.laid
      BY <1>4 DEF Accounted
    <3>3. PICK wc : wc = Width * b.cleared
      OBVIOUS
    <3>4. Cardinality(r.wall) + wc = r.laid
      BY <2>2, <2>4, <3>1, <3>2, <3>3
    <3> QED
      BY <2>2, <3>3, <3>4 DEF Accounted
  <2>6. r.wall \in SUBSET Cell
    BY <1>4, <2>2, <2>3
  <2> QED
    BY <1>4, <1>6, <2>2, <2>5, <2>6 DEF Sound, Fits
<1> QED
  BY <1>7, <1>8

(* Moves keep a block that fits on free cells; a rotation makes it odd. *)
LEMMA MoveKeeps ==
  ASSUME NEW b, NEW input, NEW r, Sound(b), b.fault = "none", FullRows(b.wall) = {},
         r = MoveFallingBlock(b, input)
  PROVE  Sound(r) /\ (r.fault = "none" => Tidy(r))
<1>0. IsBoard(b)
  BY DEF Sound
<1>1. CASE b.falling = None
  <2>1. r = [b EXCEPT !.fault = "null"]
    BY <1>1 DEF MoveFallingBlock, Crash
  <2>2. /\ IsBoard(r) /\ r.playing = b.playing /\ r.next = b.next /\ r.hold = b.hold
        /\ r.marks = b.marks /\ r.wall = b.wall /\ r.laid = b.laid
        /\ r.cleared = b.cleared /\ r.falling = b.falling /\ r.fault = "null"
    BY <1>0, <2>1 DEF IsBoard, Fields
  <2> QED
    BY <2>2, SoundSame
<1>2. CASE b.falling # None /\ input = "DROP"
  <2>1. PICK landed : landed = FallingBlockToWall(b)
    OBVIOUS
  <2>2. Sound(landed) /\ landed.falling = None
    BY <1>2, <2>1, LandKeeps
  <2>3. r = IF landed.fault = "none" THEN NextFallingBlock(landed) ELSE landed
    BY <1>2, <2>1 DEF MoveFallingBlock
  <2> QED
    BY <2>2, <2>3, NextKeeps
<1>3. CASE /\ b.falling # None /\ input \in {"UP", "ROTATELEFT", "ROTATERIGHT"}
           /\ b.falling.shape # "O"
  <2>1. r = [b EXCEPT !.falling = Rotate(b.falling, input)]
    BY <1>3 DEF MoveFallingBlock
  <2>2. /\ IsBoard(r) /\ r.playing = b.playing /\ r.next = b.next /\ r.hold = b.hold
        /\ r.marks = b.marks /\ r.wall = b.wall /\ r.laid = b.laid
        /\ r.cleared = b.cleared /\ r.falling = Rotate(b.falling, input) /\ r.fault = b.fault
    BY <1>0, <2>1 DEF IsBoard, Fields
  <2>3. IsBlock(b.falling)
    BY <1>3 DEF Sound, Fits
  <2>4. IsBlock(r.falling) /\ r.falling.odd = TRUE
    BY <2>2, <2>3 DEF Rotate, IsBlock
  <2>5. Fits(r)
    BY <2>4 DEF Fits
  <2>6. Sound(r)
    BY <2>2, <2>5 DEF Sound, Accounted
  <2>7. Tidy(r)
    BY <2>2 DEF Tidy
  <2> QED
    BY <2>6, <2>7
<1>4. CASE /\ b.falling # None /\ input # "DROP"
           /\ ~(input \in {"UP", "ROTATELEFT", "ROTATERIGHT"} /\ b.falling.shape # "O")
  <2>0. PICK v : v = Direction(input)
    OBVIOUS
  <2>1. r = IF CanMoveFallingBlock(b, v)
            THEN [b EXCEPT !.falling.pos = Add(b.falling.pos, v)] ELSE b
    BY <1>4, <2>0 DEF MoveFallingBlock
  <2>2. CASE ~CanMoveFallingBlock(b, v)
    BY <2>1, <2>2 DEF Tidy
  <2>3. CASE CanMoveFallingBlock(b, v)
    <3>1. PICK k : k = [b.falling EXCEPT !.pos = Add(b.falling.pos, v)]
      OBVIOUS
    <3>2. r = [b EXCEPT !.falling = k]
      BY <2>1, <2>3, <3>1
    <3>3. /\ IsBoard(r) /\ r.playing = b.playing /\ r.next = b.next /\ r.hold = b.hold
          /\ r.marks = b.marks /\ r.wall = b.wall /\ r.laid = b.laid
          /\ r.cleared = b.cleared /\ r.falling = k /\ r.fault = b.fault
      BY <1>0, <3>2 DEF IsBoard, Fields
    <3>4. IsBlock(b.falling)
      BY <1>4 DEF Sound, Fits
    <3>5. /\ IsBlock(k) /\ k.shape = b.falling.shape /\ k.info = b.falling.info
          /\ k.odd = b.falling.odd /\ k.pos = Add(b.falling.pos, v)
      BY <3>1, <3>4 DEF IsBlock
    <3>6. ASSUME ~b.falling.odd PROVE Straight(k) /\ CanMoveFallingBlock(r, <<0, 0>>)
      <4>1. Straight(b.falling)
        BY <1>4, <3>6 DEF Sound, Fits
      <4>2. v[1] \in Int /\ v[2] \in Nat
        BY <2>0 DEF Direction
      <4>3. PICK p1, p2, v1, v2 \in Int : /\ p1 = b.falling.pos[1] /\ p2 = b.falling.pos[2]
                                          /\ v1 = v[1] /\ v2 = v[2] /\ p2 >= -1 /\ v2 >= 0
        BY <4>1, <4>2 DEF Straight
      <4>4. k.pos = <<p1 + v1, p2 + v2>>
        BY <3>5, <4>3 DEF Add
      <4>5. p1 + v1 \in Int /\ p2 + v2 \in Int /\ p2 + v2 >= -1
        BY <4>3
      <4>6. Straight(k)
        BY <3>5, <4>1, <4>4, <4>5 DEF Straight
      <4>7. ASSUME NEW n \in 1 .. 4
            PROVE  Add(Add(k.pos, k.info[n]), <<0, 0>>) = Add(Add(b.falling.pos, b.falling.info[n]), v)
        <5>1. b.falling.shape \in DOMAIN BlockShape /\ b.falling.info = BlockShape[b.falling.shape]
          BY <4>1, PlayAssumption DEF Straight
        <5>2. b.falling.info[n][1] \in Int /\ b.falling.info[n][2] \in Int
          BY <5>1, ShapeFacts
        <5>3. PICK i1, i2 \in Int : i1 = b.falling.info[n][1] /\ i2 = b.falling.info[n][2]
          BY <5>2
        <5>4. Add(Add(k.pos, k.info[n]), <<0, 0>>) = <<(p1 + v1) + i1 + 0, (p2 + v2) + i2 + 0>>
          BY <3>5, <4>4, <5>3 DEF Add
        <5>5. Add(Add(b.falling.pos, b.falling.info[n]), v) = <<(p1 + i1) + v1, (p2 + i2) + v2>>
          BY <4>3, <5>3 DEF Add
        <5>6. (p1 + v1) + i1 + 0 = (p1 + i1) + v1 /\ (p2 + v2) + i2 + 0 = (p2 + i2) + v2
          OBVIOUS
        <5> QED
          BY <5>4, <5>5, <5>6
      <4>8. CanMoveFallingBlock(r, <<0, 0>>)
        BY <2>3, <3>3, <4>7, CanMoveIs
      <4> QED
        BY <4>6, <4>8
    <3>7. Fits(r)
      BY <3>3, <3>5, <3>6 DEF Fits
    <3>8. Sound(r)
      BY <3>3, <3>7 DEF Sound, Accounted
    <3>9. Tidy(r)
      BY <3>3 DEF Tidy
    <3> QED
      BY <3>8, <3>9
  <2> QED
    BY <2>2, <2>3
<1> QED
  BY <1>1, <1>2, <1>3, <1>4

(* A held block comes back odd, and the first hold sets up the next block. *)
LEMMA HoldKeeps ==
  ASSUME NEW b, NEW r, Sound(b), b.fault = "none", FullRows(b.wall) = {}, r = Hold(b)
  PROVE  Sound(r) /\ (r.fault = "none" => Tidy(r))
<1>0. IsBoard(b)
  BY DEF Sound
<1>1. PICK kept : kept = [MakeFallingBlock(b.falling.shape) EXCEPT !.pos = <<-3, 3>>]
  OBVIOUS
<1>2. PICK held : held = [b EXCEPT !.hold = kept, !.canHold = FALSE, !.wait = TRUE]
  OBVIOUS
<1>3. IsBlock(kept)
  BY <1>1 DEF IsBlock, MakeFallingBlock
<1>4. /\ IsBoard(held) /\ held.playing = b.playing /\ held.next = b.next /\ held.hold = kept
      /\ held.marks = b.marks /\ held.wall = b.wall /\ held.laid = b.laid
      /\ held.cleared = b.cleared /\ held.falling = b.falling /\ held.fault = b.fault
  BY <1>0, <1>2 DEF IsBoard, Fields
<1>5. CASE b.falling = None
  <2>1. r = [b EXCEPT !.fault = "null"]
    BY <1>5 DEF Hold, Crash
  <2>2. /\ IsBoard(r) /\ r.playing = b.playing /\ r.next = b.next /\ r.hold = b.hold
        /\ r.marks = b.marks /\ r.wall = b.wall /\ r.laid = b.laid
        /\ r.cleared = b.cleared /\ r.falling = b.falling /\ r.fault = "null"
    BY <1>0, <2>1 DEF IsBoard, Fields
  <2> QED
    BY <2>2, SoundSame
<1>6. CASE b.falling # None /\ b.hold = None
  <2>1. PICK a : a = [held EXCEPT !.falling = None]
    OBVIOUS
  <2>2. r = NextFallingBlock(a)
    BY <1>1, <1>2, <1>6, <2>1 DEF Hold
  <2>3. /\ IsBoard(a) /\ a.playing = b.playing /\ a.next = b.next /\ a.hold = kept
        /\ a.marks = b.marks /\ a.wall = b.wall /\ a.laid = b.laid
        /\ a.cleared = b.cleared /\ a.falling = None /\ a.fault = b.fault
    BY <1>4, <2>1 DEF IsBoard, Fields
  <2>4. Sound(a)
    BY <1>3, <2>3 DEF Sound, Accounted, Fits
  <2> QED
    BY <2>2, <2>3, <2>4, NextKeeps
<1>7. CASE b.falling # None /\ b.hold # None
  <2>1. PICK k : k = [b.hold EXCEPT !.odd = TRUE]
    OBVIOUS
  <2>2. r = [held EXCEPT !.falling = k]
    BY <1>1, <1>2, <1>7, <2>1 DEF Hold
  <2>3. /\ IsBoard(r) /\ r.playing = b.playing /\ r.next = b.next /\ r.hold = kept
        /\ r.marks = b.marks /\ r.wall = b.wall /\ r.laid = b.laid
        /\ r.cleared = b.cleared /\ r.falling = k /\ r.fault = b.fault
    BY <1>4, <2>2 DEF IsBoard, Fields
  <2>4. IsBlock(b.hold)
    BY <1>7 DEF Sound
  <2>5. IsBlock(k) /\ k.odd = TRUE
    BY <2>1, <2>4 DEF IsBlock
  <2>6. Fits(r)
    BY <2>3, <2>5 DEF Fits
  <2>7. Sound(r)
    BY <1>3, <2>3, <2>6 DEF Sound, Accounted
  <2>8. Tidy(r)
    BY <2>3 DEF Tidy
  <2> QED
    BY <2>7, <2>8
<1> QED
  BY <1>5, <1>6, <1>7

LEMMA ApplyInputKeeps ==
  ASSUME NEW b, NEW input, NEW r, Sound(b), b.fault = "none", FullRows(b.wall) = {},
         r = ApplyInput(b, input)
  PROVE  Sound(r) /\ (r.fault = "none" => Tidy(r))
<1>1. PICK moved : moved = IF input = "HOLD" /\ b.canHold THEN Hold(b) ELSE MoveFallingBlock(b, input)
  OBVIOUS
<1>2. Sound(moved) /\ (moved.fault = "none" => Tidy(moved))
  BY <1>1, HoldKeeps, MoveKeeps
<1>3. r = [moved EXCEPT !.apply = Append(moved.apply, input), !.wait = moved.wait \/ input = "DOWN"]
  BY <1>1 DEF ApplyInput
<1>4. /\ IsBoard(r) /\ r.playing = moved.playing /\ r.next = moved.next /\ r.hold = moved.hold
      /\ r.marks = moved.marks /\ r.wall = moved.wall /\ r.laid = moved.laid
      /\ r.cleared = moved.cleared /\ r.falling = moved.falling /\ r.fault = moved.fault
      /\ r.wait = (moved.wait \/ input = "DOWN")
  BY <1>2, <1>3 DEF Sound, IsBoard, Fields
<1>5. Sound(r)
  BY <1>2, <1>4, SoundSame
<1>6. moved.wait = TRUE => r.wait = TRUE
  BY <1>4
<1>7. ASSUME r.fault = "none" PROVE Tidy(r)
  BY <1>2, <1>4, <1>6, <1>7 DEF Tidy
<1> QED
  BY <1>5, <1>7

(* GetInput hands Update at most one key. *)
LEMMA ApplyInputsIs ==
  ASSUME NEW b, NEW inputs \in GetInput
  PROVE  \/ ApplyInputs(b, inputs) = b
         \/ \E key \in Inputs : ApplyInputs(b, inputs) = ApplyInput(b, key)
<1> DEFINE L == Len(inputs)
           R(f) == f = [n \in 0 .. L |-> IF n = 0 THEN b ELSE ApplyInput(f[n - 1], inputs[n])]
           g == [n \in 0 .. L |-> IF n = 0 THEN b ELSE ApplyInput(b, inputs[n])]
<1>1. L = 0 \/ (L = 1 /\ \E key \in Inputs : inputs = <<key>>)
  BY DEF GetInput
<1>2. R(g)
  <2>1. ASSUME NEW n \in 0 .. L, n # 0 PROVE g[n - 1] = b
    BY <1>1, <2>1
  <2> QED
    BY <2>1
<1>3. ApplyInputs(b, inputs) = (CHOOSE f : R(f))[L]
  BY DEF ApplyInputs
<1> HIDE DEF g
<1>4. \E f : R(f)
  BY <1>2
<1>5. R(CHOOSE f : R(f))
  <2> HIDE DEF R
  <2> QED
    BY <1>4
<1>6. PICK f : R(f) /\ ApplyInputs(b, inputs) = f[L]
  <2> HIDE DEF R
  <2> QED
    BY <1>3, <1>5
<1>7. CASE L = 0
  BY <1>6, <1>7
<1>8. CASE L = 1 /\ \E key \in Inputs : inputs = <<key>>
  <2>1. PICK key \in Inputs : inputs = <<key>>
    BY <1>8
  <2>2. inputs[1] = key
    BY <2>1
  <2>3. f[0] = b /\ f[1] = ApplyInput(f[0], inputs[1])
    BY <1>6, <1>8
  <2> QED
    BY <1>6, <1>8, <2>2, <2>3
<1> QED
  BY <1>1, <1>7, <1>8

(* A gravity step happens only on a board without full rows. *)
LEMMA FallKeeps ==
  ASSUME NEW b, NEW r, Sound(b), b.fault = "none", b.falling # None, FullRows(b.wall) = {},
         r = Fall(b)
  PROVE  Sound(r) /\ (r.fault = "none" => Tidy(r))
<1>1. PICK a, word : /\ \/ a = MoveFallingBlock(b, "DOWN")
                        \/ a = FallingBlockToWall(b)
                     /\ r = [a EXCEPT !.apply = Append(a.apply, word)]
  BY DEF Fall
<1>2. Sound(a) /\ (a.fault = "none" => Tidy(a))
  <2>1. CASE a = MoveFallingBlock(b, "DOWN")
    BY <2>1, MoveKeeps
  <2>2. CASE a = FallingBlockToWall(b)
    <3>1. Sound(a) /\ a.falling = None
      BY <2>2, LandKeeps
    <3> QED
      BY <3>1 DEF Tidy
  <2> QED
    BY <1>1, <2>1, <2>2
<1>3. /\ IsBoard(r) /\ r.playing = a.playing /\ r.next = a.next /\ r.hold = a.hold
      /\ r.marks = a.marks /\ r.wall = a.wall /\ r.laid = a.laid
      /\ r.cleared = a.cleared /\ r.falling = a.falling /\ r.fault = a.fault
      /\ r.wait = a.wait
  BY <1>1, <1>2 DEF Sound, IsBoard, Fields
<1>4. Sound(r)
  BY <1>2, <1>3, SoundSame
<1>5. ASSUME r.fault = "none" PROVE Tidy(r)
  BY <1>2, <1>3, <1>5 DEF Tidy
<1> QED
  BY <1>4, <1>5

LEMMA UpdateFallingKeeps ==
  ASSUME NEW b, NEW tick, NEW r, Sound(b), b.fault = "none", Tidy(b),
         r = UpdateFallingBlock(b, tick)
  PROVE  Sound(r) /\ (r.fault = "none" => Tidy(r))
<1>1. PICK ready : ready = IF b.falling = None THEN NextFallingBlock(b) ELSE b
  OBVIOUS
<1>2. Sound(ready) /\ Tidy(ready) /\ ready.fault = "none"
  BY <1>1, NextKeeps
<1>3. r = IF tick /\ ~ready.wait /\ ready.falling # None THEN Fall(ready) ELSE ready
  BY <1>1 DEF UpdateFallingBlock
<1>4. CASE tick /\ ~ready.wait /\ ready.falling # None
  <2>1. FullRows(ready.wall) = {}
    BY <1>2, <1>4 DEF Tidy
  <2> QED
    BY <1>2, <1>3, <1>4, <2>1, FallKeeps
<1>5. CASE ~(tick /\ ~ready.wait /\ ready.falling # None)
  BY <1>2, <1>3, <1>5
<1> QED
  BY <1>4, <1>5

(* Without a full row there is nothing to remove. *)
LEMMA RemoveWallIdle ==
  ASSUME NEW wall \in SUBSET Cell, FullRows(wall) = {} PROVE RemoveWall(wall) = wall
<1>1. PICK f : IsRun(f, wall) /\ RemoveWall(wall) = f[Height]
  BY RunExists
<1> DEFINE T == {n \in Nat : n <= Height => f[n] = wall}
<1>2. 0 \in T
  BY <1>1, BoardAssumption DEF IsRun
<1>3. ASSUME NEW n \in Nat, n \in T PROVE n + 1 \in T
  <2>1. SUFFICES ASSUME n + 1 <= Height PROVE f[n + 1] = wall
    OBVIOUS
  <2>2. f[n] = wall /\ n \in 0 .. Height - 1 /\ n + 1 \in 0 .. Height /\ n + 1 # 0 /\ (n + 1) - 1 = n
    BY <1>3, <2>1, BoardAssumption
  <2>3. f[n + 1] = RemoveLine(f[n], n)
    BY <1>1, <2>2 DEF IsRun
  <2>4. ~IsFull(wall, n)
    BY <2>2 DEF FullRows
  <2> QED
    BY <2>2, <2>3, <2>4 DEF RemoveLine
<1>4. Height \in T
  <2> HIDE DEF T
  <2>1. Nat \subseteq T
    BY <1>2, <1>3, NatClosed
  <2> QED
    BY <2>1, BoardAssumption
<1> QED
  BY <1>1, <1>4, BoardAssumption

(* The lines are removed under a block that stays where it is: there are   *)
(* none, or it is above the board.                                         *)
LEMMA RemovalKeeps ==
  ASSUME NEW b, NEW r, Sound(b), Tidy(b), b.fault = "none", IsBoard(r),
         r.playing = b.playing, r.next = b.next, r.hold = b.hold, r.marks = b.marks,
         r.wall = RemoveWall(b.wall), r.before = b.wall, r.laid = b.laid, r.falling = b.falling,
         r.cleared = b.cleared + Cardinality(FullRows(b.wall))
  PROVE  /\ Sound(r) /\ FullRows(r.wall) = {}
         /\ Gapless(r.before) => r.wall = Compacted(r.before)
<1>0. /\ b.wall \in SUBSET Cell /\ b.cleared \in Nat /\ Fits(b) /\ Accounted(b)
      /\ Width \in Nat /\ Height \in Nat
  BY BoardAssumption DEF Sound
<1>1. /\ r.wall \in SUBSET Cell /\ FullRows(r.wall) = {} /\ Cardinality(FullRows(b.wall)) \in Nat
      /\ Cardinality(r.wall) + Width * Cardinality(FullRows(b.wall)) = Cardinality(b.wall)
  BY <1>0, RemoveWallCounts
<1>2. Gapless(r.before) => r.wall = Compacted(r.before)
  BY <1>0, RemoveWallCompacts
<1>3. Accounted(r) /\ r.cleared \in Nat
  <2>1. PICK n, c, w, v \in Nat : /\ n = Cardinality(FullRows(b.wall)) /\ c = b.cleared
                                  /\ w = Cardinality(r.wall) /\ v = Cardinality(b.wall)
    BY <1>0, <1>1, CellsFinite
  <2>2. w + Width * n = v /\ v + Width * c = b.laid
    BY <1>0, <1>1, <2>1 DEF Accounted
  <2>3. Width * (c + n) = Width * c + Width * n
    BY <1>0, <2>1
  <2>4. Width * c \in Nat /\ Width * n \in Nat
    BY <1>0, TimesNat
  <2>5. w + Width * (c + n) = b.laid
    BY <2>2, <2>3, <2>4
  <2>6. r.cleared = c + n /\ c + n \in Nat
    BY <2>1
  <2> QED
    BY <2>1, <2>5, <2>6 DEF Accounted
<1>4. Fits(r)
  <2>1. CASE FullRows(b.wall) = {}
    <3>1. r.wall = b.wall
      BY <1>0, <2>1, RemoveWallIdle
    <3> QED
      BY <1>0, <3>1, FitsSame
  <2>2. CASE b.falling = None
    BY <2>2 DEF Fits
  <2>3. CASE Above(b.falling) /\ b.falling # None
    <3>1. ASSUME Straight(b.falling) PROVE CanMoveFallingBlock(r, <<0, 0>>)
      <4> SUFFICES ASSUME NEW c \in Cells(b.falling, <<0, 0>>)
                   PROVE  c[2] < Height /\ c[1] \in 0 .. Width - 1 /\ c \notin r.wall
        BY DEF CanMoveFallingBlock
      <4>1. c[2] < 0 /\ c[1] \in Cols
        BY <2>3 DEF Above
      <4>2. c \in r.wall => 0 <= c[2] /\ c[2] \in Int
        BY <1>1, CellIs
      <4>3. c[2] \in Int
        <5>1. PICK n \in 1 .. 4 : c = Add(Add(b.falling.pos, b.falling.info[n]), <<0, 0>>)
          BY DEF Cells
        <5>2. b.falling.info[n][2] \in Int /\ b.falling.pos[2] \in Int
          BY <3>1, PlayAssumption, ShapeFacts DEF Straight
        <5>3. c[2] = b.falling.pos[2] + b.falling.info[n][2] + 0
          BY <5>1 DEF Add
        <5> QED
          BY <5>2, <5>3
      <4> QED
        BY <1>0, <4>1, <4>2, <4>3 DEF Cols
    <3>2. IsBlock(b.falling) /\ (b.falling.odd \/ Straight(b.falling))
      BY <1>0, <2>3 DEF Fits
    <3> QED
      BY <3>1, <3>2 DEF Fits
  <2> QED
    BY <2>1, <2>2, <2>3 DEF Tidy
<1>5. Sound(r)
  BY <1>1, <1>3, <1>4 DEF Sound
<1> QED
  BY <1>1, <1>2, <1>5

(* What holds of the player's board between two frames. *)
Between(b) ==
  /\ Sound(b)
  /\ b.fault = "none" => /\ FullRows(b.wall) = {}
                         /\ Gapless(b.before) => b.wall = Compacted(b.before)

(* TetrisBoard::Update, from its first line to its last. *)
LEMMA UpdateKeeps ==
  ASSUME NEW b, NEW inputs \in GetInput, NEW tick, NEW r, Between(b), b.fault = "none",
         r = Update(b, inputs, tick)
  PROVE  Between(r)
<1>0. Sound(b) /\ IsBoard(b) /\ b.playing = TRUE /\ FullRows(b.wall) = {}
  BY DEF Between, Sound
<1>1. PICK ready : ready = IF b.falling = None THEN NextFallingBlock(b) ELSE b
  OBVIOUS
<1>2. Sound(ready) /\ IsBoard(ready) /\ ready.wall = b.wall /\ ready.fault = "none"
  <2>1. Sound(ready) /\ ready.wall = b.wall /\ ready.fault = "none"
    BY <1>0, <1>1, NextKeeps
  <2> QED
    BY <2>1 DEF Sound
<1>3. PICK fresh : fresh = [ready EXCEPT !.apply = <<>>, !.marks = {}]
  OBVIOUS
<1>4. /\ IsBoard(fresh) /\ fresh.playing = ready.playing /\ fresh.next = ready.next
      /\ fresh.hold = ready.hold /\ fresh.marks = {} /\ fresh.wall = ready.wall
      /\ fresh.laid = ready.laid /\ fresh.cleared = ready.cleared
      /\ fresh.falling = ready.falling /\ fresh.fault = ready.fault
  BY <1>2, <1>3 DEF IsBoard, Fields
<1>5. Sound(fresh) /\ FullRows(fresh.wall) = {} /\ fresh.fault = "none"
  BY <1>0, <1>2, <1>4, SoundSame
<1>6. PICK applied : applied = ApplyInputs(fresh, inputs)
  OBVIOUS
<1>7. Sound(applied) /\ (applied.fault = "none" => Tidy(applied))
  <2>1. CASE applied = fresh
    BY <1>5, <2>1 DEF Tidy
  <2>2. CASE \E key \in Inputs : applied = ApplyInput(fresh, key)
    BY <1>5, <2>2, ApplyInputKeeps
  <2> QED
    BY <1>6, <2>1, <2>2, ApplyInputsIs
<1>8. PICK fallen : fallen = UpdateFallingBlock(applied, tick)
  OBVIOUS
<1>9. applied.fault = "none" => Sound(fallen) /\ (fallen.fault = "none" => Tidy(fallen))
  BY <1>7, <1>8, UpdateFallingKeeps
<1>10. PICK expects : expects = UpdateExpectBlock(fallen)
  OBVIOUS
<1>11. r = IF applied.fault # "none" THEN applied
           ELSE IF fallen.fault # "none" THEN fallen
           ELSE [expects EXCEPT !.wall = RemoveWall(expects.wall), !.before = fallen.wall,
                                !.wait = FALSE,
                                !.cleared = expects.cleared + Cardinality(FullRows(fallen.wall))]
  BY <1>0, <1>1, <1>3, <1>6, <1>8, <1>10 DEF Update
<1>12. CASE applied.fault # "none"
  BY <1>7, <1>11, <1>12 DEF Between
<1>13. CASE applied.fault = "none" /\ fallen.fault # "none"
  BY <1>9, <1>11, <1>13 DEF Between
<1>14. CASE applied.fault = "none" /\ fallen.fault = "none"
  <2>1. Sound(fallen) /\ Tidy(fallen) /\ IsBoard(fallen)
    BY <1>9, <1>14 DEF Sound
  <2>2. expects = fallen \/ \E e : expects = [fallen EXCEPT !.expect = e]
    BY <1>10 DEF UpdateExpectBlock
  <2>3. /\ IsBoard(expects) /\ expects.playing = fallen.playing /\ expects.next = fallen.next
        /\ expects.hold = fallen.hold /\ expects.marks = fallen.marks
        /\ expects.wall = fallen.wall /\ expects.laid = fallen.laid
        /\ expects.cleared = fallen.cleared /\ expects.falling = fallen.falling
    BY <2>1, <2>2 DEF IsBoard, Fields
  <2>4. PICK w, n : w = RemoveWall(fallen.wall) /\ n = fallen.cleared + Cardinality(FullRows(fallen.wall))
    OBVIOUS
  <2>5. r = [expects EXCEPT !.wall = w, !.before = fallen.wall, !.wait = FALSE, !.cleared = n]
    BY <1>11, <1>14, <2>3, <2>4
  <2>6. /\ IsBoard(r) /\ r.playing = fallen.playing /\ r.next = fallen.next
        /\ r.hold = fallen.hold /\ r.marks = fallen.marks
        /\ r.wall = w /\ r.before = fallen.wall /\ r.laid = fallen.laid
        /\ r.cleared = n /\ r.falling = fallen.falling
    BY <2>3, <2>5 DEF IsBoard, Fields
  <2>7. Sound(r) /\ FullRows(r.wall) = {} /\ (Gapless(r.before) => r.wall = Compacted(r.before))
    BY <1>14, <2>1, <2>4, <2>6, RemovalKeeps
  <2> QED
    BY <2>7 DEF Between
<1> QED
  BY <1>12, <1>13, <1>14

LEMMA BoardInit ==
  ASSUME Init PROVE Between(own)
<1>1. /\ IsBoard(own) /\ own.playing = TRUE /\ own.next = <<>> /\ own.hold = None
      /\ own.marks = {} /\ own.wall = {} /\ own.cleared = 0 /\ own.falling = None
      /\ own.laid = 0 /\ own.before = {}
  BY DEF Init, Start, NewBoard, IsBoard, Fields
<1>2. FullRows({}) = {}
  BY BoardAssumption DEF FullRows, IsFull
<1>3. Compacted({}) = {}
  BY DEF Compacted
<1>4. Cardinality({}) = 0
  BY FS_EmptySet
<1>5. Accounted(own)
  BY <1>1, <1>4, BoardAssumption DEF Accounted
<1> QED
  BY <1>1, <1>2, <1>3, <1>5 DEF Between, Sound, Fits

LEMMA BoardStep ==
  ASSUME Between(own), [MirrorNext]_vars PROVE Between(own')
<1>1. CASE UNCHANGED own
  BY <1>1
<1>2. CASE AddFallingBlock
  <2>1. PICK s \in Shapes : own' = [own EXCEPT !.next = Append(own.next, s)]
    BY <1>2 DEF AddFallingBlock, QueueNextBlock
  <2>2. PICK q : q = Append(own.next, s)
    OBVIOUS
  <2>3. Sound(own) /\ IsBoard(own) /\ own.next \in Seq(Shapes)
    BY DEF Between, Sound
  <2>4. q \in Seq(Shapes)
    BY <2>2, <2>3
  <2>5. PICK r : r = own'
    OBVIOUS
  <2>6. r = [own EXCEPT !.next = q]
    BY <2>1, <2>2, <2>5
  <2>7. /\ IsBoard(r) /\ r.playing = own.playing /\ r.next = q /\ r.hold = own.hold
        /\ r.marks = own.marks /\ r.wall = own.wall /\ r.laid = own.laid /\ r.before = own.before
        /\ r.cleared = own.cleared /\ r.falling = own.falling /\ r.fault = own.fault
    BY <2>3, <2>6 DEF IsBoard, Fields
  <2>8. Fits(r)
    BY <2>3, <2>7, FitsSame DEF Sound
  <2>9. Sound(r)
    BY <2>3, <2>4, <2>7, <2>8 DEF Sound, Accounted
  <2>10. Between(r)
    BY <2>7, <2>9 DEF Between
  <2> QED
    BY <2>5, <2>10
<1>3. CASE Frame
  <2>1. PICK inputs \in GetInput, tick \in BOOLEAN : own' = Update(own, inputs, tick)
    BY <1>3 DEF Frame
  <2>2. own.fault = "none"
    BY <1>3 DEF Frame, Playing
  <2> QED
    BY <2>1, <2>2, UpdateKeeps
<1> QED
  BY <1>1, <1>2, <1>3 DEF MirrorNext, OwnBlock, MirrorBlock, OwnFrame, MirrorInput, MirrorIdle, vars

LEMMA BoardAlways == MirrorSpec => []Between(own)
<1>1. MirrorInit => Between(own)
  BY BoardInit DEF MirrorInit
<1>2. Between(own) /\ [MirrorNext]_vars => Between(own)'
  BY BoardStep
<1> QED
  BY <1>1, <1>2, PTL DEF MirrorSpec

(* TetrisBoard::Update, RemoveWall and FallingBlockToWall: whatever is     *)
(* pressed and dealt, the wall of the player's board is exactly what was   *)
(* laid less the lines removed, and no full line is left after a frame.    *)
THEOREM NothingIsLost == MirrorSpec => []NothingLost
<1>1. Between(own) => NothingLost
  BY DEF Between, Sound, Accounted, NothingLost, Playing
<1> QED
  BY <1>1, BoardAlways, PTL

(* RemoveWall: on a wall without an empty row in it, the one pass over the *)
(* rows leaves the textbook result, for any number of full rows in any     *)
(* places.                                                                 *)
THEOREM RemovalIsCompaction == MirrorSpec => []RemovalCompacts
<1>1. Between(own) => RemovalCompacts
  BY DEF Between, RemovalCompacts, Playing
<1> QED
  BY <1>1, BoardAlways, PTL

(* FallingBlockToWall: a block that was neither rotated nor held and whose *)
(* expected place was up to date never covers a wall and never lands       *)
(* beside or below the board.                                              *)
THEOREM LandingsAreClean == MirrorSpec => []CleanLanding
<1>1. Between(own) => CleanLanding
  BY DEF Between, Sound, Clean, CleanLanding
<1> QED
  BY <1>1, BoardAlways, PTL

-----------------------------------------------------------------------------
(* What a board and its mirror have to agree on: the wall, the hold, the   *)
(* block in play, and how many blocks of the room have been set up so far. *)
View(w, h, c, k, t) == [wall |-> w, hold |-> h, canHold |-> c, falling |-> k, taken |-> t]

(* SetFallingBlock, and the copy HOLD puts away. *)
Spawned(s) == [MakeFallingBlock(s) EXCEPT !.pos = <<SpawnX, -1>>]
Kept(k)    == [MakeFallingBlock(k.shape) EXCEPT !.pos = <<-3, 3>>]

Turns(v, input) == input \in {"UP", "ROTATELEFT", "ROTATERIGHT"} /\ v.falling.shape # "O"

(* What an input does to a view with a block in play: a block that lands   *)
(* does so at its expected place, and no other block is set up yet.        *)
AfterInput(v, input) ==
  IF input = "HOLD" /\ v.canHold = TRUE
  THEN View(v.wall, Kept(v.falling), FALSE,
            IF v.hold = None THEN None ELSE [v.hold EXCEPT !.odd = TRUE], v.taken)
  ELSE IF input = "DROP"
  THEN View(v.wall \union Cells(Expected(v), <<0, 0>>), v.hold, TRUE, None, v.taken)
  ELSE IF Turns(v, input)
  THEN View(v.wall, v.hold, v.canHold, Rotate(v.falling, input), v.taken)
  ELSE IF CanMoveFallingBlock(v, Direction(input))
  THEN View(v.wall, v.hold, v.canHold,
            [v.falling EXCEPT !.pos = Add(v.falling.pos, Direction(input))], v.taken)
  ELSE v

(* Nothing is written outside the board. *)
Safe(v, input) == input = "DROP" => \A c \in Cells(Expected(v), <<0, 0>>) : Inside(c)

(* The block in play is what v says; none is set up by an input yet. *)
Shows(b, v) ==
  b.wall = v.wall /\ b.hold = v.hold /\ b.canHold = v.canHold /\ b.falling = v.falling

(* Both are about the wall and the falling block only. *)
LEMMA ExpectedSame ==
  ASSUME NEW b, NEW v, b.wall = v.wall, b.falling = v.falling
  PROVE  /\ Expected(b) = Expected(v)
         /\ \A d : CanMoveFallingBlock(b, d) <=> CanMoveFallingBlock(v, d)
<1>1. \A d : CanMoveFallingBlock(b, d) <=> CanMoveFallingBlock(v, d)
  BY DEF CanMoveFallingBlock
<1>2. ASSUME NEW n \in 0 .. Height + 4
      PROVE  (~CanMoveFallingBlock(b, <<0, n>>) /\ \A m \in 0 .. n - 1 : CanMoveFallingBlock(b, <<0, m>>))
        <=> (~CanMoveFallingBlock(v, <<0, n>>) /\ \A m \in 0 .. n - 1 : CanMoveFallingBlock(v, <<0, m>>))
  BY <1>1
<1>3. Expected(b) = Expected(v)
  BY DEF Expected, CanMoveFallingBlock
<1> QED
  BY <1>1, <1>3

LEMMA ViewIs ==
  ASSUME NEW w, NEW h, NEW c, NEW k, NEW t, NEW v, v = View(w, h, c, k, t)
  PROVE  v.wall = w /\ v.hold = h /\ v.canHold = c /\ v.falling = k /\ v.taken = t
  BY DEF View

(* A block that has been set up is one. *)
LEMMA SpawnedIs ==
  ASSUME NEW s \in Shapes PROVE Spawned(s) # None
<1>1. s # "none"
  BY PlayAssumption DEF BlockShape
<1>2. Spawned(s).shape = s
  BY DEF Spawned, MakeFallingBlock
<1>3. None.shape = "none"
  BY DEF None
<1> QED
  BY <1>1, <1>2, <1>3

(* SetFallingBlock(DequeNextBlock()), field by field. *)
Replaced(b, r) ==
  /\ IsBoard(r) /\ r.wall = b.wall /\ r.hold = b.hold /\ r.canHold = b.canHold
  /\ r.apply = b.apply /\ r.marks = b.marks /\ r.playing = b.playing /\ r.fault = b.fault
  /\ b.next = <<>> => r = b
  /\ b.next # <<>> => /\ r.falling = Spawned(Head(b.next)) /\ r.next = Tail(b.next)
                      /\ r.wait = TRUE

LEMMA NextIs ==
  ASSUME NEW b, NEW r, IsBoard(b), r = NextFallingBlock(b) PROVE Replaced(b, r)
<1>1. CASE b.next = <<>>
  BY <1>1 DEF NextFallingBlock, Replaced
<1>2. CASE b.next # <<>>
  <2>1. PICK k, q : k = Spawned(Head(b.next)) /\ q = Tail(b.next)
    OBVIOUS
  <2>2. r = [b EXCEPT !.next = q, !.wait = TRUE, !.falling = k]
    BY <1>2, <2>1 DEF NextFallingBlock, Spawned
  <2> QED
    BY <1>2, <2>1, <2>2 DEF IsBoard, Fields, Replaced
<1> QED
  BY <1>1, <1>2

(* FallingBlockToWall at a place that is up to date. *)
LEMMA LandIs ==
  ASSUME NEW b, NEW r, NEW v, IsBoard(b), b.fault = "none", b.falling # None, Shows(b, v),
         r = FallingBlockToWall(b)
  PROVE  /\ IsBoard(r) /\ r.next = b.next /\ r.apply = b.apply /\ r.playing = b.playing
         /\ r.falling = None /\ r.hold = b.hold /\ r.canHold = TRUE /\ b.marks \subseteq r.marks
         /\ ~Stale(r) =>
              /\ r.fault = "none" <=> Safe(v, "DROP")
              /\ Safe(v, "DROP") => r.wall = v.wall \union Cells(Expected(v), <<0, 0>>)
<1>1. PICK cells, marks :
        /\ cells = Cells(b.expect, <<0, 0>>)
        /\ marks = {m \in {"stale", "odd", "overlap", "aside"} :
              CASE m = "stale" -> Cells(b.expect, <<0, 0>>) # Cells(Expected(b), <<0, 0>>)
                [] m = "odd" -> b.falling.odd
                [] m = "overlap" -> cells \intersect b.wall # {}
                [] m = "aside" -> \E c \in cells : c[1] \notin 0 .. Width - 1 \/ c[2] >= Height}
  OBVIOUS
<1>2. PICK n : n = b.laid + Cardinality(cells \ b.wall)
  OBVIOUS
<1>3. PICK all : all = b.marks \union {marks}
  OBVIOUS
<1>4. PICK landed : landed = [b EXCEPT !.falling = None, !.canHold = TRUE, !.marks = all, !.laid = n]
  OBVIOUS
<1>5. r = IF \A c \in cells : Inside(c) THEN [landed EXCEPT !.wall = landed.wall \union cells]
          ELSE [landed EXCEPT !.fault = "outside"]
  BY <1>1, <1>2, <1>3, <1>4 DEF FallingBlockToWall, LandFalling, Crash
<1>6. /\ IsBoard(landed) /\ landed.next = b.next /\ landed.apply = b.apply
      /\ landed.playing = b.playing /\ landed.falling = None /\ landed.hold = b.hold
      /\ landed.canHold = TRUE /\ landed.marks = all /\ landed.wall = b.wall
      /\ landed.fault = "none"
  BY <1>4 DEF IsBoard, Fields
<1>7. /\ IsBoard(r) /\ r.next = b.next /\ r.apply = b.apply /\ r.playing = b.playing
      /\ r.falling = None /\ r.hold = b.hold /\ r.canHold = TRUE /\ r.marks = all
      /\ r.fault = "none" <=> \A c \in cells : Inside(c)
      /\ (\A c \in cells : Inside(c)) => r.wall = b.wall \union cells
  <2>1. CASE \A c \in cells : Inside(c)
    <3>1. PICK w : w = landed.wall \union cells
      OBVIOUS
    <3>2. r = [landed EXCEPT !.wall = w]
      BY <1>5, <2>1, <3>1
    <3>3. /\ IsBoard(r) /\ r.next = b.next /\ r.apply = b.apply /\ r.playing = b.playing
          /\ r.falling = None /\ r.hold = b.hold /\ r.canHold = TRUE /\ r.marks = all
          /\ r.fault = "none" /\ r.wall = w
      BY <1>6, <3>2 DEF IsBoard, Fields
    <3> QED
      BY <1>6, <2>1, <3>1, <3>3
  <2>2. CASE ~\A c \in cells : Inside(c)
    <3>1. r = [landed EXCEPT !.fault = "outside"]
      BY <1>5, <2>2
    <3>2. /\ IsBoard(r) /\ r.next = b.next /\ r.apply = b.apply /\ r.playing = b.playing
          /\ r.falling = None /\ r.hold = b.hold /\ r.canHold = TRUE /\ r.marks = all
          /\ r.fault = "outside"
      BY <1>6, <3>1 DEF IsBoard, Fields
    <3> QED
      BY <2>2, <3>2
  <2> QED
    BY <2>1, <2>2
<1>8. ASSUME ~Stale(r)
      PROVE  /\ r.fault = "none" <=> Safe(v, "DROP")
             /\ Safe(v, "DROP") => r.wall = v.wall \union Cells(Expected(v), <<0, 0>>)
  <2>1. "stale" \notin marks
    BY <1>3, <1>7, <1>8 DEF Stale
  <2>2. cells = Cells(Expected(b), <<0, 0>>)
    BY <1>1, <2>1
  <2>3. cells = Cells(Expected(v), <<0, 0>>)
    BY <2>2, ExpectedSame DEF Shows
  <2>4. Safe(v, "DROP") <=> \A c \in cells : Inside(c)
    BY <2>3 DEF Safe
  <2> QED
    BY <1>7, <2>3, <2>4 DEF Shows
<1> QED
  BY <1>3, <1>7, <1>8

(* MoveFallingBlock with anything but DROP: the block turns, moves or stays. *)
LEMMA MoveIs ==
  ASSUME NEW b, NEW r, NEW v, NEW input, IsBoard(b), b.falling # None, Shows(b, v),
         input # "DROP", r = MoveFallingBlock(b, input)
  PROVE  /\ IsBoard(r) /\ r.wall = b.wall /\ r.hold = b.hold /\ r.canHold = b.canHold
         /\ r.next = b.next /\ r.apply = b.apply /\ r.playing = b.playing
         /\ r.marks = b.marks /\ r.fault = b.fault /\ r.wait = b.wait
         /\ r.falling = IF Turns(v, input) THEN Rotate(v.falling, input)
                        ELSE IF CanMoveFallingBlock(v, Direction(input))
                        THEN [v.falling EXCEPT !.pos = Add(v.falling.pos, Direction(input))]
                        ELSE v.falling
<1>1. b.falling = v.falling /\ (CanMoveFallingBlock(b, Direction(input)) <=> CanMoveFallingBlock(v, Direction(input)))
  BY ExpectedSame DEF Shows
<1>2. CASE Turns(v, input)
  <2>1. PICK k : k = Rotate(v.falling, input)
    OBVIOUS
  <2>2. r = [b EXCEPT !.falling = k]
    BY <1>1, <1>2, <2>1 DEF MoveFallingBlock, Turns
  <2>3. /\ IsBoard(r) /\ r.wall = b.wall /\ r.hold = b.hold /\ r.canHold = b.canHold
        /\ r.next = b.next /\ r.apply = b.apply /\ r.playing = b.playing
        /\ r.marks = b.marks /\ r.fault = b.fault /\ r.wait = b.wait /\ r.falling = k
    BY <2>2 DEF IsBoard, Fields
  <2> QED
    BY <1>2, <2>1, <2>3
<1>3. CASE ~Turns(v, input) /\ CanMoveFallingBlock(v, Direction(input))
  <2>1. PICK k : k = [v.falling EXCEPT !.pos = Add(v.falling.pos, Direction(input))]
    OBVIOUS
  <2>2. r = [b EXCEPT !.falling = [b.falling EXCEPT !.pos = Add(b.falling.pos, Direction(input))]]
    BY <1>1, <1>3 DEF MoveFallingBlock, Turns
  <2>3. r = [b EXCEPT !.falling = k]
    BY <1>1, <2>1, <2>2
  <2>4. /\ IsBoard(r) /\ r.wall = b.wall /\ r.hold = b.hold /\ r.canHold = b.canHold
        /\ r.next = b.next /\ r.apply = b.apply /\ r.playing = b.playing
        /\ r.marks = b.marks /\ r.fault = b.fault /\ r.wait = b.wait /\ r.falling = k
    BY <2>3 DEF IsBoard, Fields
  <2> QED
    BY <1>3, <2>1, <2>4
<1>4. CASE ~Turns(v, input) /\ ~CanMoveFallingBlock(v, Direction(input))
  <2>1. r = b
    BY <1>1, <1>4 DEF MoveFallingBlock, Turns
  <2> QED
    BY <1>1, <1>4, <2>1
<1> QED
  BY <1>2, <1>3, <1>4

(* What an input leaves of the board b, n being the view it leads to: a    *)
(* block that is gone has been replaced, unless there was none to come.    *)
Leads(b, r, n) ==
  /\ r.wall = n.wall /\ r.hold = n.hold /\ r.canHold = n.canHold
  /\ \/ r.falling = n.falling /\ r.next = b.next
     \/ /\ n.falling = None /\ b.next # <<>>
        /\ r.falling = Spawned(Head(b.next)) /\ r.next = Tail(b.next) /\ r.wait = TRUE

LEMMA HoldIs ==
  ASSUME NEW b, NEW r, NEW v, IsBoard(b), b.falling # None, Shows(b, v), v.canHold = TRUE,
         r = Hold(b)
  PROVE  /\ IsBoard(r) /\ r.apply = b.apply /\ r.playing = b.playing
         /\ r.marks = b.marks /\ r.fault = b.fault
         /\ Leads(b, r, AfterInput(v, "HOLD"))
<1>1. PICK kept : kept = Kept(v.falling)
  OBVIOUS
<1>2. PICK held : held = [b EXCEPT !.hold = kept, !.canHold = FALSE, !.wait = TRUE]
  OBVIOUS
<1>3. /\ IsBoard(held) /\ held.wall = b.wall /\ held.hold = kept /\ held.canHold = FALSE
      /\ held.next = b.next /\ held.apply = b.apply /\ held.playing = b.playing
      /\ held.marks = b.marks /\ held.fault = b.fault
  BY <1>2 DEF IsBoard, Fields
<1>4. kept = [MakeFallingBlock(b.falling.shape) EXCEPT !.pos = <<-3, 3>>]
  BY <1>1 DEF Kept, Shows
<1>5. r = IF b.hold = None THEN NextFallingBlock([held EXCEPT !.falling = None])
          ELSE [held EXCEPT !.falling = [b.hold EXCEPT !.odd = TRUE]]
  BY <1>2, <1>4 DEF Hold
<1>6. PICK n : n = AfterInput(v, "HOLD")
  OBVIOUS
<1>7. /\ n.wall = b.wall /\ n.hold = kept /\ n.canHold = FALSE
      /\ n.falling = IF b.hold = None THEN None ELSE [b.hold EXCEPT !.odd = TRUE]
  BY <1>1, <1>6 DEF AfterInput, View, Shows
<1>8. CASE b.hold = None
  <2>1. PICK a : a = [held EXCEPT !.falling = None]
    OBVIOUS
  <2>2. /\ IsBoard(a) /\ a.wall = b.wall /\ a.hold = kept /\ a.canHold = FALSE
        /\ a.next = b.next /\ a.apply = b.apply /\ a.playing = b.playing
        /\ a.marks = b.marks /\ a.fault = b.fault /\ a.falling = None
    BY <1>3, <2>1 DEF IsBoard, Fields
  <2>3. r = NextFallingBlock(a)
    BY <1>5, <1>8, <2>1
  <2>4. Replaced(a, r)
    BY <2>2, <2>3, NextIs
  <2> QED
    BY <1>6, <1>7, <1>8, <2>2, <2>4 DEF Leads, Replaced
<1>9. CASE b.hold # None
  <2>1. PICK k : k = [b.hold EXCEPT !.odd = TRUE]
    OBVIOUS
  <2>2. r = [held EXCEPT !.falling = k]
    BY <1>5, <1>9, <2>1
  <2>3. /\ IsBoard(r) /\ r.wall = b.wall /\ r.hold = kept /\ r.canHold = FALSE
        /\ r.next = b.next /\ r.apply = b.apply /\ r.playing = b.playing
        /\ r.marks = b.marks /\ r.fault = b.fault /\ r.falling = k
    BY <1>3, <2>2 DEF IsBoard, Fields
  <2> QED
    BY <1>6, <1>7, <1>9, <2>1, <2>3 DEF Leads
<1> QED
  BY <1>8, <1>9

(* One key of the player, or one input of a packet. *)
InputDone(b, r, v, input) ==
  /\ IsBoard(r) /\ r.apply = Append(b.apply, input) /\ r.playing = b.playing
  /\ b.marks \subseteq r.marks
  /\ ~Stale(r) => /\ r.fault = "none" <=> Safe(v, input)
                  /\ Safe(v, input) => Leads(b, r, AfterInput(v, input))

LEMMA InputIs ==
  ASSUME NEW b, NEW r, NEW v, NEW input, IsBoard(b), b.fault = "none", b.falling # None,
         Shows(b, v), v.canHold \in BOOLEAN, r = ApplyInput(b, input)
  PROVE  InputDone(b, r, v, input)
<1> SUFFICES /\ IsBoard(r) /\ r.apply = Append(b.apply, input) /\ r.playing = b.playing
             /\ b.marks \subseteq r.marks
             /\ ~Stale(r) => /\ r.fault = "none" <=> Safe(v, input)
                             /\ Safe(v, input) => Leads(b, r, AfterInput(v, input))
  BY DEF InputDone
<1>1. PICK moved : moved = IF input = "HOLD" /\ b.canHold THEN Hold(b) ELSE MoveFallingBlock(b, input)
  OBVIOUS
<1>2. r = [moved EXCEPT !.apply = Append(moved.apply, input), !.wait = moved.wait \/ input = "DOWN"]
  BY <1>1 DEF ApplyInput
<1>3. ASSUME IsBoard(moved)
      PROVE  /\ IsBoard(r) /\ r.apply = Append(moved.apply, input) /\ r.playing = moved.playing
             /\ r.wall = moved.wall /\ r.hold = moved.hold /\ r.canHold = moved.canHold
             /\ r.next = moved.next /\ r.falling = moved.falling /\ r.marks = moved.marks
             /\ r.fault = moved.fault /\ (moved.wait = TRUE => r.wait = TRUE)
  <2>1. PICK p, q : p = Append(moved.apply, input) /\ q = (moved.wait \/ input = "DOWN")
    OBVIOUS
  <2>2. r = [moved EXCEPT !.apply = p, !.wait = q]
    BY <1>2, <2>1
  <2>3. /\ IsBoard(r) /\ r.apply = p /\ r.playing = moved.playing
        /\ r.wall = moved.wall /\ r.hold = moved.hold /\ r.canHold = moved.canHold
        /\ r.next = moved.next /\ r.falling = moved.falling /\ r.marks = moved.marks
        /\ r.fault = moved.fault /\ r.wait = q
    BY <1>3, <2>2 DEF IsBoard, Fields
  <2> QED
    BY <2>1, <2>3
<1>4. CASE input = "HOLD" /\ v.canHold = TRUE
  <2>1. moved = Hold(b)
    BY <1>1, <1>4 DEF Shows
  <2>2. /\ IsBoard(moved) /\ moved.apply = b.apply /\ moved.playing = b.playing
        /\ moved.marks = b.marks /\ moved.fault = b.fault
        /\ Leads(b, moved, AfterInput(v, input))
    BY <1>4, <2>1, HoldIs
  <2>3. Leads(b, r, AfterInput(v, input))
    BY <1>3, <2>2 DEF Leads
  <2>4. Safe(v, input)
    BY <1>4 DEF Safe
  <2> QED
    BY <1>3, <2>2, <2>3, <2>4
<1>5. CASE input = "DROP"
  <2>1. moved = MoveFallingBlock(b, input)
    BY <1>1, <1>5
  <2>2. PICK landed : landed = FallingBlockToWall(b)
    OBVIOUS
  <2>3. moved = IF landed.fault = "none" THEN NextFallingBlock(landed) ELSE landed
    BY <1>5, <2>1, <2>2 DEF MoveFallingBlock
  <2>4. /\ IsBoard(landed) /\ landed.next = b.next /\ landed.apply = b.apply
        /\ landed.playing = b.playing /\ landed.falling = None /\ landed.hold = b.hold
        /\ landed.canHold = TRUE /\ b.marks \subseteq landed.marks
        /\ ~Stale(landed) =>
             /\ landed.fault = "none" <=> Safe(v, "DROP")
             /\ Safe(v, "DROP") => landed.wall = v.wall \union Cells(Expected(v), <<0, 0>>)
    BY <2>2, LandIs
  <2>5. /\ IsBoard(moved) /\ moved.marks = landed.marks /\ moved.apply = landed.apply
        /\ moved.playing = landed.playing /\ moved.fault = landed.fault
    <3>1. moved = landed \/ moved = NextFallingBlock(landed)
      BY <2>3
    <3>2. moved = landed \/ Replaced(landed, moved)
      BY <2>4, <3>1, NextIs
    <3> QED
      BY <2>4, <3>2 DEF Replaced
  <2>6. /\ IsBoard(r) /\ r.apply = Append(b.apply, input) /\ r.playing = b.playing
        /\ b.marks \subseteq r.marks
    BY <1>3, <2>4, <2>5
  <2> SUFFICES ASSUME ~Stale(r)
               PROVE  /\ r.fault = "none" <=> Safe(v, input)
                      /\ Safe(v, input) => Leads(b, r, AfterInput(v, input))
    BY <2>6
  <2>7. /\ landed.fault = "none" <=> Safe(v, "DROP")
        /\ Safe(v, "DROP") => landed.wall = v.wall \union Cells(Expected(v), <<0, 0>>)
    <3>1. ~Stale(landed)
      BY <1>3, <2>5 DEF Stale
    <3> QED
      BY <2>4, <3>1
  <2>8. CASE ~Safe(v, "DROP")
    BY <1>3, <1>5, <2>5, <2>7, <2>8
  <2>9. CASE Safe(v, "DROP")
    <3>1. moved = NextFallingBlock(landed)
      BY <2>3, <2>7, <2>9
    <3>2. Replaced(landed, moved)
      BY <2>4, <3>1, NextIs
    <3>3. PICK n : n = AfterInput(v, input)
      OBVIOUS
    <3>4. /\ n.wall = v.wall \union Cells(Expected(v), <<0, 0>>) /\ n.hold = v.hold
          /\ n.canHold = TRUE /\ n.falling = None
      BY <1>5, <3>3 DEF AfterInput, View
    <3>5. Leads(b, r, n)
      <4>1. CASE b.next = <<>>
        BY <1>3, <2>4, <2>5, <2>7, <2>9, <3>2, <3>4, <4>1 DEF Leads, Shows, Replaced
      <4>2. CASE b.next # <<>>
        BY <1>3, <2>4, <2>5, <2>7, <2>9, <3>2, <3>4, <4>2 DEF Leads, Shows, Replaced
      <4> QED
        BY <4>1, <4>2
    <3> QED
      BY <1>3, <1>5, <2>5, <2>7, <2>9, <3>3, <3>5
  <2> QED
    BY <2>8, <2>9
<1>6. CASE input # "DROP" /\ ~(input = "HOLD" /\ v.canHold = TRUE)
  <2>1. moved = MoveFallingBlock(b, input)
    BY <1>1, <1>6 DEF Shows
  <2>2. PICK k : k = IF Turns(v, input) THEN Rotate(v.falling, input)
                     ELSE IF CanMoveFallingBlock(v, Direction(input))
                     THEN [v.falling EXCEPT !.pos = Add(v.falling.pos, Direction(input))]
                     ELSE v.falling
    OBVIOUS
  <2>3. /\ IsBoard(moved) /\ moved.wall = b.wall /\ moved.hold = b.hold /\ moved.canHold = b.canHold
        /\ moved.next = b.next /\ moved.apply = b.apply /\ moved.playing = b.playing
        /\ moved.marks = b.marks /\ moved.fault = b.fault /\ moved.falling = k
    BY <1>6, <2>1, <2>2, MoveIs
  <2>4. PICK n : n = AfterInput(v, input)
    OBVIOUS
  <2>5. n.wall = v.wall /\ n.hold = v.hold /\ n.canHold = v.canHold /\ n.falling = k
    <3>1. CASE Turns(v, input)
      BY <1>6, <2>2, <2>4, <3>1 DEF AfterInput, View
    <3>2. CASE ~Turns(v, input)
      BY <1>6, <2>2, <2>4, <3>2 DEF AfterInput, View
    <3> QED
      BY <3>1, <3>2
  <2>6. Leads(b, r, n)
    BY <1>3, <2>3, <2>5 DEF Leads, Shows
  <2>7. Safe(v, input)
    BY <1>6 DEF Safe
  <2> QED
    BY <1>3, <2>3, <2>4, <2>6, <2>7
<1> QED
  BY <1>4, <1>5, <1>6

(* Only a landing leaves a mark. *)
LEMMA InputMarks ==
  ASSUME NEW b, NEW r, NEW v, NEW input, IsBoard(b), b.fault = "none", b.falling # None,
         Shows(b, v), v.canHold \in BOOLEAN, r = ApplyInput(b, input), input # "DROP"
  PROVE  IsBoard(r) /\ r.marks = b.marks
<1>1. PICK moved : moved = IF input = "HOLD" /\ b.canHold THEN Hold(b) ELSE MoveFallingBlock(b, input)
  OBVIOUS
<1>2. PICK p, q : p = Append(moved.apply, input) /\ q = (moved.wait \/ input = "DOWN")
  OBVIOUS
<1>3. r = [moved EXCEPT !.apply = p, !.wait = q]
  BY <1>1, <1>2 DEF ApplyInput
<1>4. IsBoard(moved) /\ moved.marks = b.marks
  <2>1. CASE input = "HOLD" /\ v.canHold = TRUE
    <3>1. moved = Hold(b)
      BY <1>1, <2>1 DEF Shows
    <3> QED
      BY <2>1, <3>1, HoldIs
  <2>2. CASE ~(input = "HOLD" /\ v.canHold = TRUE)
    <3>1. moved = MoveFallingBlock(b, input)
      BY <1>1, <2>2 DEF Shows
    <3> QED
      BY <3>1, MoveIs
  <2> QED
    BY <2>1, <2>2
<1> QED
  BY <1>3, <1>4 DEF IsBoard, Fields

(* A gravity step is a DOWN or a DROP, but sets no other block up. *)
FallDone(b, r, v, input) ==
  /\ IsBoard(r) /\ r.apply = Append(b.apply, input) /\ r.playing = b.playing
  /\ b.marks \subseteq r.marks /\ r.next = b.next
  /\ ~Stale(r) => /\ r.fault = "none" <=> Safe(v, input)
                  /\ Safe(v, input) => Shows(r, AfterInput(v, input))

LEMMA FallIs ==
  ASSUME NEW b, NEW r, NEW v, IsBoard(b), b.fault = "none", b.falling # None,
         Shows(b, v), r = Fall(b)
  PROVE  \E input \in {"DOWN", "DROP"} : FallDone(b, r, v, input)
<1> SUFFICES \E input \in {"DOWN", "DROP"} :
               /\ IsBoard(r) /\ r.apply = Append(b.apply, input) /\ r.playing = b.playing
               /\ b.marks \subseteq r.marks /\ r.next = b.next
               /\ ~Stale(r) => /\ r.fault = "none" <=> Safe(v, input)
                               /\ Safe(v, input) => Shows(r, AfterInput(v, input))
  BY DEF FallDone
<1>1. CASE CanMoveFallingBlock(b, <<0, 1>>)
  <2>1. PICK a : a = MoveFallingBlock(b, "DOWN")
    OBVIOUS
  <2>2. PICK p : p = Append(a.apply, "DOWN")
    OBVIOUS
  <2>3. r = [a EXCEPT !.apply = p]
    BY <1>1, <2>1, <2>2 DEF Fall
  <2>4. ~Turns(v, "DOWN")
    BY DEF Turns
  <2>5. PICK k : k = IF CanMoveFallingBlock(v, Direction("DOWN"))
                     THEN [v.falling EXCEPT !.pos = Add(v.falling.pos, Direction("DOWN"))]
                     ELSE v.falling
    OBVIOUS
  <2>6. /\ IsBoard(a) /\ a.wall = b.wall /\ a.hold = b.hold /\ a.canHold = b.canHold
        /\ a.next = b.next /\ a.apply = b.apply /\ a.playing = b.playing
        /\ a.marks = b.marks /\ a.fault = b.fault /\ a.falling = k
    BY <2>1, <2>4, <2>5, MoveIs
  <2>7. /\ IsBoard(r) /\ r.wall = a.wall /\ r.hold = a.hold /\ r.canHold = a.canHold
        /\ r.next = a.next /\ r.apply = p /\ r.playing = a.playing
        /\ r.marks = a.marks /\ r.fault = a.fault /\ r.falling = a.falling
    BY <2>3, <2>6 DEF IsBoard, Fields
  <2>8. PICK n : n = AfterInput(v, "DOWN")
    OBVIOUS
  <2>9. n.wall = v.wall /\ n.hold = v.hold /\ n.canHold = v.canHold /\ n.falling = k
    BY <2>4, <2>5, <2>8 DEF AfterInput, View
  <2>10. Safe(v, "DOWN")
    BY DEF Safe
  <2>11. Shows(r, n)
    BY <2>6, <2>7, <2>9 DEF Shows
  <2> QED
    BY <2>2, <2>6, <2>7, <2>8, <2>10, <2>11
<1>2. CASE ~CanMoveFallingBlock(b, <<0, 1>>)
  <2>1. PICK a : a = FallingBlockToWall(b)
    OBVIOUS
  <2>2. PICK p : p = Append(a.apply, "DROP")
    OBVIOUS
  <2>3. r = [a EXCEPT !.apply = p]
    BY <1>2, <2>1, <2>2 DEF Fall
  <2>4. /\ IsBoard(a) /\ a.next = b.next /\ a.apply = b.apply /\ a.playing = b.playing
        /\ a.falling = None /\ a.hold = b.hold /\ a.canHold = TRUE /\ b.marks \subseteq a.marks
        /\ ~Stale(a) =>
             /\ a.fault = "none" <=> Safe(v, "DROP")
             /\ Safe(v, "DROP") => a.wall = v.wall \union Cells(Expected(v), <<0, 0>>)
    BY <2>1, LandIs
  <2>5. /\ IsBoard(r) /\ r.wall = a.wall /\ r.hold = a.hold /\ r.canHold = a.canHold
        /\ r.next = a.next /\ r.apply = p /\ r.playing = a.playing
        /\ r.marks = a.marks /\ r.fault = a.fault /\ r.falling = a.falling
    BY <2>3, <2>4 DEF IsBoard, Fields
  <2>6. ASSUME ~Stale(r)
        PROVE  /\ r.fault = "none" <=> Safe(v, "DROP")
               /\ Safe(v, "DROP") => Shows(r, AfterInput(v, "DROP"))
    <3>1. ~Stale(a)
      BY <2>5, <2>6 DEF Stale
    <3>2. PICK n : n = AfterInput(v, "DROP")
      OBVIOUS
    <3>3. /\ n.wall = v.wall \union Cells(Expected(v), <<0, 0>>) /\ n.hold = v.hold
          /\ n.canHold = TRUE /\ n.falling = None
      BY <3>2 DEF AfterInput, View
    <3>4. Safe(v, "DROP") => Shows(r, n)
      BY <2>4, <2>5, <3>1, <3>3 DEF Shows
    <3> QED
      BY <2>4, <2>5, <3>1, <3>2, <3>4
  <2> QED
    BY <2>2, <2>4, <2>5, <2>6
<1> QED
  BY <1>1, <1>2

-----------------------------------------------------------------------------
(* The board b, to which the first count blocks of sup have been queued,   *)
(* has come to the view v: it may have set up the next block when v has    *)
(* not, and the other way round.                                           *)
Taken(b, count) == count - Len(b.next)

Queue(b, sup, count) ==
  /\ IsBoard(b) /\ b.playing = TRUE /\ b.next \in Seq(Shapes)
  /\ Len(b.next) <= count
  /\ \A i \in 1 .. Len(b.next) : b.next[i] = sup[Taken(b, count) + i]

Exactly(b, sup, count, v) ==
  /\ Queue(b, sup, count) /\ Shows(b, v) /\ Taken(b, count) = v.taken

Holds(b, sup, count, v) ==
  /\ Queue(b, sup, count)
  /\ b.wall = v.wall /\ b.hold = v.hold /\ b.canHold = v.canHold
  /\ \/ b.falling = v.falling /\ Taken(b, count) = v.taken
     \/ /\ b.falling = None /\ Taken(b, count) + 1 = v.taken
        /\ v.falling = Spawned(sup[v.taken])
     \/ /\ v.falling = None /\ v.taken + 1 = Taken(b, count)
        /\ b.falling = Spawned(sup[Taken(b, count)])

(* A view between two updates. *)
IsView(v, sup) ==
  /\ v = View(v.wall, v.hold, v.canHold, v.falling, v.taken)
  /\ v.canHold \in BOOLEAN /\ v.taken \in 0 .. Len(sup)
  /\ v.wall \in SUBSET Cell /\ FullRows(v.wall) = {}

(* The view with a block in play, and with its lines removed. *)
Ready(v, sup) ==
  IF v.falling = None
  THEN View(v.wall, v.hold, v.canHold, Spawned(sup[v.taken + 1]), v.taken + 1)
  ELSE v

Removed(v) == View(RemoveWall(v.wall), v.hold, v.canHold, v.falling, v.taken)

(* The packet p takes the view v to the view w. *)
Follows(v, p, w, sup) ==
  /\ v.falling = None => v.taken < Len(sup)
  /\ \/ \E i : /\ p = <<i>> /\ Safe(Ready(v, sup), i)
               /\ w = Removed(AfterInput(Ready(v, sup), i))
     \/ \E i, j : LET m == AfterInput(Ready(v, sup), i)
                  IN /\ p = <<i, j>> /\ Safe(Ready(v, sup), i) /\ m.falling # None
                     /\ Safe(m, j) /\ w = Removed(AfterInput(m, j))

(* The next block of the queue is the next one of the room. *)
LEMMA QueueTail ==
  ASSUME NEW b, NEW sup \in Seq(Shapes), NEW count \in 0 .. Len(sup), NEW r,
         Queue(b, sup, count), b.next # <<>>,
         IsBoard(r), r.playing = TRUE, r.next = Tail(b.next)
  PROVE  /\ Queue(r, sup, count)
         /\ Taken(b, count) \in Nat /\ Taken(r, count) = Taken(b, count) + 1
         /\ Taken(r, count) \in 1 .. Len(sup)
         /\ Head(b.next) = sup[Taken(r, count)] /\ Head(b.next) \in Shapes
<1>1. PICK q : q = b.next
  OBVIOUS
<1>2. q \in Seq(Shapes) /\ q # <<>> /\ Len(q) <= count
  BY <1>1 DEF Queue
<1>3. PICK l, m \in Nat : l = Len(q) /\ m = Len(Tail(q)) /\ m = l - 1
  BY <1>2
<1>4. count \in Nat /\ count <= Len(sup) /\ Len(sup) \in Nat
  OBVIOUS
<1>5. PICK t \in Nat : t = count - l
  <2>1. count - l \in Nat
    BY <1>2, <1>3, <1>4
  <2> QED
    BY <2>1
<1>6. Taken(b, count) = t
  BY <1>1, <1>3, <1>5 DEF Taken
<1>7. count - m = t + 1
  <2>1. m = l - 1 /\ t = count - l
    BY <1>3, <1>5
  <2> QED
    BY <1>4, <2>1
<1>8. Taken(r, count) = t + 1
  BY <1>1, <1>3, <1>7 DEF Taken
<1>9. t + 1 \in 1 .. Len(sup)
  <2>1. l >= 1
    BY <1>2, <1>3
  <2> QED
    BY <1>3, <1>4, <1>5, <2>1
<1>10. \A i \in 1 .. l : q[i] = sup[t + i]
  BY <1>1, <1>3, <1>6 DEF Queue
<1>11. ASSUME NEW i \in 1 .. m PROVE Tail(q)[i] = sup[(t + 1) + i]
  <2>1. Tail(q)[i] = q[i + 1]
    BY <1>2, <1>3
  <2>2. i + 1 \in 1 .. l /\ t + (i + 1) = (t + 1) + i
    BY <1>3
  <2>3. q[i + 1] = sup[t + (i + 1)]
    BY <1>10, <2>2
  <2> QED
    BY <2>1, <2>2, <2>3
<1>12. Tail(q) \in Seq(Shapes) /\ m <= count
  BY <1>2, <1>3, <1>4
<1>13. Queue(r, sup, count)
  BY <1>1, <1>3, <1>8, <1>11, <1>12 DEF Queue
<1>14. Head(q) = q[1] /\ 1 \in 1 .. l
  BY <1>2, <1>3
<1>15. Head(q) = sup[t + 1] /\ sup[t + 1] \in Shapes
  BY <1>9, <1>10, <1>14
<1> QED
  BY <1>1, <1>6, <1>8, <1>9, <1>13, <1>15

(* Looking for a block in play changes nothing that counts. *)
LEMMA ReadyHolds ==
  ASSUME NEW b, NEW sup \in Seq(Shapes), NEW count \in 0 .. Len(sup), NEW v, NEW r,
         Holds(b, sup, count, v), v.taken \in 0 .. Len(sup),
         r = IF b.falling = None THEN NextFallingBlock(b) ELSE b
  PROVE  /\ Holds(r, sup, count, v) /\ (r.falling = None => r.next = <<>>)
         /\ r.apply = b.apply /\ r.marks = b.marks /\ r.fault = b.fault
<1>1. CASE b.falling # None \/ b.next = <<>>
  <2>1. r = b
    BY <1>1 DEF NextFallingBlock
  <2> QED
    BY <1>1, <2>1
<1>2. CASE b.falling = None /\ b.next # <<>>
  <2>1. Queue(b, sup, count) /\ IsBoard(b) /\ b.playing = TRUE
    BY DEF Holds, Queue
  <2>2. Replaced(b, r)
    BY <1>2, <2>1, NextIs
  <2>3. /\ IsBoard(r) /\ r.playing = TRUE /\ r.next = Tail(b.next)
        /\ r.falling = Spawned(Head(b.next))
    BY <1>2, <2>1, <2>2 DEF Replaced
  <2>4. PICK t, u : t = Taken(b, count) /\ u = Taken(r, count)
    OBVIOUS
  <2>5. /\ Queue(r, sup, count) /\ t \in Nat /\ u = t + 1 /\ u \in 1 .. Len(sup)
        /\ Head(b.next) = sup[u] /\ Head(b.next) \in Shapes
    BY <1>2, <2>1, <2>3, <2>4, QueueTail
  <2>6. r.falling = Spawned(sup[u]) /\ r.falling # None
    BY <2>3, <2>5, SpawnedIs
  <2>7. \/ b.falling = v.falling /\ t = v.taken
        \/ b.falling = None /\ t + 1 = v.taken /\ v.falling = Spawned(sup[v.taken])
    <3>1. CASE v.falling = None /\ v.taken + 1 = t /\ b.falling = Spawned(sup[t])
      <4>1. t \in 1 .. Len(sup)
        BY <2>5, <3>1
      <4>2. sup[t] \in Shapes
        BY <4>1
      <4> QED
        BY <1>2, <3>1, <4>2, SpawnedIs
    <3> QED
      BY <2>4, <3>1 DEF Holds
  <2>8. r.wall = v.wall /\ r.hold = v.hold /\ r.canHold = v.canHold
    BY <2>2 DEF Holds, Replaced
  <2>9. Holds(r, sup, count, v)
    BY <1>2, <2>4, <2>5, <2>6, <2>7, <2>8 DEF Holds
  <2> QED
    BY <2>2, <2>6, <2>9 DEF Replaced
<1> QED
  BY <1>1, <1>2

(* A board with a block in play is exactly at the ready view; a board      *)
(* without one, where the view has or will have one, lacks it.             *)
LEMMA InPlayExactly ==
  ASSUME NEW b, NEW sup \in Seq(Shapes), NEW count \in 0 .. Len(sup), NEW v,
         Holds(b, sup, count, v), v.taken \in 0 .. Len(sup)
  PROVE  /\ b.falling # None =>
              /\ Exactly(b, sup, count, Ready(v, sup))
              /\ v.falling = None => v.taken < Len(sup)
         /\ b.falling = None /\ b.next = <<>> /\ (v.falling = None => v.taken < Len(sup))
              => count < Len(sup)
<1>1. PICK t : t = Taken(b, count)
  OBVIOUS
<1>2. Len(b.next) \in Nat /\ Len(b.next) <= count /\ count \in Nat /\ Len(sup) \in Nat /\ count <= Len(sup)
  BY DEF Holds, Queue
<1>3. t \in Nat /\ t <= count /\ v.taken \in Nat /\ v.taken <= Len(sup)
  BY <1>1, <1>2 DEF Taken
<1>4. ASSUME b.falling # None
      PROVE  Exactly(b, sup, count, Ready(v, sup)) /\ (v.falling = None => v.taken < Len(sup))
  <2>1. CASE b.falling = v.falling /\ t = v.taken
    BY <1>1, <1>4, <2>1 DEF Exactly, Shows, Holds, Ready
  <2>2. CASE v.falling = None /\ v.taken + 1 = t /\ b.falling = Spawned(sup[t])
    <3>1. PICK w : w = Ready(v, sup)
      OBVIOUS
    <3>2. /\ w.wall = v.wall /\ w.hold = v.hold /\ w.canHold = v.canHold
          /\ w.falling = Spawned(sup[v.taken + 1]) /\ w.taken = v.taken + 1
      BY <2>2, <3>1 DEF Ready, View
    <3>3. Exactly(b, sup, count, w)
      BY <1>1, <2>2, <3>2 DEF Exactly, Shows, Holds
    <3> QED
      BY <1>2, <1>3, <2>2, <3>1, <3>3
  <2> QED
    BY <1>1, <1>4, <2>1, <2>2 DEF Holds
<1>5. ASSUME b.falling = None, b.next = <<>>, v.falling = None => v.taken < Len(sup)
      PROVE  count < Len(sup)
  <2>1. t = count
    BY <1>1, <1>2, <1>5 DEF Taken
  <2>2. CASE b.falling = v.falling /\ t = v.taken
    BY <1>5, <2>1, <2>2
  <2>3. CASE t + 1 = v.taken
    BY <1>2, <1>3, <2>1, <2>3
  <2>4. CASE v.falling = None /\ v.taken + 1 = t /\ b.falling = Spawned(sup[t])
    <3>1. sup[t] \in Shapes
      BY <1>2, <1>3, <2>4
    <3> QED
      BY <1>5, <2>4, <3>1, SpawnedIs
  <2> QED
    BY <1>1, <2>2, <2>3, <2>4 DEF Holds
<1> QED
  BY <1>4, <1>5

-----------------------------------------------------------------------------
(* Updates of no, one and two inputs are all there are. *)
LEMMA ApplyRun ==
  ASSUME NEW b
  PROVE  /\ ApplyInputs(b, <<>>) = b
         /\ \A i : ApplyInputs(b, <<i>>) = ApplyInput(b, i)
         /\ \A i, j : ApplyInputs(b, <<i, j>>) = ApplyInput(ApplyInput(b, i), j)
<1>1. ASSUME NEW p, Len(p) \in 0 .. 2
      PROVE  \E f : /\ ApplyInputs(b, p) = f[Len(p)] /\ f[0] = b
                    /\ \A n \in 1 .. Len(p) : f[n] = ApplyInput(f[n - 1], p[n])
  <2> DEFINE L == Len(p)
             R(f) == f = [n \in 0 .. L |-> IF n = 0 THEN b ELSE ApplyInput(f[n - 1], p[n])]
             g == [n \in 0 .. L |-> IF n = 0 THEN b
                                    ELSE IF n = 1 THEN ApplyInput(b, p[1])
                                    ELSE ApplyInput(ApplyInput(b, p[1]), p[2])]
  <2>0. L = 0 \/ L = 1 \/ L = 2
    BY <1>1
  <2>1. R(g)
    <3>1. ASSUME NEW n \in 0 .. L, n # 0 PROVE g[n] = ApplyInput(g[n - 1], p[n])
      <4>1. n = 1 \/ n = 2
        <5> HIDE DEF L
        <5> QED
          BY <2>0, <3>1
      <4>2. CASE n = 1
        BY <3>1, <4>2
      <4>3. CASE n = 2
        <5>1. 1 \in 0 .. L /\ n - 1 = 1
          BY <3>1, <4>3
        <5> QED
          BY <3>1, <4>3, <5>1
      <4> QED
        BY <4>1, <4>2, <4>3
    <3>2. ASSUME NEW n \in 0 .. L PROVE g[n] = IF n = 0 THEN b ELSE ApplyInput(g[n - 1], p[n])
      BY <3>1
    <3>3. g = [n \in 0 .. L |-> g[n]]
      OBVIOUS
    <3> HIDE DEF g
    <3> QED
      BY <3>2, <3>3
  <2>2. ApplyInputs(b, p) = (CHOOSE f : R(f))[L]
    BY DEF ApplyInputs
  <2> HIDE DEF g
  <2>3. \E f : R(f)
    BY <2>1
  <2>4. R(CHOOSE f : R(f))
    <3> HIDE DEF R
    <3> QED
      BY <2>3
  <2>5. PICK f : R(f) /\ ApplyInputs(b, p) = f[L]
    <3> HIDE DEF R
    <3> QED
      BY <2>2, <2>4
  <2>6. f[0] = b
    BY <1>1, <2>5
  <2>7. ASSUME NEW n \in 1 .. L PROVE f[n] = ApplyInput(f[n - 1], p[n])
    BY <1>1, <2>5, <2>7
  <2> QED
    BY <2>5, <2>6, <2>7
<1>2. ApplyInputs(b, <<>>) = b
  <2>1. Len(<<>>) = 0
    OBVIOUS
  <2> QED
    BY <1>1, <2>1
<1>3. ASSUME NEW i PROVE ApplyInputs(b, <<i>>) = ApplyInput(b, i)
  <2>1. Len(<<i>>) = 1 /\ <<i>>[1] = i
    OBVIOUS
  <2>2. PICK f : /\ ApplyInputs(b, <<i>>) = f[1] /\ f[0] = b
                 /\ \A n \in 1 .. 1 : f[n] = ApplyInput(f[n - 1], <<i>>[n])
    BY <1>1, <2>1
  <2>3. f[1] = ApplyInput(f[1 - 1], <<i>>[1])
    BY <2>2
  <2> QED
    BY <2>1, <2>2, <2>3
<1>4. ASSUME NEW i, NEW j PROVE ApplyInputs(b, <<i, j>>) = ApplyInput(ApplyInput(b, i), j)
  <2>1. Len(<<i, j>>) = 2 /\ <<i, j>>[1] = i /\ <<i, j>>[2] = j
    OBVIOUS
  <2>2. PICK f : /\ ApplyInputs(b, <<i, j>>) = f[2] /\ f[0] = b
                 /\ \A n \in 1 .. 2 : f[n] = ApplyInput(f[n - 1], <<i, j>>[n])
    BY <1>1, <2>1
  <2>3. f[1] = ApplyInput(f[1 - 1], <<i, j>>[1]) /\ f[2] = ApplyInput(f[2 - 1], <<i, j>>[2])
    BY <2>2
  <2>4. f[1] = ApplyInput(b, i)
    BY <2>1, <2>2, <2>3
  <2> QED
    BY <2>1, <2>2, <2>3, <2>4
<1> QED
  BY <1>2, <1>3, <1>4

(* The end of Update: the lines are removed. *)
Ended(a, r) ==
  /\ IsBoard(r) /\ r.wall = RemoveWall(a.wall) /\ r.hold = a.hold /\ r.canHold = a.canHold
  /\ r.falling = a.falling /\ r.next = a.next /\ r.apply = a.apply /\ r.marks = a.marks
  /\ r.playing = a.playing /\ r.fault = a.fault

(* The two boards differ in what the last Update left to be told. *)
Emptied(a, r) ==
  /\ IsBoard(r) /\ r.wall = a.wall /\ r.hold = a.hold /\ r.canHold = a.canHold
  /\ r.falling = a.falling /\ r.next = a.next /\ r.apply = <<>> /\ r.marks = {}
  /\ r.playing = a.playing /\ r.fault = a.fault

(* Update, from its first line to its last. *)
Runs(b, inputs, tick, r, ready, fresh, applied, fallen) ==
  /\ ready = IF b.falling = None THEN NextFallingBlock(b) ELSE b
  /\ IsBoard(ready) => Emptied(ready, fresh)
  /\ applied = ApplyInputs(fresh, inputs)
  /\ fallen = UpdateFallingBlock(applied, tick)
  /\ applied.fault # "none" => r = applied
  /\ applied.fault = "none" /\ fallen.fault # "none" => r = fallen
  /\ applied.fault = "none" /\ fallen.fault = "none" /\ IsBoard(fallen) => Ended(fallen, r)

LEMMA UpdateIs ==
  ASSUME NEW b, NEW inputs, NEW tick, NEW r, IsBoard(b), b.playing = TRUE,
         r = Update(b, inputs, tick)
  PROVE  \E ready, fresh, applied, fallen : Runs(b, inputs, tick, r, ready, fresh, applied, fallen)
<1>1. PICK ready : ready = IF b.falling = None THEN NextFallingBlock(b) ELSE b
  OBVIOUS
<1>2. PICK fresh : fresh = [ready EXCEPT !.apply = <<>>, !.marks = {}]
  OBVIOUS
<1>3. IsBoard(ready) => Emptied(ready, fresh)
  BY <1>2 DEF IsBoard, Fields, Emptied
<1>4. PICK applied : applied = ApplyInputs(fresh, inputs)
  OBVIOUS
<1>5. PICK fallen : fallen = UpdateFallingBlock(applied, tick)
  OBVIOUS
<1>6. PICK expects : expects = UpdateExpectBlock(fallen)
  OBVIOUS
<1>7. r = IF applied.fault # "none" THEN applied
          ELSE IF fallen.fault # "none" THEN fallen
          ELSE [expects EXCEPT !.wall = RemoveWall(expects.wall), !.before = fallen.wall,
                               !.wait = FALSE,
                               !.cleared = expects.cleared + Cardinality(FullRows(fallen.wall))]
  BY <1>1, <1>2, <1>4, <1>5, <1>6 DEF Update
<1>8. ASSUME applied.fault = "none", fallen.fault = "none", IsBoard(fallen) PROVE Ended(fallen, r)
  <2>1. expects = fallen \/ \E e : expects = [fallen EXCEPT !.expect = e]
    BY <1>6 DEF UpdateExpectBlock
  <2>2. /\ IsBoard(expects) /\ expects.wall = fallen.wall /\ expects.hold = fallen.hold
        /\ expects.canHold = fallen.canHold /\ expects.falling = fallen.falling
        /\ expects.next = fallen.next /\ expects.apply = fallen.apply
        /\ expects.marks = fallen.marks /\ expects.playing = fallen.playing
        /\ expects.fault = fallen.fault
    BY <1>8, <2>1 DEF IsBoard, Fields
  <2>3. PICK w, u, n : /\ w = RemoveWall(fallen.wall) /\ u = fallen.wall
                       /\ n = expects.cleared + Cardinality(FullRows(fallen.wall))
    OBVIOUS
  <2>4. r = [expects EXCEPT !.wall = w, !.before = u, !.wait = FALSE, !.cleared = n]
    BY <1>7, <1>8, <2>2, <2>3
  <2>5. /\ IsBoard(r) /\ r.wall = w /\ r.hold = expects.hold /\ r.canHold = expects.canHold
        /\ r.falling = expects.falling /\ r.next = expects.next /\ r.apply = expects.apply
        /\ r.marks = expects.marks /\ r.playing = expects.playing /\ r.fault = expects.fault
    BY <2>2, <2>4 DEF IsBoard, Fields
  <2> QED
    BY <2>2, <2>3, <2>5 DEF Ended
<1>9. Runs(b, inputs, tick, r, ready, fresh, applied, fallen)
  BY <1>1, <1>3, <1>4, <1>5, <1>7, <1>8 DEF Runs
<1> QED
  BY <1>9

-----------------------------------------------------------------------------
(* A view in the middle of an update. *)
IsMid(v) ==
  /\ v = View(v.wall, v.hold, v.canHold, v.falling, v.taken)
  /\ v.canHold \in BOOLEAN /\ v.wall \in SUBSET Cell

LEMMA ReadyIs ==
  ASSUME NEW v, NEW sup, Len(sup) \in Nat, IsView(v, sup), v.falling = None => v.taken < Len(sup)
  PROVE  IsMid(Ready(v, sup)) /\ Ready(v, sup).taken \in 0 .. Len(sup)
<1>1. CASE v.falling = None
  <2>1. PICK w : w = Ready(v, sup)
    OBVIOUS
  <2>2. w = View(v.wall, v.hold, v.canHold, Spawned(sup[v.taken + 1]), v.taken + 1)
    BY <1>1, <2>1 DEF Ready
  <2>3. /\ w.wall = v.wall /\ w.hold = v.hold /\ w.canHold = v.canHold
        /\ w.falling = Spawned(sup[v.taken + 1]) /\ w.taken = v.taken + 1
    BY <2>2 DEF View
  <2>4. w = View(w.wall, w.hold, w.canHold, w.falling, w.taken)
    BY <2>2, <2>3
  <2>5. w.taken \in 0 .. Len(sup)
    BY <1>1, <2>3 DEF IsView
  <2> QED
    BY <2>1, <2>3, <2>4, <2>5 DEF IsMid, IsView
<1>2. CASE v.falling # None
  BY <1>2 DEF Ready, IsView, IsMid
<1> QED
  BY <1>1, <1>2

LEMMA MidView ==
  ASSUME NEW w, NEW h, NEW c \in BOOLEAN, NEW k, NEW t, w \in SUBSET Cell,
         NEW v, v = View(w, h, c, k, t)
  PROVE  IsMid(v) /\ v.taken = t
<1>1. v.wall = w /\ v.hold = h /\ v.canHold = c /\ v.falling = k /\ v.taken = t
  BY ViewIs
<1> QED
  BY <1>1 DEF IsMid

LEMMA AfterIs ==
  ASSUME NEW v, NEW input, IsMid(v), Safe(v, input), NEW n, n = AfterInput(v, input)
  PROVE  IsMid(n) /\ n.taken = v.taken
<1>1. v.canHold \in BOOLEAN /\ v.wall \in SUBSET Cell
  BY DEF IsMid
<1>2. ASSUME NEW w \in SUBSET Cell, NEW h, NEW c \in BOOLEAN, NEW k, n = View(w, h, c, k, v.taken)
      PROVE  IsMid(n) /\ n.taken = v.taken
  BY <1>2, MidView
<1>3. CASE input = "HOLD" /\ v.canHold = TRUE
  <2>1. \E h, k : n = View(v.wall, h, FALSE, k, v.taken)
    BY <1>3 DEF AfterInput
  <2> QED
    BY <1>1, <1>2, <2>1
<1>4. CASE input = "DROP"
  <2>1. PICK cells : cells = Cells(Expected(v), <<0, 0>>)
    OBVIOUS
  <2>2. n = View(v.wall \union cells, v.hold, TRUE, None, v.taken)
    BY <1>4, <2>1 DEF AfterInput
  <2>3. cells \subseteq Cell
    <3>1. ASSUME NEW c \in cells PROVE c \in Cell
      <4>1. Inside(c)
        BY <1>4, <2>1 DEF Safe
      <4>2. c = <<c[1], c[2]>>
        BY <2>1 DEF Cells, Add
      <4> QED
        BY <4>1, <4>2, CellIs DEF Inside, Cols, Rows
    <3> QED
      BY <3>1
  <2> QED
    BY <1>1, <1>2, <2>2, <2>3
<1>5. CASE ~(input = "HOLD" /\ v.canHold = TRUE) /\ input # "DROP"
  <2>1. n = v \/ \E k : n = View(v.wall, v.hold, v.canHold, k, v.taken)
    BY <1>5 DEF AfterInput
  <2> QED
    BY <1>1, <1>2, <2>1
<1> QED
  BY <1>3, <1>4, <1>5

LEMMA RemovedIs ==
  ASSUME NEW n, NEW sup, IsMid(n), n.taken \in 0 .. Len(sup)
  PROVE  IsView(Removed(n), sup)
<1>1. PICK w : w = Removed(n)
  OBVIOUS
<1>2. RemoveWall(n.wall) \in SUBSET Cell /\ FullRows(RemoveWall(n.wall)) = {}
  BY RemoveWallCounts DEF IsMid
<1>3. /\ w.wall = RemoveWall(n.wall) /\ w.hold = n.hold /\ w.canHold = n.canHold
      /\ w.falling = n.falling /\ w.taken = n.taken
  BY <1>1 DEF Removed, View
<1>4. w = View(w.wall, w.hold, w.canHold, w.falling, w.taken)
  BY <1>1, <1>3 DEF Removed
<1>5. IsView(w, sup)
  BY <1>2, <1>3, <1>4 DEF IsView, IsMid
<1> QED
  BY <1>1, <1>5

(* An input takes a board with a block in play along with the view. *)
LEMMA LeadsHolds ==
  ASSUME NEW b, NEW sup \in Seq(Shapes), NEW count \in 0 .. Len(sup), NEW v, NEW n, NEW r,
         Exactly(b, sup, count, v), IsBoard(r), r.playing = b.playing,
         Leads(b, r, n), n.taken = v.taken
  PROVE  /\ Holds(r, sup, count, n)
         /\ n.falling # None => Exactly(r, sup, count, n)
<1>1. Queue(b, sup, count) /\ r.playing = TRUE /\ Taken(b, count) = n.taken
  BY DEF Exactly, Queue
<1>2. CASE r.falling = n.falling /\ r.next = b.next
  <2>1. Queue(r, sup, count) /\ Taken(r, count) = n.taken
    BY <1>1, <1>2 DEF Queue, Taken
  <2> QED
    BY <1>2, <2>1 DEF Leads, Holds, Exactly, Shows
<1>3. CASE /\ n.falling = None /\ b.next # <<>>
           /\ r.falling = Spawned(Head(b.next)) /\ r.next = Tail(b.next)
  <2>1. PICK t, u : t = Taken(b, count) /\ u = Taken(r, count)
    OBVIOUS
  <2>2. Queue(r, sup, count) /\ u = t + 1 /\ Head(b.next) = sup[u]
    BY <1>1, <1>3, <2>1, QueueTail
  <2>3. r.wall = n.wall /\ r.hold = n.hold /\ r.canHold = n.canHold
    BY DEF Leads
  <2>4. Holds(r, sup, count, n)
    BY <1>1, <1>3, <2>1, <2>2, <2>3 DEF Holds
  <2> QED
    BY <1>3, <2>4
<1> QED
  BY <1>2, <1>3 DEF Leads

(* The end of an update removes the lines of both. *)
LEMMA EndedHolds ==
  ASSUME NEW b, NEW sup, NEW count, NEW n, NEW r, Holds(b, sup, count, n), Ended(b, r)
  PROVE  Holds(r, sup, count, Removed(n))
<1>1. PICK w : w = Removed(n)
  OBVIOUS
<1>2. /\ w.wall = RemoveWall(n.wall) /\ w.hold = n.hold /\ w.canHold = n.canHold
      /\ w.falling = n.falling /\ w.taken = n.taken
  BY <1>1 DEF Removed, View
<1>3. Queue(r, sup, count) /\ Taken(r, count) = Taken(b, count)
  BY DEF Holds, Ended, Queue, Taken
<1>4. r.wall = w.wall /\ r.hold = w.hold /\ r.canHold = w.canHold /\ r.falling = b.falling
  BY <1>2 DEF Holds, Ended
<1>5. Holds(r, sup, count, w)
  BY <1>2, <1>3, <1>4 DEF Holds
<1> QED
  BY <1>1, <1>5

LEMMA EmptiedHolds ==
  ASSUME NEW b, NEW sup, NEW count, NEW v, NEW r, Holds(b, sup, count, v), Emptied(b, r)
  PROVE  Holds(r, sup, count, v)
<1>1. Queue(r, sup, count) /\ Taken(r, count) = Taken(b, count)
  BY DEF Holds, Emptied, Queue, Taken
<1> QED
  BY <1>1 DEF Holds, Emptied

(* A view between two updates has no lines to remove. *)
LEMMA RemovedIdle ==
  ASSUME NEW v, NEW sup, IsView(v, sup) PROVE Removed(v) = v
<1>1. RemoveWall(v.wall) = v.wall
  BY RemoveWallIdle DEF IsView
<1> QED
  BY <1>1 DEF Removed, IsView

-----------------------------------------------------------------------------
(* An input for a board without a block in play follows a null pointer. *)
LEMMA InputNull ==
  ASSUME NEW b, NEW input, NEW r, IsBoard(b), b.fault = "none", b.falling = None,
         r = ApplyInput(b, input)
  PROVE  r.fault = "null"
<1>1. PICK moved : moved = IF input = "HOLD" /\ b.canHold THEN Hold(b) ELSE MoveFallingBlock(b, input)
  OBVIOUS
<1>2. r = [moved EXCEPT !.apply = Append(moved.apply, input), !.wait = moved.wait \/ input = "DOWN"]
  BY <1>1 DEF ApplyInput
<1>3. Hold(b) = [b EXCEPT !.fault = "null"] /\ MoveFallingBlock(b, input) = [b EXCEPT !.fault = "null"]
  BY DEF Hold, MoveFallingBlock, Crash
<1>4. moved = [b EXCEPT !.fault = "null"]
  BY <1>1, <1>3
<1>5. IsBoard(moved) /\ moved.fault = "null"
  BY <1>4 DEF IsBoard, Fields
<1> QED
  BY <1>2, <1>5 DEF IsBoard, Fields

(* Update up to the inputs: the board looks for a block in play. *)
LEMMA StartHolds ==
  ASSUME NEW b, NEW sup \in Seq(Shapes), NEW count \in 0 .. Len(sup), NEW v, NEW inputs, NEW tick,
         NEW r, NEW ready, NEW fresh, NEW applied, NEW fallen,
         Holds(b, sup, count, v), v.taken \in 0 .. Len(sup), b.fault = "none",
         Runs(b, inputs, tick, r, ready, fresh, applied, fallen)
  PROVE  /\ Holds(fresh, sup, count, v) /\ (fresh.falling = None => fresh.next = <<>>)
         /\ fresh.fault = "none" /\ fresh.marks = {} /\ fresh.apply = <<>>
         /\ IsBoard(fresh) /\ fresh.playing = TRUE
<1>1. ready = IF b.falling = None THEN NextFallingBlock(b) ELSE b
  BY DEF Runs
<1>2. /\ Holds(ready, sup, count, v) /\ (ready.falling = None => ready.next = <<>>)
      /\ ready.apply = b.apply /\ ready.marks = b.marks /\ ready.fault = b.fault
  BY <1>1, ReadyHolds
<1>3. Emptied(ready, fresh)
  BY <1>2 DEF Holds, Queue, Runs
<1>4. Holds(fresh, sup, count, v)
  BY <1>2, <1>3, EmptiedHolds
<1> QED
  BY <1>2, <1>3, <1>4 DEF Emptied, Holds, Queue

(* Update after the inputs, when gravity does not act. *)
Floats(applied, fallen) ==
  fallen = IF applied.falling = None THEN NextFallingBlock(applied) ELSE applied

Finished(r, applied, sup, count, n) ==
  r.fault = "none" /\ r.apply = applied.apply /\ Holds(r, sup, count, Removed(n))

LEMMA FinishHolds ==
  ASSUME NEW b, NEW sup \in Seq(Shapes), NEW count \in 0 .. Len(sup), NEW n, NEW inputs, NEW tick,
         NEW r, NEW ready, NEW fresh, NEW applied, NEW fallen,
         Runs(b, inputs, tick, r, ready, fresh, applied, fallen), Floats(applied, fallen),
         applied.fault = "none", Holds(applied, sup, count, n), n.taken \in 0 .. Len(sup)
  PROVE  Finished(r, applied, sup, count, n)
<1>1. /\ Holds(fallen, sup, count, n) /\ (fallen.falling = None => fallen.next = <<>>)
      /\ fallen.apply = applied.apply /\ fallen.marks = applied.marks /\ fallen.fault = applied.fault
  BY ReadyHolds DEF Floats
<1>2. Ended(fallen, r)
  BY <1>1 DEF Runs, Holds, Queue
<1>3. Holds(r, sup, count, Removed(n))
  BY <1>1, <1>2, EndedHolds
<1> QED
  BY <1>1, <1>2, <1>3 DEF Ended, Finished

SameMarks(r, applied) == r.marks = applied.marks /\ r.fault = applied.fault

LEMMA FinishMarks ==
  ASSUME NEW b, NEW inputs, NEW tick, NEW r, NEW ready, NEW fresh, NEW applied, NEW fallen,
         Runs(b, inputs, tick, r, ready, fresh, applied, fallen), Floats(applied, fallen),
         IsBoard(applied)
  PROVE  SameMarks(r, applied)
<1>1. fallen = applied \/ Replaced(applied, fallen)
  BY NextIs DEF Floats
<1>2. IsBoard(fallen) /\ fallen.marks = applied.marks /\ fallen.fault = applied.fault
  BY <1>1 DEF Replaced
<1> QED
  BY <1>2 DEF Runs, Ended, SameMarks

(* One input to a board with a block in play, n being the view it leads to. *)
Carried(b, r, sup, count, v, input, n) ==
  /\ IsBoard(r) /\ r.apply = Append(b.apply, input) /\ r.playing = TRUE
  /\ r.fault = "none" <=> Safe(v, input)
  /\ Safe(v, input) =>
       /\ Leads(b, r, n) /\ IsMid(n) /\ n.taken = v.taken
       /\ Holds(r, sup, count, n)
       /\ n.falling # None => Exactly(r, sup, count, n)

LEMMA InputHolds ==
  ASSUME NEW b, NEW sup \in Seq(Shapes), NEW count \in 0 .. Len(sup), NEW v, NEW input, NEW r,
         NEW n, n = AfterInput(v, input),
         Exactly(b, sup, count, v), IsMid(v), b.fault = "none", b.falling # None,
         r = ApplyInput(b, input), ~Stale(r)
  PROVE  Carried(b, r, sup, count, v, input, n)
<1>1. IsBoard(b) /\ b.playing = TRUE /\ Shows(b, v) /\ v.canHold \in BOOLEAN
  BY DEF Exactly, Queue, IsMid
<1>2. InputDone(b, r, v, input)
  BY <1>1, InputIs
<1>3. /\ IsBoard(r) /\ r.apply = Append(b.apply, input) /\ r.playing = b.playing
      /\ r.fault = "none" <=> Safe(v, input)
      /\ Safe(v, input) => Leads(b, r, n)
  BY <1>2 DEF InputDone
<1>4. ASSUME Safe(v, input)
      PROVE  /\ IsMid(n) /\ n.taken = v.taken
             /\ Holds(r, sup, count, n)
             /\ n.falling # None => Exactly(r, sup, count, n)
  <2>1. IsMid(n) /\ n.taken = v.taken
    BY <1>4, AfterIs
  <2> QED
    BY <1>3, <1>4, <2>1, LeadsHolds
<1> QED
  BY <1>1, <1>3, <1>4 DEF Carried

(* ReqGameInput::OnResponse: an update without time that applies a packet  *)
(* takes the mirror along with the views, or finds that it lacks a block.  *)
Replayed(r, sup, count, w) ==
  IF r.fault = "none" THEN Holds(r, sup, count, w) ELSE count < Len(sup)

LEMMA Replays ==
  ASSUME NEW b, NEW sup \in Seq(Shapes), NEW count \in 0 .. Len(sup), NEW v, NEW p, NEW w, NEW r,
         Holds(b, sup, count, v), IsView(v, sup), b.fault = "none", Follows(v, p, w, sup),
         r = Update(b, p, FALSE), ~Stale(r)
  PROVE  Replayed(r, sup, count, w)
<1>1. IsBoard(b) /\ b.playing = TRUE /\ v.taken \in 0 .. Len(sup)
  BY DEF Holds, Queue, IsView
<1>2. PICK ready, fresh, applied, fallen : Runs(b, p, FALSE, r, ready, fresh, applied, fallen)
  BY <1>1, UpdateIs
<1>3. applied = ApplyInputs(fresh, p) /\ Floats(applied, fallen)
  BY <1>2 DEF Runs, Floats, UpdateFallingBlock
<1>4. applied.fault # "none" => r.fault # "none"
  BY <1>2 DEF Runs
<1>5. /\ Holds(fresh, sup, count, v) /\ (fresh.falling = None => fresh.next = <<>>)
      /\ fresh.fault = "none" /\ fresh.marks = {} /\ fresh.apply = <<>>
      /\ IsBoard(fresh) /\ fresh.playing = TRUE
  BY <1>1, <1>2, StartHolds
<1>6. v.falling = None => v.taken < Len(sup)
  BY DEF Follows
<1>7. PICK u : u = Ready(v, sup)
  OBVIOUS
<1>8. fresh.falling # None =>
        Exactly(fresh, sup, count, u) /\ IsMid(u) /\ u.taken \in 0 .. Len(sup)
  <2>1. fresh.falling # None => Exactly(fresh, sup, count, u)
    BY <1>1, <1>5, <1>7, InPlayExactly
  <2>2. Len(sup) \in Nat
    OBVIOUS
  <2>3. IsMid(u) /\ u.taken \in 0 .. Len(sup)
    BY <1>6, <1>7, <2>2, ReadyIs
  <2> QED
    BY <2>1, <2>3
<1>9. fresh.falling = None => count < Len(sup)
  BY <1>1, <1>5, <1>6, InPlayExactly
<1>10. ASSUME NEW i, p = <<i>>, Safe(u, i), w = Removed(AfterInput(u, i))
       PROVE  Replayed(r, sup, count, w)
  <2>1. applied = ApplyInput(fresh, i)
    <3>1. ApplyInputs(fresh, <<i>>) = ApplyInput(fresh, i)
      BY ApplyRun
    <3> QED
      BY <1>3, <1>10, <3>1
  <2>2. CASE fresh.falling = None
    <3>1. applied.fault = "null"
      BY <1>5, <2>1, <2>2, InputNull
    <3> QED
      BY <1>4, <1>9, <2>2, <3>1 DEF Replayed
  <2>3. CASE fresh.falling # None
    <3>1. Shows(fresh, u) /\ u.canHold \in BOOLEAN
      BY <1>8, <2>3 DEF Exactly, IsMid
    <3>2. IsBoard(applied)
      <4>1. InputDone(fresh, applied, u, i)
        BY <1>5, <2>1, <2>3, <3>1, InputIs
      <4> QED
        BY <4>1 DEF InputDone
    <3>3. ~Stale(applied)
      <4>1. SameMarks(r, applied)
        BY <1>2, <1>3, <3>2, FinishMarks
      <4> QED
        BY <4>1 DEF Stale, SameMarks
    <3>4. PICK n : n = AfterInput(u, i)
      OBVIOUS
    <3>5. applied.fault = "none" /\ Holds(applied, sup, count, n) /\ n.taken = u.taken
      <4>1. Carried(fresh, applied, sup, count, u, i, n)
        BY <1>5, <1>8, <2>1, <2>3, <3>3, <3>4, InputHolds
      <4> QED
        BY <1>10, <4>1 DEF Carried
    <3>6. Finished(r, applied, sup, count, n)
      BY <1>2, <1>3, <1>8, <2>3, <3>5, FinishHolds
    <3> QED
      BY <1>10, <3>4, <3>6 DEF Finished, Replayed
  <2> QED
    BY <2>2, <2>3
<1>11. ASSUME NEW i, NEW j, NEW m, p = <<i, j>>, Safe(u, i), m = AfterInput(u, i), m.falling # None,
              Safe(m, j), w = Removed(AfterInput(m, j))
       PROVE  Replayed(r, sup, count, w)
  <2>1. PICK a : a = ApplyInput(fresh, i)
    OBVIOUS
  <2>2. applied = ApplyInput(a, j)
    <3>1. ApplyInputs(fresh, <<i, j>>) = ApplyInput(a, j)
      BY <2>1, ApplyRun
    <3> QED
      BY <1>3, <1>11, <3>1
  <2>3. CASE fresh.falling = None
    <3>1. a.fault = "null"
      BY <1>5, <2>1, <2>3, InputNull
    <3>2. applied = a
      BY <2>2, <3>1 DEF ApplyInput
    <3> QED
      BY <1>4, <1>9, <2>3, <3>1, <3>2 DEF Replayed
  <2>4. CASE fresh.falling # None
    <3>1. Shows(fresh, u) /\ u.canHold \in BOOLEAN
      BY <1>8, <2>4 DEF Exactly, IsMid
    <3>2. i # "DROP"
      BY <1>11 DEF AfterInput, View
    <3>3. IsBoard(a) /\ a.marks = {}
      BY <1>5, <2>1, <2>4, <3>1, <3>2, InputMarks
    <3>4. ~Stale(a)
      BY <3>3 DEF Stale
    <3>5. a.fault = "none" /\ Exactly(a, sup, count, m) /\ IsMid(m) /\ m.taken = u.taken
      <4>1. Carried(fresh, a, sup, count, u, i, m)
        BY <1>5, <1>8, <1>11, <2>1, <2>4, <3>4, InputHolds
      <4> QED
        BY <1>11, <4>1 DEF Carried
    <3>6. Shows(a, m) /\ m.canHold \in BOOLEAN /\ a.falling # None
      BY <1>11, <3>5 DEF Exactly, IsMid, Shows
    <3>7. IsBoard(applied)
      <4>1. InputDone(a, applied, m, j)
        BY <2>2, <3>3, <3>5, <3>6, InputIs
      <4> QED
        BY <4>1 DEF InputDone
    <3>8. ~Stale(applied)
      <4>1. SameMarks(r, applied)
        BY <1>2, <1>3, <3>7, FinishMarks
      <4> QED
        BY <4>1 DEF Stale, SameMarks
    <3>9. PICK n : n = AfterInput(m, j)
      OBVIOUS
    <3>10. applied.fault = "none" /\ Holds(applied, sup, count, n) /\ n.taken = m.taken
      <4>1. Carried(a, applied, sup, count, m, j, n)
        BY <2>2, <3>5, <3>6, <3>8, <3>9, InputHolds
      <4> QED
        BY <1>11, <4>1 DEF Carried
    <3>11. n.taken \in 0 .. Len(sup)
      BY <1>8, <2>4, <3>5, <3>10
    <3>12. Finished(r, applied, sup, count, n)
      BY <1>2, <1>3, <3>10, <3>11, FinishHolds
    <3> QED
      BY <1>11, <3>9, <3>12 DEF Finished, Replayed
  <2> QED
    BY <2>3, <2>4
<1> QED
  BY <1>7, <1>10, <1>11 DEF Follows

-----------------------------------------------------------------------------
(* Gravity moves the block along with the view. *)
Fallen(b, r, sup, count, v, input, n) ==
  /\ r.apply = Append(b.apply, input) /\ Safe(v, input)
  /\ n = AfterInput(v, input) /\ IsMid(n) /\ n.taken = v.taken
  /\ Holds(r, sup, count, n)

LEMMA FallHolds ==
  ASSUME NEW b, NEW sup, NEW count, NEW v, NEW r,
         Exactly(b, sup, count, v), IsMid(v), b.fault = "none", b.falling # None,
         r = Fall(b), ~Stale(r), r.fault = "none"
  PROVE  \E input, n : Fallen(b, r, sup, count, v, input, n)
<1>1. IsBoard(b) /\ b.playing = TRUE /\ Shows(b, v) /\ Queue(b, sup, count)
  BY DEF Exactly, Queue
<1>2. PICK input \in {"DOWN", "DROP"} : FallDone(b, r, v, input)
  BY <1>1, FallIs
<1>3. PICK n : n = AfterInput(v, input)
  OBVIOUS
<1>4. /\ IsBoard(r) /\ r.apply = Append(b.apply, input) /\ r.playing = b.playing
      /\ r.next = b.next /\ Safe(v, input) /\ Shows(r, n)
  BY <1>2, <1>3 DEF FallDone
<1>5. IsMid(n) /\ n.taken = v.taken
  BY <1>3, <1>4, AfterIs
<1>6. Queue(r, sup, count) /\ Taken(r, count) = n.taken
  BY <1>1, <1>4, <1>5 DEF Queue, Taken, Exactly
<1>7. Holds(r, sup, count, n)
  BY <1>4, <1>6 DEF Holds, Shows
<1>8. Fallen(b, r, sup, count, v, input, n)
  BY <1>3, <1>4, <1>5, <1>7 DEF Fallen
<1> QED
  BY <1>8

LEMMA FallMarks ==
  ASSUME NEW b, NEW r, IsBoard(b), b.fault = "none", b.falling # None, r = Fall(b)
  PROVE  IsBoard(r) /\ b.marks \subseteq r.marks
<1>1. Shows(b, b)
  BY DEF Shows
<1>2. PICK input \in {"DOWN", "DROP"} : FallDone(b, r, b, input)
  BY <1>1, FallIs
<1> QED
  BY <1>2 DEF FallDone

(* UpdateFallingBlock: gravity spares a block that has just been set up. *)
Sinks(applied, fallen) ==
  applied.falling # None /\ applied.wait # TRUE /\ fallen = Fall(applied)

LEMMA FloatsOrSinks ==
  ASSUME NEW applied, NEW fallen, NEW tick, IsBoard(applied),
         fallen = UpdateFallingBlock(applied, tick)
  PROVE  Floats(applied, fallen) \/ Sinks(applied, fallen)
<1>1. PICK ready : ready = IF applied.falling = None THEN NextFallingBlock(applied) ELSE applied
  OBVIOUS
<1>2. fallen = IF tick /\ ~ready.wait /\ ready.falling # None THEN Fall(ready) ELSE ready
  BY <1>1 DEF UpdateFallingBlock
<1>3. CASE applied.falling = None
  <2>1. Replaced(applied, ready)
    BY <1>1, <1>3, NextIs
  <2>2. ready.wait = TRUE \/ ready.falling = None
    BY <1>3, <2>1 DEF Replaced
  <2>3. fallen = ready
    BY <1>2, <2>2
  <2> QED
    BY <1>1, <2>3 DEF Floats
<1>4. CASE applied.falling # None
  <2>1. ready = applied
    BY <1>1, <1>4
  <2> QED
    BY <1>2, <1>4, <2>1 DEF Floats, Sinks
<1> QED
  BY <1>3, <1>4

(* The packets of a frame: a key, a gravity step, or one after the other. *)
LEMMA FollowsOne ==
  ASSUME NEW v, NEW sup, NEW i, NEW u, NEW n, NEW p, NEW w, u = Ready(v, sup),
         v.falling = None => v.taken < Len(sup),
         Safe(u, i), n = AfterInput(u, i), p = <<i>>, w = Removed(n)
  PROVE  Follows(v, p, w, sup)
  BY DEF Follows

LEMMA FollowsTwo ==
  ASSUME NEW v, NEW sup, NEW i, NEW j, NEW u, NEW m, NEW n, NEW p, NEW w, u = Ready(v, sup),
         v.falling = None => v.taken < Len(sup),
         Safe(u, i), m = AfterInput(u, i), m.falling # None,
         Safe(m, j), n = AfterInput(m, j), p = <<i, j>>, w = Removed(n)
  PROVE  Follows(v, p, w, sup)
  BY DEF Follows

LEMMA AppendTwo ==
  ASSUME NEW i, NEW j PROVE Append(<<i>>, j) = <<i, j>>
<1>1. PICK S, p, q : S = {i, j} /\ p = Append(<<i>>, j) /\ q = <<i, j>>
  OBVIOUS
<1>2. <<i>> \in Seq(S) /\ j \in S /\ Len(<<i>>) = 1 /\ <<i>>[1] = i
  BY <1>1
<1>3. p \in Seq(S) /\ Len(p) = 2 /\ p[1] = i /\ p[2] = j
  BY <1>1, <1>2
<1>4. q \in Seq(S) /\ Len(q) = 2 /\ q[1] = i /\ q[2] = j
  BY <1>1
<1>5. p = [n \in 1 .. 2 |-> p[n]] /\ q = [n \in 1 .. 2 |-> q[n]]
  BY <1>3, <1>4
<1>6. \A n \in 1 .. 2 : p[n] = q[n]
  BY <1>3, <1>4
<1>7. p = q
  BY <1>5, <1>6
<1> QED
  BY <1>1, <1>7

(* InGameScene::Update: a frame of the player's own board either applies   *)
(* nothing and leaves it where it was, or sends a packet that leads on.    *)
Played(r, sup, count, v) ==
  \/ r.apply = <<>> /\ Holds(r, sup, count, v)
  \/ \E w : IsView(w, sup) /\ Follows(v, r.apply, w, sup) /\ Holds(r, sup, count, w)

LEMMA Plays ==
  ASSUME NEW b, NEW sup \in Seq(Shapes), NEW count \in 0 .. Len(sup), NEW v,
         NEW inputs \in GetInput, NEW tick, NEW r,
         Holds(b, sup, count, v), IsView(v, sup), b.fault = "none",
         r = Update(b, inputs, tick), r.fault = "none", ~Stale(r)
  PROVE  Played(r, sup, count, v)
<1>1. IsBoard(b) /\ b.playing = TRUE /\ v.taken \in 0 .. Len(sup) /\ Len(sup) \in Nat
  BY DEF Holds, Queue, IsView
<1>2. PICK ready, fresh, applied, fallen : Runs(b, inputs, tick, r, ready, fresh, applied, fallen)
  BY <1>1, UpdateIs
<1>3. /\ applied = ApplyInputs(fresh, inputs) /\ fallen = UpdateFallingBlock(applied, tick)
      /\ applied.fault = "none" /\ fallen.fault = "none" /\ (IsBoard(fallen) => Ended(fallen, r))
  BY <1>2 DEF Runs
<1>4. /\ Holds(fresh, sup, count, v) /\ (fresh.falling = None => fresh.next = <<>>)
      /\ fresh.fault = "none" /\ fresh.marks = {} /\ fresh.apply = <<>>
      /\ IsBoard(fresh) /\ fresh.playing = TRUE
  BY <1>1, <1>2, StartHolds
<1>5. PICK u : u = Ready(v, sup)
  OBVIOUS
<1>6. ASSUME fresh.falling # None
      PROVE  /\ Exactly(fresh, sup, count, u) /\ IsMid(u) /\ u.taken \in 0 .. Len(sup)
             /\ v.falling = None => v.taken < Len(sup)
  <2>1. Exactly(fresh, sup, count, u) /\ (v.falling = None => v.taken < Len(sup))
    BY <1>1, <1>4, <1>5, <1>6, InPlayExactly
  <2>2. IsMid(u) /\ u.taken \in 0 .. Len(sup)
    BY <1>1, <1>5, <2>1, ReadyIs
  <2> QED
    BY <2>1, <2>2
<1>7. ASSUME NEW n, NEW w, w = Removed(n), IsMid(n), n.taken \in 0 .. Len(sup)
      PROVE  IsView(w, sup)
  BY <1>7, RemovedIs
(* What gravity does, when it acts, to a board that is exactly at m. *)
<1>8. ASSUME NEW m, Sinks(applied, fallen), Exactly(applied, sup, count, m), IsMid(m)
      PROVE  \E j, n : /\ Safe(m, j) /\ n = AfterInput(m, j) /\ IsMid(n) /\ n.taken = m.taken
                       /\ r.apply = Append(applied.apply, j) /\ Holds(r, sup, count, Removed(n))
  <2>1. fallen = Fall(applied) /\ applied.falling # None /\ IsBoard(applied)
    BY <1>8 DEF Sinks, Exactly, Queue
  <2>2. IsBoard(fallen)
    BY <1>3, <2>1, FallMarks
  <2>3. Ended(fallen, r)
    BY <1>3, <2>2
  <2>4. ~Stale(fallen)
    BY <2>3 DEF Ended, Stale
  <2>5. PICK j, n : Fallen(applied, fallen, sup, count, m, j, n)
    BY <1>3, <1>8, <2>1, <2>4, FallHolds
  <2>6. /\ Safe(m, j) /\ n = AfterInput(m, j) /\ IsMid(n) /\ n.taken = m.taken
        /\ fallen.apply = Append(applied.apply, j) /\ Holds(fallen, sup, count, n)
    BY <2>5 DEF Fallen
  <2>7. Holds(r, sup, count, Removed(n))
    BY <2>3, <2>6, EndedHolds
  <2>8. r.apply = fallen.apply
    BY <2>3 DEF Ended
  <2> QED
    BY <2>6, <2>7, <2>8
<1>9. CASE inputs = <<>>
  <2>1. applied = fresh
    <3>1. ApplyInputs(fresh, <<>>) = fresh
      BY ApplyRun
    <3> QED
      BY <1>3, <1>9, <3>1
  <2>2. CASE Floats(applied, fallen)
    <3>1. Holds(applied, sup, count, v)
      BY <1>4, <2>1
    <3>2. Finished(r, applied, sup, count, v)
      BY <1>1, <1>2, <1>3, <2>2, <3>1, FinishHolds
    <3>3. Removed(v) = v
      BY RemovedIdle
    <3> QED
      BY <1>4, <2>1, <3>2, <3>3 DEF Finished, Played
  <2>3. CASE Sinks(applied, fallen)
    <3>1. fresh.falling # None
      BY <2>1, <2>3 DEF Sinks
    <3>2. PICK j, n : /\ Safe(u, j) /\ n = AfterInput(u, j) /\ IsMid(n) /\ n.taken = u.taken
                      /\ r.apply = Append(applied.apply, j) /\ Holds(r, sup, count, Removed(n))
      BY <1>6, <1>8, <2>1, <2>3, <3>1
    <3>3. PICK w, p : w = Removed(n) /\ p = r.apply
      OBVIOUS
    <3>4. p = <<j>>
      BY <1>4, <2>1, <3>2, <3>3
    <3>5. Follows(v, p, w, sup)
      BY <1>5, <1>6, <3>1, <3>2, <3>3, <3>4, FollowsOne
    <3>6. IsView(w, sup)
      BY <1>6, <1>7, <3>1, <3>2, <3>3
    <3> QED
      BY <3>2, <3>3, <3>5, <3>6 DEF Played
  <2> QED
    BY <1>3, <1>4, <2>1, <2>2, <2>3, FloatsOrSinks
<1>10. ASSUME NEW i, inputs = <<i>> PROVE Played(r, sup, count, v)
  <2>1. applied = ApplyInput(fresh, i)
    <3>1. ApplyInputs(fresh, <<i>>) = ApplyInput(fresh, i)
      BY ApplyRun
    <3> QED
      BY <1>3, <1>10, <3>1
  <2>2. fresh.falling # None
    <3>1. fresh.falling = None => applied.fault = "null"
      BY <1>4, <2>1, InputNull
    <3> QED
      BY <1>3, <3>1
  <2>3. Shows(fresh, u) /\ u.canHold \in BOOLEAN
    BY <1>6, <2>2 DEF Exactly, IsMid
  <2>4. IsBoard(applied)
    <3>1. InputDone(fresh, applied, u, i)
      BY <1>4, <2>1, <2>2, <2>3, InputIs
    <3> QED
      BY <3>1 DEF InputDone
  <2>5. Floats(applied, fallen) \/ Sinks(applied, fallen)
    BY <1>3, <2>4, FloatsOrSinks
  <2>6. ~Stale(applied)
    <3>1. CASE Floats(applied, fallen)
      <4>1. SameMarks(r, applied)
        BY <1>2, <2>4, <3>1, FinishMarks
      <4> QED
        BY <4>1 DEF SameMarks, Stale
    <3>2. CASE Sinks(applied, fallen)
      <4>1. applied.falling # None /\ fallen = Fall(applied)
        BY <3>2 DEF Sinks
      <4>2. IsBoard(fallen) /\ applied.marks \subseteq fallen.marks
        BY <1>3, <2>4, <4>1, FallMarks
      <4>3. r.marks = fallen.marks
        BY <1>3, <4>2 DEF Ended
      <4> QED
        BY <4>2, <4>3 DEF Stale
    <3> QED
      BY <2>5, <3>1, <3>2
  <2>7. PICK m : m = AfterInput(u, i)
    OBVIOUS
  <2>8. Carried(fresh, applied, sup, count, u, i, m)
    BY <1>4, <1>6, <2>1, <2>2, <2>6, <2>7, InputHolds
  <2>9. /\ applied.apply = Append(fresh.apply, i) /\ Safe(u, i) /\ Leads(fresh, applied, m)
        /\ IsMid(m) /\ m.taken = u.taken /\ Holds(applied, sup, count, m)
        /\ m.falling # None => Exactly(applied, sup, count, m)
    BY <1>3, <2>8 DEF Carried
  <2>10. applied.apply = <<i>> /\ m.taken \in 0 .. Len(sup)
    BY <1>4, <1>6, <2>2, <2>9
  <2>11. CASE Floats(applied, fallen)
    <3>1. Finished(r, applied, sup, count, m)
      BY <1>2, <1>3, <2>9, <2>10, <2>11, FinishHolds
    <3>2. PICK w, p : w = Removed(m) /\ p = r.apply
      OBVIOUS
    <3>3. p = <<i>> /\ Holds(r, sup, count, w)
      BY <2>10, <3>1, <3>2 DEF Finished
    <3>4. Follows(v, p, w, sup)
      BY <1>5, <1>6, <2>2, <2>7, <2>9, <3>2, <3>3, FollowsOne
    <3>5. IsView(w, sup)
      BY <1>7, <2>9, <2>10, <3>2
    <3> QED
      BY <3>2, <3>3, <3>4, <3>5 DEF Played
  <2>12. CASE Sinks(applied, fallen)
    <3>1. m.falling # None
      BY <2>9, <2>12 DEF Leads, Sinks
    <3>2. PICK j, n : /\ Safe(m, j) /\ n = AfterInput(m, j) /\ IsMid(n) /\ n.taken = m.taken
                      /\ r.apply = Append(applied.apply, j) /\ Holds(r, sup, count, Removed(n))
      BY <1>8, <2>9, <2>12, <3>1
    <3>3. PICK w, p : w = Removed(n) /\ p = r.apply
      OBVIOUS
    <3>4. p = <<i, j>>
      BY <2>10, <3>2, <3>3, AppendTwo
    <3>5. Follows(v, p, w, sup)
      BY <1>5, <1>6, <2>2, <2>7, <2>9, <3>1, <3>2, <3>3, <3>4, FollowsTwo
    <3>6. IsView(w, sup)
      BY <1>7, <2>10, <3>2, <3>3
    <3> QED
      BY <3>2, <3>3, <3>5, <3>6 DEF Played
  <2> QED
    BY <2>5, <2>11, <2>12
<1> QED
  BY <1>9, <1>10 DEF GetInput

(* The response to the opponent's own input: nothing is applied. *)
LEMMA Idles ==
  ASSUME NEW b, NEW sup \in Seq(Shapes), NEW count \in 0 .. Len(sup), NEW v, NEW r,
         Holds(b, sup, count, v), IsView(v, sup), b.fault = "none", r = Update(b, <<>>, FALSE)
  PROVE  r.fault = "none" /\ Holds(r, sup, count, v)
<1>1. IsBoard(b) /\ b.playing = TRUE /\ v.taken \in 0 .. Len(sup)
  BY DEF Holds, Queue, IsView
<1>2. PICK ready, fresh, applied, fallen : Runs(b, <<>>, FALSE, r, ready, fresh, applied, fallen)
  BY <1>1, UpdateIs
<1>3. applied = ApplyInputs(fresh, <<>>) /\ Floats(applied, fallen)
  BY <1>2 DEF Runs, Floats, UpdateFallingBlock
<1>4. /\ Holds(fresh, sup, count, v) /\ (fresh.falling = None => fresh.next = <<>>)
      /\ fresh.fault = "none" /\ fresh.marks = {} /\ fresh.apply = <<>>
      /\ IsBoard(fresh) /\ fresh.playing = TRUE
  BY <1>1, <1>2, StartHolds
<1>5. applied = fresh
  BY <1>3, ApplyRun
<1>6. applied.fault = "none" /\ Holds(applied, sup, count, v)
  BY <1>4, <1>5
<1>7. Finished(r, applied, sup, count, v)
  BY <1>1, <1>2, <1>3, <1>6, FinishHolds
<1>8. Removed(v) = v
  BY RemovedIdle
<1> QED
  BY <1>7, <1>8 DEF Finished

-----------------------------------------------------------------------------
(* The room makes another block: nothing that was said of the first ones   *)
(* changes.                                                                *)
LEMMA Grown ==
  ASSUME NEW sup \in Seq(Shapes), NEW s \in Shapes, NEW big, big = Append(sup, s)
  PROVE  /\ big \in Seq(Shapes) /\ Len(sup) \in Nat /\ Len(big) = Len(sup) + 1
         /\ \A i \in 1 .. Len(sup) : big[i] = sup[i]
         /\ big[Len(sup) + 1] = s
  OBVIOUS

LEMMA ViewGrows ==
  ASSUME NEW v, NEW sup \in Seq(Shapes), NEW s \in Shapes, NEW big, big = Append(sup, s),
         IsView(v, sup)
  PROVE  IsView(v, big)
<1>1. Len(sup) \in Nat /\ Len(big) = Len(sup) + 1
  BY Grown
<1>2. v.taken \in 0 .. Len(sup)
  BY DEF IsView
<1>3. v.taken \in 0 .. Len(big)
  BY <1>1, <1>2
<1> QED
  BY <1>3 DEF IsView

LEMMA FollowsGrows ==
  ASSUME NEW v, NEW sup \in Seq(Shapes), NEW s \in Shapes, NEW big, big = Append(sup, s),
         NEW p, NEW w, IsView(v, sup), Follows(v, p, w, sup)
  PROVE  Follows(v, p, w, big)
<1>1. Len(sup) \in Nat /\ Len(big) = Len(sup) + 1 /\ \A i \in 1 .. Len(sup) : big[i] = sup[i]
  BY Grown
<1>2. v.taken \in 0 .. Len(sup) /\ (v.falling = None => v.taken < Len(sup))
  BY DEF IsView, Follows
<1>3. v.falling = None => v.taken + 1 \in 1 .. Len(sup) /\ v.taken < Len(big)
  BY <1>1, <1>2
<1>4. Ready(v, big) = Ready(v, sup)
  BY <1>1, <1>3 DEF Ready
<1> QED
  BY <1>3, <1>4 DEF Follows

LEMMA HoldsGrows ==
  ASSUME NEW b, NEW v, NEW sup \in Seq(Shapes), NEW count \in 0 .. Len(sup),
         NEW s \in Shapes, NEW big, big = Append(sup, s),
         IsView(v, sup), Holds(b, sup, count, v)
  PROVE  Holds(b, big, count, v)
<1>1. Len(sup) \in Nat /\ \A i \in 1 .. Len(sup) : big[i] = sup[i]
  BY Grown
<1>2. v.taken \in 0 .. Len(sup)
  BY DEF IsView
<1>3. PICK l \in Nat : l = Len(b.next) /\ l <= count
  BY DEF Holds, Queue
<1>4. PICK t \in Nat : t = count - l
  <2>1. count \in Nat
    OBVIOUS
  <2>2. count - l \in Nat
    BY <1>3, <2>1
  <2> QED
    BY <2>2
<1>5. t = Taken(b, count)
  BY <1>3, <1>4 DEF Taken
<1>6. ASSUME NEW i \in 1 .. l PROVE b.next[i] = big[t + i]
  <2>1. b.next[i] = sup[t + i]
    BY <1>3, <1>5 DEF Holds, Queue
  <2>2. t + i \in 1 .. Len(sup)
    BY <1>1, <1>3, <1>4
  <2> QED
    BY <1>1, <2>1, <2>2
<1>7. Queue(b, big, count)
  BY <1>3, <1>5, <1>6 DEF Holds, Queue
<1>8. t + 1 = v.taken => big[v.taken] = sup[v.taken]
  <2>1. t + 1 = v.taken => v.taken \in 1 .. Len(sup)
    BY <1>1, <1>2
  <2> QED
    BY <1>1, <2>1
<1>9. v.taken + 1 = t => big[t] = sup[t]
  <2>1. v.taken + 1 = t => t \in 1 .. Len(sup)
    BY <1>1, <1>2, <1>3, <1>4
  <2> QED
    BY <1>1, <2>1
<1> QED
  BY <1>5, <1>7, <1>8, <1>9 DEF Holds

(* AddFallingBlock: a board queues the next block of the room. *)
Queued(b, r, s, sup, count, v) ==
  r.fault = b.fault /\ r.next = Append(b.next, s) /\ Holds(r, sup, count + 1, v)

LEMMA QueuedHolds ==
  ASSUME NEW b, NEW v, NEW sup \in Seq(Shapes), NEW count \in 0 .. Len(sup), NEW s \in Shapes,
         count < Len(sup), s = sup[count + 1], NEW r, r = QueueNextBlock(b, s),
         Holds(b, sup, count, v)
  PROVE  Queued(b, r, s, sup, count, v)
<1>1. Queue(b, sup, count) /\ IsBoard(b) /\ b.next \in Seq(Shapes)
  BY DEF Holds, Queue
<1>2. PICK q : q = Append(b.next, s)
  OBVIOUS
<1>3. r = [b EXCEPT !.next = q]
  BY <1>2 DEF QueueNextBlock
<1>4. /\ IsBoard(r) /\ r.next = q /\ r.playing = b.playing /\ r.wall = b.wall
      /\ r.hold = b.hold /\ r.canHold = b.canHold /\ r.falling = b.falling /\ r.fault = b.fault
  BY <1>1, <1>3 DEF IsBoard, Fields
<1>5. PICK l \in Nat : l = Len(b.next) /\ l <= count
  BY <1>1 DEF Queue
<1>6. q \in Seq(Shapes) /\ Len(q) = l + 1 /\ q[l + 1] = s /\ \A i \in 1 .. l : q[i] = b.next[i]
  BY <1>1, <1>2, <1>5
<1>7. count \in Nat
  OBVIOUS
<1>8. PICK t \in Nat : t = count - l
  <2>1. count - l \in Nat
    BY <1>5, <1>7
  <2> QED
    BY <2>1
<1>9. t = (count + 1) - (l + 1)
  BY <1>5, <1>7, <1>8
<1>10. Taken(b, count) = t /\ Taken(r, count + 1) = t
  BY <1>4, <1>5, <1>6, <1>8, <1>9 DEF Taken
<1>11. ASSUME NEW i \in 1 .. l + 1 PROVE q[i] = sup[t + i]
  <2>1. CASE i = l + 1
    <3>1. t = count - l /\ i = l + 1
      BY <1>8, <2>1
    <3>2. t + i = count + 1
      BY <1>7, <3>1
    <3> QED
      BY <1>6, <2>1, <3>2
  <2>2. CASE i # l + 1
    <3>1. i \in 1 .. l
      BY <1>5, <2>2
    <3> QED
      BY <1>1, <1>5, <1>6, <1>10, <3>1 DEF Queue
  <2> QED
    BY <2>1, <2>2
<1>12. Queue(r, sup, count + 1)
  <2>1. Len(q) <= count + 1
    BY <1>5, <1>6, <1>7
  <2> QED
    BY <1>1, <1>4, <1>6, <1>10, <1>11, <2>1 DEF Queue
<1>13. Holds(r, sup, count + 1, v)
  BY <1>4, <1>10, <1>12 DEF Holds
<1> QED
  BY <1>2, <1>4, <1>13 DEF Queued

-----------------------------------------------------------------------------
(* The packets under way lead from view to view: from where the mirror is  *)
(* to where the player's board is.                                         *)
Chain(c, pkts, sup) ==
  /\ \E S : pkts \in Seq(S)
  /\ \A n \in 0 .. Len(pkts) : IsView(c[n], sup)
  /\ \A n \in 1 .. Len(pkts) : Follows(c[n - 1], pkts[n], c[n], sup)

Joined(c, copy, board, pkts, sup, count) ==
  /\ Chain(c, pkts, sup)
  /\ Holds(copy, sup, count, c[0])
  /\ Holds(board, sup, Len(sup), c[Len(pkts)])

Linked == \E c : Joined(c, mirror, own, wire, supply, mirrored)

MirrorInv ==
  /\ supply \in Seq(Shapes) /\ mirrored \in 0 .. Len(supply) /\ stale \in BOOLEAN
  /\ stale = FALSE => /\ mirror.fault # "none" => mirrored < Len(supply)
                      /\ Together => Linked

LEMMA ChainEnds ==
  ASSUME NEW c, NEW pkts, NEW sup, Chain(c, pkts, sup)
  PROVE  /\ Len(pkts) \in Nat /\ IsView(c[0], sup) /\ IsView(c[Len(pkts)], sup)
         /\ pkts # <<>> => Follows(c[0], Head(pkts), c[1], sup)
<1>1. PICK S : pkts \in Seq(S)
  BY DEF Chain
<1>2. PICK l \in Nat : l = Len(pkts)
  BY <1>1
<1>3. 0 \in 0 .. l /\ l \in 0 .. l
  BY <1>2
<1>4. IsView(c[0], sup) /\ IsView(c[l], sup)
  BY <1>2, <1>3 DEF Chain
<1>5. ASSUME pkts # <<>> PROVE Follows(c[0], Head(pkts), c[1], sup)
  <2>1. 1 \in 1 .. l /\ Head(pkts) = pkts[1]
    BY <1>1, <1>2, <1>5
  <2>2. Follows(c[1 - 1], pkts[1], c[1], sup)
    BY <1>2, <2>1 DEF Chain
  <2> QED
    BY <2>1, <2>2
<1> QED
  BY <1>2, <1>4, <1>5

(* The player's board sends a packet: the chain has one view more. *)
Longer(d, c, w, more, sup) ==
  Chain(d, more, sup) /\ d[0] = c[0] /\ d[Len(more)] = w

LEMMA ChainAppend ==
  ASSUME NEW c, NEW pkts, NEW sup, NEW p, NEW w, NEW more, Chain(c, pkts, sup),
         more = Append(pkts, p), IsView(w, sup), Follows(c[Len(pkts)], p, w, sup)
  PROVE  \E d : Longer(d, c, w, more, sup)
<1>1. PICK S : pkts \in Seq(S)
  BY DEF Chain
<1>2. PICK l \in Nat : l = Len(pkts)
  BY <1>1
<1>3. PICK T : T = S \union {p}
  OBVIOUS
<1>4. pkts \in Seq(T) /\ p \in T
  BY <1>1, <1>3
<1>5. more \in Seq(T) /\ Len(more) = l + 1 /\ more[l + 1] = p /\ \A n \in 1 .. l : more[n] = pkts[n]
  BY <1>2, <1>4
<1>6. PICK d : d = [n \in 0 .. l + 1 |-> IF n = l + 1 THEN w ELSE c[n]]
  OBVIOUS
<1>7. d[l + 1] = w /\ \A n \in 0 .. l : d[n] = c[n]
  BY <1>6
<1>8. \A n \in 0 .. l + 1 : IsView(d[n], sup)
  <2>1. ASSUME NEW n \in 0 .. l + 1 PROVE n = l + 1 \/ n \in 0 .. l
    OBVIOUS
  <2>2. \A n \in 0 .. l : IsView(d[n], sup)
    BY <1>2, <1>7 DEF Chain
  <2> QED
    BY <1>7, <2>1, <2>2
<1>9. ASSUME NEW n \in 1 .. l + 1 PROVE Follows(d[n - 1], more[n], d[n], sup)
  <2>1. CASE n = l + 1
    <3>1. n - 1 = l /\ l \in 0 .. l
      BY <2>1
    <3>2. d[n - 1] = c[l] /\ more[n] = p /\ d[n] = w
      BY <1>5, <1>7, <2>1, <3>1
    <3> QED
      BY <1>2, <3>2
  <2>2. CASE n # l + 1
    <3>1. n \in 1 .. l /\ n \in 0 .. l /\ n - 1 \in 0 .. l
      BY <2>2
    <3>2. Follows(c[n - 1], pkts[n], c[n], sup)
      BY <1>2, <3>1 DEF Chain
    <3>3. d[n - 1] = c[n - 1] /\ more[n] = pkts[n] /\ d[n] = c[n]
      BY <1>5, <1>7, <3>1
    <3> QED
      BY <3>2, <3>3
  <2> QED
    BY <2>1, <2>2
<1>10. Chain(d, more, sup)
  BY <1>5, <1>8, <1>9 DEF Chain
<1>11. d[0] = c[0] /\ d[Len(more)] = w
  BY <1>5, <1>7
<1> QED
  BY <1>10, <1>11 DEF Longer

(* The mirror replays a packet: the first view is behind both. *)
Shorter(d, c, pkts, rest, sup) ==
  Chain(d, rest, sup) /\ d[0] = c[1] /\ d[Len(rest)] = c[Len(pkts)]

LEMMA ChainTail ==
  ASSUME NEW c, NEW pkts, NEW sup, NEW rest, Chain(c, pkts, sup), pkts # <<>>, rest = Tail(pkts)
  PROVE  \E d : Shorter(d, c, pkts, rest, sup)
<1>1. PICK S : pkts \in Seq(S)
  BY DEF Chain
<1>2. PICK l, m \in Nat : l = Len(pkts) /\ m = Len(rest) /\ m = l - 1
  BY <1>1
<1>3. rest \in Seq(S) /\ \A n \in 1 .. m : rest[n] = pkts[n + 1]
  BY <1>1, <1>2
<1>4. PICK d : d = [n \in 0 .. m |-> c[n + 1]]
  OBVIOUS
<1>5. \A n \in 0 .. m : d[n] = c[n + 1] /\ n + 1 \in 0 .. l
  BY <1>2, <1>4
<1>6. \A n \in 0 .. m : IsView(d[n], sup)
  BY <1>2, <1>5 DEF Chain
<1>7. ASSUME NEW n \in 1 .. m PROVE Follows(d[n - 1], rest[n], d[n], sup)
  <2>1. n + 1 \in 1 .. l /\ (n + 1) - 1 = n /\ (n - 1) + 1 = n /\ n \in 0 .. m /\ n - 1 \in 0 .. m
    BY <1>2
  <2>2. Follows(c[(n + 1) - 1], pkts[n + 1], c[n + 1], sup)
    BY <1>2, <2>1 DEF Chain
  <2>3. d[n - 1] = c[n] /\ d[n] = c[n + 1] /\ rest[n] = pkts[n + 1]
    BY <1>3, <1>5, <2>1
  <2> QED
    BY <2>1, <2>2, <2>3
<1>8. Chain(d, rest, sup)
  BY <1>2, <1>3, <1>6, <1>7 DEF Chain
<1>9. d[0] = c[1] /\ d[m] = c[l]
  <2>1. 0 \in 0 .. m /\ m \in 0 .. m /\ m + 1 = l /\ 0 + 1 = 1
    BY <1>2
  <2> QED
    BY <1>5, <2>1
<1> QED
  BY <1>2, <1>8, <1>9 DEF Shorter

LEMMA ChainGrows ==
  ASSUME NEW c, NEW pkts, NEW sup \in Seq(Shapes), NEW s \in Shapes, NEW big,
         big = Append(sup, s), Chain(c, pkts, sup)
  PROVE  Chain(c, pkts, big)
<1>1. PICK S : pkts \in Seq(S)
  BY DEF Chain
<1>2. PICK l \in Nat : l = Len(pkts)
  BY <1>1
<1>3. ASSUME NEW n \in 0 .. l PROVE IsView(c[n], sup) /\ IsView(c[n], big)
  <2>1. IsView(c[n], sup)
    BY <1>2 DEF Chain
  <2> QED
    BY <2>1, ViewGrows
<1>4. ASSUME NEW n \in 1 .. l PROVE Follows(c[n - 1], pkts[n], c[n], big)
  <2>1. n - 1 \in 0 .. l
    OBVIOUS
  <2>2. Follows(c[n - 1], pkts[n], c[n], sup) /\ IsView(c[n - 1], sup)
    BY <1>2, <1>3, <2>1 DEF Chain
  <2> QED
    BY <2>2, FollowsGrows
<1> QED
  BY <1>1, <1>2, <1>3, <1>4 DEF Chain

-----------------------------------------------------------------------------
(* Both boards begin at the same view. *)
LEMMA MirrorBegins == ASSUME MirrorInit PROVE MirrorInv
<1>1. PICK b, v, e : b = Start(NewBoard) /\ v = View({}, None, TRUE, None, 0) /\ e = <<>>
  OBVIOUS
<1>2. own = b /\ mirror = b /\ wire = e /\ supply = e /\ mirrored = 0 /\ stale = FALSE
  BY <1>1 DEF MirrorInit, Init
<1>3. /\ IsBoard(b) /\ b.playing = TRUE /\ b.next = e /\ b.hold = None /\ b.wall = {}
      /\ b.falling = None /\ b.canHold = TRUE /\ b.fault = "none"
  BY <1>1 DEF Start, NewBoard, IsBoard, Fields
<1>4. v.wall = {} /\ v.hold = None /\ v.canHold = TRUE /\ v.falling = None /\ v.taken = 0
  BY <1>1 DEF View
<1>5. e \in Seq(Shapes) /\ Len(e) = 0
  BY <1>1
<1>6. FullRows({}) = {}
  BY BoardAssumption DEF FullRows, IsFull
<1>7. IsView(v, e)
  <2>1. v = View(v.wall, v.hold, v.canHold, v.falling, v.taken)
    BY <1>1, <1>4
  <2>2. v.taken \in 0 .. Len(e)
    BY <1>4, <1>5
  <2> QED
    BY <1>4, <1>6, <2>1, <2>2 DEF IsView
<1>8. Taken(b, 0) = 0
  BY <1>3, <1>5 DEF Taken
<1>9. Queue(b, e, 0)
  <2>1. \A i \in 1 .. Len(b.next) : FALSE
    BY <1>3, <1>5
  <2>2. Len(b.next) <= 0
    BY <1>3, <1>5
  <2> QED
    BY <1>3, <1>5, <2>1, <2>2 DEF Queue
<1>10. Holds(b, e, 0, v)
  BY <1>3, <1>4, <1>8, <1>9 DEF Holds
<1>11. PICK c : c = [n \in 0 .. 0 |-> v]
  OBVIOUS
<1>12. c[0] = v
  BY <1>11
<1>13. Chain(c, e, e)
  <2>1. \A n \in 1 .. Len(e) : FALSE
    BY <1>5
  <2>2. \A n \in 0 .. Len(e) : n = 0
    BY <1>5
  <2> QED
    BY <1>5, <1>7, <1>12, <2>1, <2>2 DEF Chain
<1>14. Joined(c, b, b, e, e, 0)
  BY <1>5, <1>10, <1>12, <1>13 DEF Joined
<1>15. Linked
  BY <1>2, <1>14 DEF Linked
<1>16. mirrored \in 0 .. Len(supply)
  BY <1>2, <1>5
<1> QED
  BY <1>2, <1>3, <1>5, <1>15, <1>16 DEF MirrorInv

(* The five steps, on a chain that joins the boards. *)
Supplied(c, copy, board, next, pkts, big, count) ==
  next.fault = board.fault /\ Joined(c, copy, next, pkts, big, count)

LEMMA JoinedBlock ==
  ASSUME NEW c, NEW copy, NEW board, NEW pkts, NEW sup \in Seq(Shapes), NEW count \in 0 .. Len(sup),
         NEW s \in Shapes, NEW next, NEW big, big = Append(sup, s), next = QueueNextBlock(board, s),
         Joined(c, copy, board, pkts, sup, count)
  PROVE  Supplied(c, copy, board, next, pkts, big, count)
<1>1. /\ Chain(c, pkts, sup) /\ Holds(copy, sup, count, c[0])
      /\ Holds(board, sup, Len(sup), c[Len(pkts)])
  BY DEF Joined
<1>2. IsView(c[0], sup) /\ IsView(c[Len(pkts)], sup)
  BY <1>1, ChainEnds
<1>3. /\ big \in Seq(Shapes) /\ Len(sup) \in Nat /\ Len(big) = Len(sup) + 1
      /\ big[Len(sup) + 1] = s
  BY Grown
<1>4. Chain(c, pkts, big)
  BY <1>1, ChainGrows
<1>5. Holds(copy, big, count, c[0])
  BY <1>1, <1>2, HoldsGrows
<1>6. PICK l, v : l = Len(sup) /\ v = c[Len(pkts)]
  OBVIOUS
<1>7. l \in 0 .. Len(sup) /\ l \in 0 .. Len(big) /\ l < Len(big)
  BY <1>3, <1>6
<1>8. Holds(board, big, l, v)
  BY <1>1, <1>2, <1>6, <1>7, HoldsGrows
<1>9. s = big[l + 1]
  BY <1>3, <1>6
<1>10. Queued(board, next, s, big, l, v)
  BY <1>3, <1>7, <1>8, <1>9, QueuedHolds
<1>11. Joined(c, copy, next, pkts, big, count)
  BY <1>3, <1>4, <1>5, <1>6, <1>10 DEF Joined, Queued
<1>12. next.fault = board.fault
  BY <1>10 DEF Queued
<1> QED
  BY <1>11, <1>12 DEF Supplied

(* The block a board has queued is the last of its queue. *)
LEMMA LastQueued ==
  ASSUME NEW b, NEW s \in Shapes, IsBoard(b), b.next \in Seq(Shapes), NEW r, r = QueueNextBlock(b, s)
  PROVE  r.next[Len(r.next)] = s
<1>1. PICK q, p : q = b.next /\ p = Append(b.next, s)
  OBVIOUS
<1>2. r = [b EXCEPT !.next = p]
  BY <1>1 DEF QueueNextBlock
<1>3. r.next = p
  BY <1>2 DEF IsBoard, Fields
<1>4. Len(p) = Len(q) + 1 /\ p[Len(q) + 1] = s
  BY <1>1
<1> QED
  BY <1>3, <1>4

LEMMA JoinedFrame ==
  ASSUME NEW c, NEW copy, NEW board, NEW pkts, NEW sup \in Seq(Shapes), NEW count \in 0 .. Len(sup),
         NEW inputs \in GetInput, NEW tick, NEW next, NEW more,
         next = Update(board, inputs, tick), board.fault = "none", next.fault = "none", ~Stale(next),
         more = IF next.apply = <<>> THEN pkts ELSE Append(pkts, next.apply),
         Joined(c, copy, board, pkts, sup, count)
  PROVE  \E d : Joined(d, copy, next, more, sup, count)
<1>1. /\ Chain(c, pkts, sup) /\ Holds(copy, sup, count, c[0])
      /\ Holds(board, sup, Len(sup), c[Len(pkts)])
  BY DEF Joined
<1>2. PICK l, v : l = Len(sup) /\ v = c[Len(pkts)]
  OBVIOUS
<1>3. l \in 0 .. Len(sup)
  BY <1>2
<1>4. IsView(v, sup)
  BY <1>1, <1>2, ChainEnds
<1>5. Holds(board, sup, l, v)
  BY <1>1, <1>2
<1>6. Played(next, sup, l, v)
  BY <1>3, <1>4, <1>5, Plays
<1>7. CASE next.apply = <<>> /\ Holds(next, sup, l, v)
  <2>1. Joined(c, copy, next, more, sup, count)
    BY <1>1, <1>2, <1>7 DEF Joined
  <2> QED
    BY <2>1
<1>8. ASSUME NEW w, IsView(w, sup), Follows(v, next.apply, w, sup), Holds(next, sup, l, w)
      PROVE  \E d : Joined(d, copy, next, more, sup, count)
  <2>1. PICK p : p = next.apply
    OBVIOUS
  <2>2. p # <<>>
    <3>1. \A i, j : <<i>> # <<>> /\ <<i, j>> # <<>>
      OBVIOUS
    <3> QED
      BY <1>8, <2>1, <3>1 DEF Follows
  <2>3. more = Append(pkts, p) /\ Follows(c[Len(pkts)], p, w, sup)
    BY <1>2, <1>8, <2>1, <2>2
  <2>4. PICK d : Longer(d, c, w, more, sup)
    BY <1>1, <1>8, <2>3, ChainAppend
  <2>5. Joined(d, copy, next, more, sup, count)
    BY <1>1, <1>2, <1>8, <2>4 DEF Joined, Longer
  <2> QED
    BY <2>5
<1> QED
  BY <1>6, <1>7, <1>8 DEF Played

Received(next, board, rest, sup, count) ==
  IF next.fault = "none" THEN \E d : Joined(d, next, board, rest, sup, count)
  ELSE count < Len(sup)

LEMMA JoinedInput ==
  ASSUME NEW c, NEW copy, NEW board, NEW pkts, NEW sup \in Seq(Shapes), NEW count \in 0 .. Len(sup),
         NEW next, NEW rest, pkts # <<>>, rest = Tail(pkts), next = Update(copy, Head(pkts), FALSE),
         copy.fault = "none", ~Stale(next), Joined(c, copy, board, pkts, sup, count)
  PROVE  Received(next, board, rest, sup, count)
<1>1. /\ Chain(c, pkts, sup) /\ Holds(copy, sup, count, c[0])
      /\ Holds(board, sup, Len(sup), c[Len(pkts)])
  BY DEF Joined
<1>2. PICK v, w, p : v = c[0] /\ w = c[1] /\ p = Head(pkts)
  OBVIOUS
<1>3. IsView(v, sup) /\ Follows(v, p, w, sup)
  BY <1>1, <1>2, ChainEnds
<1>4. Replayed(next, sup, count, w)
  <2>1. next = Update(copy, p, FALSE) /\ Holds(copy, sup, count, v)
    BY <1>1, <1>2
  <2> QED
    BY <1>3, <2>1, Replays
<1>5. ASSUME next.fault = "none" PROVE \E d : Joined(d, next, board, rest, sup, count)
  <2>1. PICK d : Shorter(d, c, pkts, rest, sup)
    BY <1>1, ChainTail
  <2>2. Joined(d, next, board, rest, sup, count)
    BY <1>1, <1>2, <1>4, <1>5, <2>1 DEF Joined, Replayed, Shorter
  <2> QED
    BY <2>2
<1> QED
  BY <1>4, <1>5 DEF Replayed, Received

Idled(c, next, board, pkts, sup, count) ==
  next.fault = "none" /\ Joined(c, next, board, pkts, sup, count)

LEMMA JoinedIdle ==
  ASSUME NEW c, NEW copy, NEW board, NEW pkts, NEW sup \in Seq(Shapes), NEW count \in 0 .. Len(sup),
         NEW next, next = Update(copy, <<>>, FALSE), copy.fault = "none",
         Joined(c, copy, board, pkts, sup, count)
  PROVE  Idled(c, next, board, pkts, sup, count)
<1>1. Chain(c, pkts, sup) /\ Holds(copy, sup, count, c[0])
  BY DEF Joined
<1>2. PICK v : v = c[0]
  OBVIOUS
<1>3. IsView(v, sup) /\ Holds(copy, sup, count, v)
  BY <1>1, <1>2, ChainEnds
<1>4. next.fault = "none" /\ Holds(next, sup, count, v)
  BY <1>3, Idles
<1> QED
  BY <1>2, <1>4 DEF Joined, Idled

LEMMA JoinedMirrorBlock ==
  ASSUME NEW c, NEW copy, NEW board, NEW pkts, NEW sup \in Seq(Shapes), NEW count \in 0 .. Len(sup),
         count < Len(sup), NEW next, next = QueueNextBlock(copy, sup[count + 1]),
         Joined(c, copy, board, pkts, sup, count)
  PROVE  next.fault = copy.fault /\ Joined(c, next, board, pkts, sup, count + 1)
<1>1. PICK s, v : s = sup[count + 1] /\ v = c[0]
  OBVIOUS
<1>2. Len(sup) \in Nat
  OBVIOUS
<1>3. count + 1 \in 1 .. Len(sup)
  BY <1>2
<1>4. s \in Shapes
  BY <1>1, <1>3
<1>5. Holds(copy, sup, count, v) /\ next = QueueNextBlock(copy, s)
  BY <1>1 DEF Joined
<1>6. Queued(copy, next, s, sup, count, v)
  BY <1>1, <1>4, <1>5, QueuedHolds
<1> QED
  BY <1>1, <1>6 DEF Joined, Queued

LEMMA MirrorStep ==
  ASSUME MirrorInv, Between(own), [MirrorNext]_vars PROVE MirrorInv'
<1>1. supply \in Seq(Shapes) /\ mirrored \in 0 .. Len(supply) /\ stale \in BOOLEAN
  BY DEF MirrorInv
<1>2. Len(supply) \in Nat /\ mirrored \in Nat /\ mirrored <= Len(supply)
  BY <1>1
<1>3. stale = FALSE /\ Together => \E c : Joined(c, mirror, own, wire, supply, mirrored)
  BY DEF MirrorInv, Linked
<1>4. ASSUME OwnBlock PROVE MirrorInv'
  <2>1. /\ Together /\ mirror' = mirror /\ wire' = wire /\ mirrored' = mirrored /\ stale' = stale
        /\ supply' = Append(supply, own'.next[Len(own'.next)])
    BY <1>4 DEF OwnBlock
  <2>2. PICK s \in Shapes : own' = QueueNextBlock(own, s)
    BY <1>4 DEF OwnBlock, AddFallingBlock
  <2>3. IsBoard(own) /\ own.next \in Seq(Shapes)
    BY DEF Between, Sound
  <2>4. PICK next, big : next = own' /\ big = Append(supply, s)
    OBVIOUS
  <2>5. next = QueueNextBlock(own, s) /\ next.next[Len(next.next)] = s
    BY <2>2, <2>3, <2>4, LastQueued
  <2>6. supply' = big
    BY <2>1, <2>4, <2>5
  <2>7. big \in Seq(Shapes) /\ Len(big) = Len(supply) + 1
    BY <1>1, <2>4, Grown
  <2>8. mirrored \in 0 .. Len(big)
    BY <1>2, <2>7
  <2>9. mirror.fault = "none"
    BY <2>1 DEF Together
  <2>10. ASSUME stale = FALSE PROVE Linked'
    <3>1. PICK c : Joined(c, mirror, own, wire, supply, mirrored)
      BY <1>3, <2>1, <2>10
    <3>2. Supplied(c, mirror, own, next, wire, big, mirrored)
      BY <1>1, <2>4, <2>5, <3>1, JoinedBlock
    <3>3. Joined(c, mirror, next, wire, big, mirrored)
      BY <3>2 DEF Supplied
    <3> QED
      BY <2>1, <2>4, <2>6, <3>3 DEF Linked
  <2> QED
    BY <1>1, <2>1, <2>6, <2>7, <2>8, <2>9, <2>10 DEF MirrorInv
<1>5. ASSUME MirrorBlock PROVE MirrorInv'
  <2>1. /\ Together /\ mirrored < Len(supply) /\ mirror' = QueueNextBlock(mirror, supply[mirrored + 1])
        /\ mirrored' = mirrored + 1 /\ own' = own /\ wire' = wire /\ supply' = supply /\ stale' = stale
    BY <1>5 DEF MirrorBlock
  <2>2. mirrored + 1 \in 0 .. Len(supply)
    BY <1>2, <2>1
  <2>3. PICK next : next = mirror'
    OBVIOUS
  <2>4. ASSUME stale = FALSE PROVE Linked' /\ mirror'.fault = "none"
    <3>1. PICK c : Joined(c, mirror, own, wire, supply, mirrored)
      BY <1>3, <2>1, <2>4
    <3>2. next.fault = mirror.fault /\ Joined(c, next, own, wire, supply, mirrored + 1)
      BY <1>1, <2>1, <2>3, <3>1, JoinedMirrorBlock
    <3> QED
      BY <2>1, <2>3, <3>2 DEF Linked, Together
  <2> QED
    BY <1>1, <2>1, <2>2, <2>4 DEF MirrorInv
<1>6. ASSUME OwnFrame PROVE MirrorInv'
  <2>1. /\ Together /\ mirror' = mirror /\ supply' = supply /\ mirrored' = mirrored
        /\ wire' = IF own'.apply = <<>> THEN wire ELSE Append(wire, own'.apply)
        /\ stale' = (stale \/ Stale(own'))
    BY <1>6 DEF OwnFrame
  <2>2. PICK inputs \in GetInput, tick \in BOOLEAN : own' = Update(own, inputs, tick)
    BY <1>6 DEF OwnFrame, Frame
  <2>3. PICK next, more : next = own' /\ more = wire'
    OBVIOUS
  <2>4. own.fault = "none" /\ mirror.fault = "none"
    BY <2>1 DEF Together
  <2>5. stale' \in BOOLEAN /\ (stale' = FALSE => stale = FALSE /\ ~Stale(next))
    BY <1>1, <2>1, <2>3
  <2>6. ASSUME stale' = FALSE, next.fault = "none" PROVE Linked'
    <3>1. PICK c : Joined(c, mirror, own, wire, supply, mirrored)
      BY <1>3, <2>1, <2>5, <2>6
    <3>2. next = Update(own, inputs, tick) /\ ~Stale(next)
      BY <2>2, <2>3, <2>5, <2>6
    <3>3. more = IF next.apply = <<>> THEN wire ELSE Append(wire, next.apply)
      BY <2>1, <2>3
    <3>4. \E d : Joined(d, mirror, next, more, supply, mirrored)
      BY <1>1, <2>4, <2>6, <3>1, <3>2, <3>3, JoinedFrame
    <3> QED
      BY <2>1, <2>3, <3>4 DEF Linked
  <2>7. Together' => next.fault = "none"
    BY <2>3 DEF Together
  <2> QED
    BY <1>1, <2>1, <2>4, <2>5, <2>6, <2>7 DEF MirrorInv
<1>7. ASSUME MirrorInput PROVE MirrorInv'
  <2>1. /\ Together /\ wire # <<>> /\ wire' = Tail(wire) /\ mirror' = Update(mirror, Head(wire), FALSE)
        /\ stale' = (stale \/ Stale(mirror'))
        /\ own' = own /\ supply' = supply /\ mirrored' = mirrored
    BY <1>7 DEF MirrorInput
  <2>2. PICK next, rest : next = mirror' /\ rest = wire'
    OBVIOUS
  <2>3. stale' \in BOOLEAN /\ (stale' = FALSE => stale = FALSE /\ ~Stale(next))
    BY <1>1, <2>1, <2>2
  <2>4. ASSUME stale' = FALSE
        PROVE  IF next.fault = "none" THEN Linked' ELSE mirrored < Len(supply)
    <3>1. PICK c : Joined(c, mirror, own, wire, supply, mirrored)
      BY <1>3, <2>1, <2>3, <2>4
    <3>2. next = Update(mirror, Head(wire), FALSE) /\ ~Stale(next) /\ rest = Tail(wire)
      BY <2>1, <2>2, <2>3, <2>4
    <3>3. mirror.fault = "none"
      BY <2>1 DEF Together
    <3>4. Received(next, own, rest, supply, mirrored)
      BY <1>1, <2>1, <3>1, <3>2, <3>3, JoinedInput
    <3> QED
      BY <2>1, <2>2, <3>4 DEF Linked, Received
  <2>5. Together' => next.fault = "none"
    BY <2>2 DEF Together
  <2> QED
    BY <1>1, <2>1, <2>2, <2>3, <2>4, <2>5 DEF MirrorInv
<1>8. ASSUME MirrorIdle PROVE MirrorInv'
  <2>1. /\ Together /\ mirror' = Update(mirror, <<>>, FALSE)
        /\ stale' = (stale \/ Stale(mirror'))
        /\ wire' = wire /\ own' = own /\ supply' = supply /\ mirrored' = mirrored
    BY <1>8 DEF MirrorIdle
  <2>2. PICK next : next = mirror'
    OBVIOUS
  <2>3. stale' \in BOOLEAN /\ (stale' = FALSE => stale = FALSE)
    BY <1>1, <2>1, <2>2
  <2>4. ASSUME stale' = FALSE PROVE next.fault = "none" /\ Linked'
    <3>1. PICK c : Joined(c, mirror, own, wire, supply, mirrored)
      BY <1>3, <2>1, <2>3, <2>4
    <3>2. mirror.fault = "none"
      BY <2>1 DEF Together
    <3>3. next = Update(mirror, <<>>, FALSE)
      BY <2>1, <2>2
    <3>4. Idled(c, next, own, wire, supply, mirrored)
      BY <1>1, <3>1, <3>2, <3>3, JoinedIdle
    <3> QED
      BY <2>1, <2>2, <3>4 DEF Linked, Idled
  <2> QED
    BY <1>1, <2>1, <2>2, <2>3, <2>4 DEF MirrorInv
<1>9. ASSUME UNCHANGED vars PROVE MirrorInv'
  BY <1>9 DEF vars, MirrorInv, Linked, Together
<1> QED
  BY <1>4, <1>5, <1>6, <1>7, <1>8, <1>9 DEF MirrorNext

LEMMA MirrorAlways == MirrorSpec => []MirrorInv
<1>1. MirrorInit => MirrorInv
  BY MirrorBegins
<1>2. MirrorInv /\ Between(own) /\ [MirrorNext]_vars => MirrorInv'
  BY MirrorStep
<1> QED
  BY <1>1, <1>2, BoardAlways, PTL DEF MirrorSpec

(* The block a board has in play, or will have, is the one of the view. *)
LEMMA InPlayIs ==
  ASSUME NEW b, NEW sup \in Seq(Shapes), NEW count \in 0 .. Len(sup), NEW v,
         Holds(b, sup, count, v), IsView(v, sup)
  PROVE  InPlay(b) = None \/ InPlay(b) = Ready(v, sup).falling
<1>1. PICK r : r = IF b.falling = None THEN NextFallingBlock(b) ELSE b
  OBVIOUS
<1>2. v.taken \in 0 .. Len(sup)
  BY DEF IsView
<1>3. Holds(r, sup, count, v)
  BY <1>1, <1>2, ReadyHolds
<1>4. r.falling # None => Exactly(r, sup, count, Ready(v, sup))
  BY <1>2, <1>3, InPlayExactly
<1>5. InPlay(b) = r.falling
  BY <1>1 DEF InPlay
<1> QED
  BY <1>4, <1>5 DEF Exactly, Shows

(* InGameScene::Update, ReqGameInput and AddFallingBlock: whatever is      *)
(* pressed, and however the blocks and the packets of the two clients      *)
(* interleave, a mirror that has replayed every packet shows the player's  *)
(* walls, hold and block, unless a block was walled at an outdated place.  *)
THEOREM MirrorKeepsUp == MirrorSpec => []MirrorInStep
<1>1. ASSUME MirrorInv PROVE MirrorInStep
  <2> SUFFICES ASSUME Together, wire = <<>>, ~stale
               PROVE  /\ mirror.wall = own.wall /\ mirror.hold = own.hold
                      /\ mirror.canHold = own.canHold
                      /\ InPlay(mirror) = None \/ InPlay(own) = None \/ InPlay(mirror) = InPlay(own)
    BY DEF MirrorInStep
  <2>1. supply \in Seq(Shapes) /\ mirrored \in 0 .. Len(supply) /\ Linked
    BY <1>1 DEF MirrorInv
  <2>2. PICK c : Joined(c, mirror, own, wire, supply, mirrored)
    BY <2>1 DEF Linked
  <2>3. Len(wire) = 0
    OBVIOUS
  <2>4. PICK v, l : v = c[0] /\ l = Len(supply)
    OBVIOUS
  <2>5. Holds(mirror, supply, mirrored, v) /\ Holds(own, supply, l, v)
    BY <2>2, <2>3, <2>4 DEF Joined
  <2>6. IsView(v, supply)
    BY <2>2, <2>4, ChainEnds DEF Joined
  <2>7. l \in 0 .. Len(supply)
    BY <2>1, <2>4
  <2>8. InPlay(mirror) = None \/ InPlay(mirror) = Ready(v, supply).falling
    BY <2>1, <2>5, <2>6, InPlayIs
  <2>9. InPlay(own) = None \/ InPlay(own) = Ready(v, supply).falling
    BY <2>1, <2>5, <2>6, <2>7, InPlayIs
  <2>10. mirror.wall = own.wall /\ mirror.hold = own.hold /\ mirror.canHold = own.canHold
    BY <2>5 DEF Holds
  <2> QED
    BY <2>8, <2>9, <2>10
<1>2. MirrorInv => MirrorInStep
  BY <1>1
<1> QED
  BY <1>2, MirrorAlways, PTL

(* TetrisBoard::MoveFallingBlock follows a null pointer on the opponent's  *)
(* client only when a packet overtakes the block it is about: no order of  *)
(* keys, gravity, packets and blocks takes the mirror down otherwise,      *)
(* short of a landing at an outdated place.                                *)
THEOREM OnlyLateBlocksFault == MirrorSpec => []OnlyShortMirrorFaults
<1>1. MirrorInv => OnlyShortMirrorFaults
  BY DEF MirrorInv, OnlyShortMirrorFaults
<1> QED
  BY <1>1, MirrorAlways, PTL
=============================================================================
