------------------------- MODULE ClientWindowProofs -------------------------
(***************************************************************************)
(* Theorems about ClientWindow, for any set of window sizes.               *)
(***************************************************************************)
EXTENDS ClientWindow, TLAPS

Flags == [sizemove : BOOLEAN, suspend : BOOLEAN, minimized : BOOLEAN, fullscreen : BOOLEAN]
Device == [output : Nat, swap : Int, views : Int]

WindowType ==
  /\ main \in {"start", "init", "loop", "thrown", "ended"}
  /\ size \in Sizes \union {0}
  /\ flags \in Flags
  /\ dev \in Device
  /\ asleep \in BOOLEAN /\ paused \in BOOLEAN /\ skipped \in BOOLEAN

(* Until the loop serves messages, the flags are what ShowWindow left. *)
Opening ==
  main \in {"start", "init"} => ~flags.sizemove /\ ~asleep /\ ~paused /\ ~skipped

(* The flags follow the window: there are two reasons to be suspended, and *)
(* the game is told of every change.                                       *)
FlagsFollow ==
  /\ main = "start" => ~flags.suspend /\ ~flags.minimized
  /\ main \in {"init", "loop"} =>
       /\ flags.minimized <=> size = 0
       /\ flags.sizemove => size # 0
       /\ flags.suspend => flags.minimized \/ asleep
       /\ paused => flags.suspend

(* Swap chain and views have the size DeviceResources believes in, so that *)
(* a resize to that size may return at once.                               *)
ViewsMatchOutput ==
  main = "loop" => dev.swap = Max1(dev.output) /\ dev.views = Max1(dev.output)

OutputFollows ==
  main = "loop" /\ size # 0 /\ ~flags.sizemove /\ ~skipped => dev.output = size

IInv == WindowType /\ Opening /\ FlagsFollow /\ ViewsMatchOutput /\ OutputFollows

-----------------------------------------------------------------------------
(* A window that is shown is drawn at its size: the clamp to 1 is only for *)
(* a minimized one.                                                        *)
LEMMA Max1Size == \A n \in Nat : Max1(n) \in Nat /\ (n # 0 => Max1(n) = n)
  BY DEF Max1

(* Both ways to make the views leave them at the size of the output. *)
LEMMA ViewsMade ==
  ASSUME NEW d \in Device
  PROVE  \A e \in {SetUpViews(d), HandleDeviceLost(d)} :
           /\ e \in Device /\ e.output = d.output
           /\ e.swap = Max1(d.output) /\ e.views = Max1(d.output)
<1> DEFINE m == Max1(d.output)
           n == [d EXCEPT !.swap = None, !.views = None]
<1>1. d.output \in Nat /\ m \in Int
  BY Max1Size DEF Device
<1>2. n \in Device /\ n.output = d.output
  <2>1. None \in Int
    BY DEF None
  <2> QED
    BY <2>1 DEF Device
<1>3. \A e \in Device : [e EXCEPT !.swap = m, !.views = m] \in Device
  <2> HIDE DEF m
  <2> QED
    BY <1>1 DEF Device
<1>4. SetUpViews(d) = [d EXCEPT !.swap = m, !.views = m]
  BY DEF SetUpViews
<1>5. HandleDeviceLost(d) = [n EXCEPT !.swap = m, !.views = m]
  BY <1>2 DEF SetUpViews, HandleDeviceLost
<1> HIDE DEF m, n
<1>6. \A e \in Device : LET f == [e EXCEPT !.swap = m, !.views = m]
                       IN f.output = e.output /\ f.swap = m /\ f.views = m
  BY DEF Device
<1> QED
  BY <1>2, <1>3, <1>4, <1>5, <1>6 DEF m

(* A loss of the device ends the process or leaves everything made anew. *)
LEMMA LossHandled ==
  ASSUME NEW d \in Device, DeviceLost(d), dev \in Device
  PROVE  /\ dev' \in Device
         /\ \/ main' = "thrown"
            \/ /\ main' = main
               /\ dev'.output = d.output
               /\ dev'.swap = Max1(d.output) /\ dev'.views = Max1(d.output)
  BY ViewsMade DEF DeviceLost, graphics

(* WindowSizeChanged, with or without the device, leaves output, swap      *)
(* chain and views at the new size.                                        *)
LEMMA SizeTaken ==
  ASSUME NEW z \in Nat, WindowSizeChanged(z), dev \in Device,
         dev.swap = Max1(dev.output), dev.views = Max1(dev.output)
  PROVE  /\ dev' \in Device
         /\ \/ main' = "thrown"
            \/ /\ main' = main
               /\ dev'.output = z
               /\ dev'.swap = Max1(z) /\ dev'.views = Max1(z)
<1> DEFINE d == [dev EXCEPT !.output = z]
<1>1. d \in Device /\ d.output = z
  BY DEF Device
<1>2. CASE z = dev.output
  BY <1>2 DEF WindowSizeChanged, graphics
<1>3. CASE z # dev.output /\ removed
  <2>1. DeviceLost(d)
    BY <1>3 DEF WindowSizeChanged
  <2> QED
    BY <1>1, <2>1, LossHandled
<1>4. CASE z # dev.output /\ ~removed
  <2>1. dev' = SetUpViews(d) /\ main' = main
    BY <1>4 DEF WindowSizeChanged
  <2> QED
    BY <1>1, <2>1, ViewsMade
<1> QED
  BY <1>2, <1>3, <1>4

(* The invariant holds before the window is shown. *)
LEMMA InitHolds == Init => IInv
<1> SUFFICES ASSUME Init PROVE IInv
  OBVIOUS
<1>1. dev \in Device
  BY DEF Init, Device, None
<1>2. flags \in Flags
  BY DEF Init, Flags
<1> QED
  BY <1>1, <1>2 DEF Init, IInv, WindowType, Opening, FlagsFollow, ViewsMatchOutput, OutputFollows

(* Every message, frame and loss of the device keeps it. *)
LEMMA StepHolds == IInv /\ [Next]_vars => IInv'
<1> SUFFICES ASSUME IInv, [Next]_vars PROVE IInv'
  OBVIOUS
<1> USE WindowAssumption
<1>a. /\ WindowType /\ dev \in Device /\ flags \in Flags /\ size \in Nat
      /\ Sizes \subseteq Nat /\ 0 \notin Sizes
      /\ Opening /\ FlagsFollow /\ ViewsMatchOutput /\ OutputFollows
  BY DEF IInv, WindowType
<1> USE DEF WindowType, Opening, FlagsFollow, ViewsMatchOutput, OutputFollows, Flags
<1>1. CASE Show
  BY <1>1, <1>a DEF Show, IInv, graphics
<1>2. CASE Initialize
  <2> DEFINE d == [dev EXCEPT !.output = size]
  <2>1. d \in Device /\ d.output = size
    BY <1>a DEF Device
  <2>2. CASE main' = "loop" /\ dev' = SetUpViews(d)
    <3>1. dev' \in Device /\ dev'.output = size /\ dev'.swap = Max1(size) /\ dev'.views = Max1(size)
      BY <2>1, <2>2, ViewsMade
    <3> QED
      BY <1>2, <1>a, <2>2, <3>1 DEF Initialize, IInv
  <2>3. CASE main' = "thrown" /\ UNCHANGED graphics
    BY <1>2, <1>a, <2>3 DEF Initialize, IInv, graphics
  <2> QED
    BY <1>2, <2>2, <2>3 DEF Initialize
<1>3. CASE Minimize
  BY <1>3, <1>a DEF Minimize, IInv, graphics
<1>4. CASE EnterSizeMove
  BY <1>4, <1>a DEF EnterSizeMove, IInv, graphics
<1>5. CASE ExitSizeMove
  <2>1. WindowSizeChanged(size) /\ dev.swap = Max1(dev.output) /\ dev.views = Max1(dev.output)
    BY <1>5, <1>a DEF ExitSizeMove
  <2>2. /\ dev' \in Device
        /\ \/ main' = "thrown"
           \/ /\ main' = main
              /\ dev'.output = size
              /\ dev'.swap = Max1(size) /\ dev'.views = Max1(size)
    BY <2>1, <1>a, SizeTaken
  <2> QED
    BY <1>5, <1>a, <2>2 DEF ExitSizeMove, IInv
<1>6. ASSUME NEW z \in Sizes, Restore(z) PROVE IInv'
  BY <1>6, <1>a DEF Restore, IInv, graphics
<1>7. ASSUME NEW z \in Sizes, Resize(z) \/ ToggleFullscreen(z) PROVE IInv'
  <2>1. WindowSizeChanged(z) /\ dev.swap = Max1(dev.output) /\ dev.views = Max1(dev.output)
    BY <1>7, <1>a DEF Resize, ToggleFullscreen
  <2>2. /\ dev' \in Device
        /\ \/ main' = "thrown"
           \/ /\ main' = main
              /\ dev'.output = z
              /\ dev'.swap = Max1(z) /\ dev'.views = Max1(z)
    BY <2>1, <1>a, SizeTaken
  <2>3. CASE Resize(z)
    BY <2>3, <1>a, <2>2 DEF Resize, IInv
  <2>4. CASE ToggleFullscreen(z)
    BY <2>4, <1>a, <2>2 DEF ToggleFullscreen, IInv
  <2> QED
    BY <1>7, <2>3, <2>4
<1>8. ASSUME NEW z \in Sizes, Drag(z) PROVE IInv'
  BY <1>8, <1>a DEF Drag, IInv, graphics
<1>9. CASE QuerySuspend
  BY <1>9, <1>a DEF QuerySuspend, IInv, graphics
<1>10. CASE ResumeSuspend
  BY <1>10, <1>a DEF ResumeSuspend, IInv, graphics
<1>11. CASE Tick
  <2>1. CASE removed
    <3>1. DeviceLost(dev)
      BY <1>11, <2>1 DEF Tick
    <3>2. /\ dev' \in Device
          /\ \/ main' = "thrown"
             \/ /\ main' = main
                /\ dev'.output = dev.output
                /\ dev'.swap = Max1(dev.output) /\ dev'.views = Max1(dev.output)
      BY <3>1, <1>a, LossHandled
    <3> QED
      BY <1>11, <1>a, <3>2 DEF Tick, IInv
  <2>2. CASE ~removed
    BY <1>11, <1>a, <2>2 DEF Tick, IInv, graphics
  <2> QED
    BY <2>1, <2>2
<1>12. CASE DeviceRemoved
  BY <1>12, <1>a DEF DeviceRemoved, IInv
<1>13. CASE Destroy
  BY <1>13, <1>a DEF Destroy, IInv, graphics
<1>14. CASE UNCHANGED vars
  BY <1>14, <1>a DEF vars, IInv
<1> QED
  BY <1>1, <1>2, <1>3, <1>4, <1>5, <1>6, <1>7, <1>8, <1>9, <1>10, <1>11, <1>12, <1>13, <1>14
     DEF Next

(* The inductive invariant holds throughout. *)
THEOREM Inductive == Spec => []IInv
  BY InitHolds, StepHolds, PTL DEF Spec

(* Whatever sizes the window takes, and wherever the device is lost, it is *)
(* drawn at its own size unless it came back minimized with another one.   *)
THEOREM DrawnAtSize == Spec => []StaleOnlyAfterRestore
<1>1. IInv => StaleOnlyAfterRestore
  <2> SUFFICES ASSUME IInv, main = "loop", size # 0, ~flags.sizemove, ~skipped
               PROVE  dev.output = size /\ dev.swap = size /\ dev.views = size
    BY DEF StaleOnlyAfterRestore
  <2>1. size \in Nat /\ dev.output = size /\ dev.swap = Max1(size) /\ dev.views = Max1(size)
    BY WindowAssumption DEF IInv, WindowType, ViewsMatchOutput, OutputFollows
  <2> QED
    BY <2>1, Max1Size
<1> QED
  BY <1>1, Inductive, PTL

(* In whatever order the two reasons to be suspended come and go, a        *)
(* visible window of a machine that is awake belongs to a game that runs.  *)
THEOREM NeverLeftAsleep == Spec => []AwakeWhenVisible
<1>1. IInv => AwakeWhenVisible
  BY DEF IInv, WindowType, FlagsFollow, AwakeWhenVisible
<1> QED
  BY <1>1, Inductive, PTL
=============================================================================
