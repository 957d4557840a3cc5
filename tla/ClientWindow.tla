---------------------------- MODULE ClientWindow ----------------------------
(***************************************************************************)
(* The client's window: WndProc with its four static flags, the message    *)
(* loop and its Tick, and DeviceResources with the device, the swap chain  *)
(* and the views.  Sizes are numbers, 0 the client area of a minimized     *)
(* window.  An exception ends the process.  The clock, the colour space,   *)
(* tearing and HDR options and the choice of an adapter are left out.      *)
(***************************************************************************)
EXTENDS Integers

CONSTANTS
  Sizes   \* the sizes a window that is not minimized may have

ASSUME WindowAssumption == Sizes \subseteq Nat \ {0}

VARIABLES
  main,      \* before ShowWindow, in Initialize, in the message loop, ended
  size,      \* the client area the window has
  flags,     \* s_in_sizemove, s_in_suspend, s_minimized, s_fullscreen
  dev,       \* DeviceResources: m_outputSize, the swap chain and the views
  removed,   \* the graphics device has been removed
  asleep,    \* the machine has announced to be suspended
  paused,    \* history: OnSuspending was called and OnResuming was not
  skipped    \* history: a new size was taken for the end of being minimized

vars == <<main, size, flags, dev, removed, asleep, paused, skipped>>

graphics == <<dev, removed>>

None == -1
Max1(n) == IF n < 1 THEN 1 ELSE n

Init ==
  /\ main = "start" /\ size = 0
  /\ flags = [sizemove |-> FALSE, suspend |-> FALSE, minimized |-> FALSE, fullscreen |-> FALSE]
  /\ dev = [output |-> 1, swap |-> None, views |-> None]
  /\ removed = FALSE
  /\ asleep = FALSE /\ paused = FALSE /\ skipped = FALSE

-----------------------------------------------------------------------------
(* CreateWindowSizeDependentResources, with a swap chain or without. *)
SetUpViews(d) == [d EXCEPT !.swap = Max1(d.output), !.views = Max1(d.output)]

(* HandleDeviceLost: everything is released, then made anew.  OnDeviceLost *)
(* and OnDeviceRestored of Game do nothing.                                *)
HandleDeviceLost(d) == SetUpViews([d EXCEPT !.swap = None, !.views = None])

(* The device is found to be removed, by ResizeBuffers or by Present; a    *)
(* new one may not be had.                                                 *)
DeviceLost(d) ==
  \/ /\ dev' = HandleDeviceLost(d) /\ removed' = FALSE /\ UNCHANGED main
  \/ main' = "thrown" /\ UNCHANGED graphics

WindowSizeChanged(z) ==
  CASE z = dev.output -> UNCHANGED <<main, graphics>>
    [] z # dev.output /\ removed -> DeviceLost([dev EXCEPT !.output = z])
    [] OTHER -> dev' = SetUpViews([dev EXCEPT !.output = z]) /\ UNCHANGED <<main, removed>>

-----------------------------------------------------------------------------
(* wWinMain up to ShowWindow: WndProc does not know the game yet. *)
Show ==
  /\ main = "start"
  /\ main' = "init"
  /\ \/ size' \in Sizes /\ UNCHANGED flags
     \/ size' = 0 /\ flags' = [flags EXCEPT !.minimized = TRUE, !.suspend = TRUE]
  /\ UNCHANGED <<graphics, asleep, paused, skipped>>

(* Game::Initialize; no message is served before the loop. *)
Initialize ==
  /\ main = "init"
  /\ \/ /\ main' = "loop"
        /\ dev' = SetUpViews([dev EXCEPT !.output = size])
        /\ UNCHANGED removed
     \/ main' = "thrown" /\ UNCHANGED graphics
  /\ UNCHANGED <<size, flags, asleep, paused, skipped>>

(* WM_SIZE of a window that is minimized *)
Minimize ==
  /\ main = "loop" /\ size # 0 /\ ~flags.sizemove
  /\ size' = 0
  /\ flags' = [flags EXCEPT !.minimized = TRUE, !.suspend = TRUE]
  /\ paused' = (paused \/ ~flags.suspend)
  /\ UNCHANGED <<main, graphics, asleep, skipped>>

(* A slip: the window comes back and the game stays suspended. *)
RestoreOnly(z) ==
  /\ main = "loop" /\ size = 0
  /\ size' = z
  /\ flags' = [flags EXCEPT !.minimized = FALSE]
  /\ skipped' = (z # dev.output)
  /\ UNCHANGED <<main, graphics, asleep, paused>>

(* WM_SIZE of a window that comes back, whatever its size is now: the      *)
(* branch of s_minimized leaves the size alone.                            *)
Restore(z) ==
  /\ main = "loop" /\ size = 0
  /\ size' = z
  /\ flags' = [flags EXCEPT !.minimized = FALSE, !.suspend = FALSE]
  /\ paused' = (paused /\ ~flags.suspend)
  /\ skipped' = (z # dev.output)
  /\ UNCHANGED <<main, graphics, asleep>>

(* WM_SIZE of any other change, as by the maximize button *)
Resize(z) ==
  /\ main = "loop" /\ size # 0 /\ ~flags.sizemove
  /\ size' = z
  /\ WindowSizeChanged(z)
  /\ skipped' = FALSE
  /\ UNCHANGED <<flags, asleep, paused>>

(* WM_SYSKEYDOWN of ALT+ENTER; the window takes another size. *)
ToggleFullscreen(z) ==
  /\ main = "loop" /\ size # 0 /\ ~flags.sizemove
  /\ size' = z
  /\ flags' = [flags EXCEPT !.fullscreen = ~@]
  /\ WindowSizeChanged(z)
  /\ skipped' = FALSE
  /\ UNCHANGED <<asleep, paused>>

EnterSizeMove ==
  /\ main = "loop" /\ size # 0 /\ ~flags.sizemove
  /\ flags' = [flags EXCEPT !.sizemove = TRUE]
  /\ UNCHANGED <<main, size, graphics, asleep, paused, skipped>>

(* WM_SIZE while the border is dragged *)
Drag(z) ==
  /\ main = "loop" /\ flags.sizemove
  /\ size' = z
  /\ UNCHANGED <<main, flags, graphics, asleep, paused, skipped>>

(* A slip: the last size of the drag is not asked for. *)
ExitOnly ==
  /\ main = "loop" /\ flags.sizemove
  /\ flags' = [flags EXCEPT !.sizemove = FALSE]
  /\ skipped' = FALSE
  /\ UNCHANGED <<main, size, graphics, asleep, paused>>

ExitSizeMove ==
  /\ main = "loop" /\ flags.sizemove
  /\ flags' = [flags EXCEPT !.sizemove = FALSE]
  /\ WindowSizeChanged(size)
  /\ skipped' = FALSE
  /\ UNCHANGED <<size, asleep, paused>>

(* WM_POWERBROADCAST, before the machine sleeps and after *)
QuerySuspend ==
  /\ main = "loop" /\ ~asleep
  /\ asleep' = TRUE
  /\ flags' = [flags EXCEPT !.suspend = TRUE]
  /\ paused' = (paused \/ ~flags.suspend)
  /\ UNCHANGED <<main, size, graphics, skipped>>

ResumeSuspend ==
  /\ main = "loop" /\ asleep
  /\ asleep' = FALSE
  /\ IF flags.minimized THEN UNCHANGED <<flags, paused>>
     ELSE /\ flags' = [flags EXCEPT !.suspend = FALSE]
          /\ paused' = (paused /\ ~flags.suspend)
  /\ UNCHANGED <<main, size, graphics, skipped>>

(* Game::Tick, from the loop or for WM_PAINT during a drag, ends in the    *)
(* Present that may find the device removed.                               *)
Tick ==
  /\ main = "loop"
  /\ IF removed THEN DeviceLost(dev) ELSE UNCHANGED <<main, graphics>>
  /\ UNCHANGED <<size, flags, asleep, paused, skipped>>

DeviceRemoved ==
  /\ main = "loop" /\ ~removed
  /\ removed' = TRUE
  /\ UNCHANGED <<main, size, flags, dev, asleep, paused, skipped>>

(* WM_DESTROY *)
Destroy ==
  /\ main = "loop" /\ main' = "ended"
  /\ UNCHANGED <<size, flags, graphics, asleep, paused, skipped>>

Next ==
  \/ Show \/ Initialize \/ Minimize \/ EnterSizeMove \/ ExitSizeMove
  \/ \E z \in Sizes : Restore(z) \/ Resize(z) \/ ToggleFullscreen(z) \/ Drag(z)
  \/ QuerySuspend \/ ResumeSuspend \/ Tick \/ DeviceRemoved \/ Destroy

Spec == Init /\ [][Next]_vars

-----------------------------------------------------------------------------
(* A visible window that is not being dragged is drawn at its own size,    *)
(* swap chain and views included and also when the device was lost in the  *)
(* middle of a resize, except for one that came back from being minimized  *)
(* with another size.                                                      *)
StaleOnlyAfterRestore ==
  main = "loop" /\ size # 0 /\ ~flags.sizemove /\ ~skipped =>
    dev.output = size /\ dev.swap = size /\ dev.views = size

(* Two reasons to be suspended overlap and are undone in any order: once   *)
(* the machine is awake and the window is back, the game is not left       *)
(* suspended, and it was told to resume if it was told to suspend.         *)
AwakeWhenVisible ==
  main = "loop" /\ ~asleep /\ size # 0 => ~flags.suspend /\ ~paused
=============================================================================
