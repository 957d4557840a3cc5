CONSTANTS
  Width = 3
  Height = 4
  SpawnX = 1
  Shapes = {"O", "L"}
  Inputs = {"LEFT", "HOLD", "DROP", "ROTATERIGHT"}
  MaxBlocks = 3
  Ahead = 1
  MaxWire = 1
SPECIFICATION MirrorSpec
CHECK_DEADLOCK FALSE
INVARIANT NothingLost
INVARIANT RemovalCompacts
INVARIANT CleanLanding
INVARIANT MirrorInStep
INVARIANT OnlyShortMirrorFaults
