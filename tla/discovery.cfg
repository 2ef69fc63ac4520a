CONSTANTS
  Instances = {desk, studio}
  Owned = {studio}
  Ports = {1, 2}
  Requested = 1
  MaxLaunches = 2
  MaxChanges = 1
SPECIFICATION Spec
CHECK_DEADLOCK FALSE
INVARIANTS
  StaleOnlyAfterCrash
  SharedOnlyInWindow
PROPERTIES
  ChangesArePublished
  WatchedOwnerEnds
