CONSTANTS
  None = None
  Sources = {clip, loop}
  MaxFilters = 3
  MaxOps = 5
SPECIFICATION DeskSpec
SYMMETRY Symmetry
CHECK_DEADLOCK FALSE
INVARIANTS
  ChainMirrorsEngine
  InspectorConverges
  StripSettles
  AnnouncedOrOwed
PROPERTIES
  StripWritesEdits
  SeeksFollowTheHand
