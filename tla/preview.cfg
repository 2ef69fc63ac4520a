SPECIFICATION FeedSpec
CONSTANTS
  None = None
  Sources = {left, right}
  KindOf <- Cameras
SYMMETRY Twins
CHECK_DEADLOCK FALSE
INVARIANTS
  IdleHoldsNoRef
  PreviewFollows
  GoneAfterFrame
  NothingLeft
