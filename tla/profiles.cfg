SPECIFICATION Spec
CONSTANTS
  show = show
  Show = Show
  None = None
  Names = {show, Show}
  Files = {show, Show}
  FileOf <- Apart
  Tiers = {30, 60}
  Default = 60
INVARIANTS
  NoWaitStarves
  SavesOwnScene
  DanglingOnlyAfterTear
