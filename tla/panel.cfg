CONSTANTS
  NoSource = NoSource
  Targets <- MCTargets
  KeysOf <- MCKeysOf
  Parent <- MCParent
  CascadeKeys <- MCCascadeKeys
  Lists = {"device", "resolution"}
  Sliders = {"gain"}
  TextKeys = {"text"}
  MaxOps = 7
SPECIFICATION PanelSpec
CHECK_DEADLOCK FALSE
INVARIANTS
  StaleOnlyIfDropped
PROPERTIES
  NoEditLost
