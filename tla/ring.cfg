CONSTANTS
  Capacity = 4
  MaxChunk = 3
  MaxPos = 9
  Width = 16
SPECIFICATION Spec
INVARIANTS
  UnreadIntact
PROPERTIES
  ImplementsFifo
