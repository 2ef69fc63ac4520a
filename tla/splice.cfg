SPECIFICATION SpliceSpec
CONSTANTS
  Chunk = 2
  RingUnits = 4
  Cushion = 2
  Blocks <- PushSizes
  Delays <- NoneOrOne
  MaxDraining = 1
INVARIANTS
  OnlyLostSeamsStep
