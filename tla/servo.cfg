SPECIFICATION Spec
CONSTANTS
  cam = cam
  mic = mic
  Taps <- OneTap
  Capacity = 9
  Blocks <- SmallBlocks
  Delays <- OneDelay
  Patience = 1
  HighLimit = 1
  Window = 2
  Warmup = 1
INVARIANTS
  OrdersLatched
  FullRingPrimes
PROPERTIES
  SteadyNeverDries
