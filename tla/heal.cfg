SPECIFICATION HealSpec
CONSTANTS
  c1 = c1
  c2 = c2
  stick = stick
  webcam = webcam
  Nobody = Nobody
  Foreign = Foreign
  Order <- TwoCameras
  Devices = {stick, webcam}
  TargetOf <- SameDevice
  MaxFruitless = 2
INVARIANTS
  NoRestartStorm
  FrozenOnlyIfMissed
