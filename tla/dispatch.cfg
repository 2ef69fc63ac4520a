CONSTANTS
  c1 = c1
  c2 = c2
  None = None
  Clients = {c1, c2}
  MaxRequests = 2
  TrayChoices <- EitherTray
  StartHidden = FALSE
SPECIFICATION FairSpec
CHECK_DEADLOCK FALSE
INVARIANTS
  ResultIsOwn
  DrainCommitted
  ServedGetGoodbye
PROPERTIES
  StopDrains
  ShutdownHonoured
