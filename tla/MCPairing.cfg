SPECIFICATION FairSpec
CONSTANTS
  h1 = h1
  h2 = h2
  Handlers = {h1, h2}
  Capacity = 1
  MaxCodes = 1
  MaxEvents = 1
INVARIANTS
  PairingTypeOK
  ScreenCurrent
  MainIsPopulated
PROPERTIES
  LinkedLeadsToMain
CHECK_DEADLOCK FALSE
