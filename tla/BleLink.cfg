CONSTANTS
  Centrals = {c1, c2}
  NoConn = NoConn
  MaxSlowdowns = 4

SPECIFICATION Spec

INVARIANTS
  TypeOK
  ReassertionsBounded

PROPERTIES
  AdvertisesAgain
  LastIsReasserted

CHECK_DEADLOCK FALSE
