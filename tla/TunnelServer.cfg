CONSTANTS
  Modulus = 4
  Reserve = 1
  Keys = {k1, k2}
  NoKey = NoKey
  Malformed = Malformed
  Window = 1
  MaxUptime = 1
  MaxFaults = 1

SPECIFICATION Spec

INVARIANTS
  TypeOK
  AtMostOnce
  AckIsNoResponse

PROPERTIES
  AnsweredForRegisteredKey
  OnlyAuthenticDrives
  PartsSpec

SYMMETRY KeySymmetry
