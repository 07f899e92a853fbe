CONSTANTS
  Modulus = 8
  Reserve = 3

SPECIFICATION Spec

INVARIANT ReservationBeforeAcceptance
