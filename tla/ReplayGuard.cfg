CONSTANTS
  Modulus = 8
  Reserve = 3

SPECIFICATION Spec

INVARIANTS
  TypeOK
  NoReplay
  ReservationCovers
  BurnBounded

PROPERTIES
  FloorKeptInBoot
  WritesSpaced
  ImplementsReplaySpec
