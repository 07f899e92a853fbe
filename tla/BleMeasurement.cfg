CONSTANTS
  Samples = 2
  CounterStart = 2
  MaxOthers = 1

SPECIFICATION Spec

INVARIANTS
  TypeOK
  FreshCounterSent
  RttIsNotNegative
  LateOnlyAfterTimeout

PROPERTY Ends

CHECK_DEADLOCK FALSE
