CONSTANTS
  Carriers = {"ble", "chip"}
  MaxCounter = 2
  Payloads = {"lock", "open"}
  MaxRequests = 2

SPECIFICATION Spec

INVARIANTS
  TypeOK
  AnsweredOnce
  ResponseIsBound
  AuthenticPasses

PROPERTIES
  AcceptsSignedCounter
  NewestServed

CHECK_DEADLOCK FALSE
