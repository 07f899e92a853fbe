CONSTANTS
  Carriers = {"ble", "chip"}
  MaxCounter = 2
  Payloads = {"lock"}
  MaxRequests = 2

SPECIFICATION Spec

INVARIANT NeverPresentedAgain

CHECK_DEADLOCK FALSE
