CONSTANTS
  Carriers = {"ble"}
  MaxCounter = 2
  Payloads = {"lock", "unlock"}
  MaxRequests = 2

SPECIFICATION Spec

INVARIANT AnswersWhatWasSigned

CHECK_DEADLOCK FALSE
