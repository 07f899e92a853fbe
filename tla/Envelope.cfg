CONSTANTS
  Requests <- MCRequests
  Messages <- MCMessages
  Signed <- MCSigned
  gDevicePub <- MCDevicePub
  BundleLen = 450
  MaxWrites = 2

SPECIFICATION EnvelopeSpec

INVARIANTS
  EnvelopeTypeOK
  StaysInside
  ServesWhatWasPacked
  Binds

CHECK_DEADLOCK FALSE
