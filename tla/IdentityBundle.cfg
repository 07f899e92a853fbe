CONSTANTS
  kMaxChunk = 2
  SignedLen = 2
  BundleLen = 5
  MaxKeys = 2
  MaxBuilds = 3

SPECIFICATION Spec

INVARIANTS
  TypeOK
  FetchedIsOneBundle
  PinnedKeySigns

CHECK_DEADLOCK FALSE
