CONSTANTS
  Keys = {k1, k2, k3}
  NoKey = NoKey
  Malformed = Malformed
  Window = 2
  MaxUptime = 5

SPECIFICATION StoreSpec

INVARIANT ButtonOpensWindow
