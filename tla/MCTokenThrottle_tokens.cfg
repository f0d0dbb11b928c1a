CONSTANTS
  Threads = {t1, t2}
  Kids = {"old", "new", "none"}
  NoKid = "none"
  KeySets <- MCKeySets
  Window = 1
  Budget = 1
  MaxTracked = 1
  MaxResolved = 1
SPECIFICATION ThrottleSpec
INVARIANTS ThrottleInv HeldKeysNeverThrottled
PROPERTIES RotationRecovers
