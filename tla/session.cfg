SPECIFICATION FairSpec
CONSTANTS
  t1 = t1
  t2 = t2
  Units = {1, 2}
  Callers <- MCCallers
  NoUnit = NoUnit
  NoCaller = NoCaller
  Serial <- MCShared
  NoSerial = NoSerial
  Aliases <- NoAliases
  Digits <- NoDigits
  ImageBytes = 50
  BlockSize = 48
  ReopenTries = 1
INVARIANTS TypeOK FlashIsExclusive SuccessIsWhole DevIsPicked OneRetryHeals
PROPERTY LockReturns
