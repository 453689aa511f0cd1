SPECIFICATION FairSpec
CONSTANTS
  Ports = {1, 2}
  Units = {"u1"}
  Serial <- MCShared
  NoSerial = NoSerial
  NoUnit = NoUnit
  NoWorker = NoWorker
  Aliases <- NoAliases
  Digits <- NoDigits
  Sanitized <- Distinct
  Selector <- All
  Boot <- OnlyOne
  MaxPlugs = 1
  Stops = {}
  Faults = {"swap"}
CHECK_DEADLOCK FALSE
PROPERTY PluggedIsServed
