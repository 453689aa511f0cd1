SPECIFICATION FairSpec
CONSTANTS
  Ports = {1, 2}
  Units = {"u1", "u2"}
  Boot <- OnlyOne
  Serial <- MCShared
  NoSerial = NoSerial
  NoUnit = NoUnit
  NoWorker = NoWorker
  Aliases <- NoAliases
  Digits <- NoDigits
  Sanitized <- Distinct
  Selector <- All
  MaxPlugs = 1
  Stops = {"interrupt", "signal"}
  Faults = {"drop", "slowjoin", "refused"}
CHECK_DEADLOCK FALSE
INVARIANTS TypeOK TableIsSubscribed OneActiveWorker NoWorkerOutlivesStop
PROPERTIES PluggedIsServed UnpluggedIsReaped StopReturns
