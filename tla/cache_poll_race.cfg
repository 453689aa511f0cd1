SPECIFICATION Spec
CONSTANTS
  t1 = t1
  t2 = t2
  c1 = c1
  c2 = c2
  Keep = Keep
  NoCall = NoCall
  Threads = {t1, t2}
  Channels = {c1}
  Dbs <- MCDbs
  Delays <- MCDelays
  MinDb <- MCMinDb
  MaxDb = 0
  Subidxs = {0, 1, 2}
  FactorySubidx <- MCFactory
  Calls <- PollRace
  Presets <- MCPresets
  Faults = {}
  Excused = {}
  MaxAttempts = 3
PROPERTY PartialUpdatesPreserve
