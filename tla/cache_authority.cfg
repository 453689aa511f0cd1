SPECIFICATION Spec
CONSTANTS
  t1 = t1
  t2 = t2
  c1 = c1
  c2 = c2
  Keep = Keep
  NoCall = NoCall
  Threads = {t1}
  Channels = {c1}
  Dbs <- MCDbs
  Delays <- MCDelays
  MinDb <- MCMinDb
  MaxDb = 0
  Subidxs = {0, 1, 2}
  FactorySubidx <- MCFactory
  Calls <- AllCalls
  Presets <- MCPresets
  Faults = {"read", "write", "acklost", "dropped"}
  Excused = {"acklost", "dropped", "full", "load", "reset", "template"}
  MaxAttempts = 3
INVARIANTS TypeOK PrimedIsAuthoritative
PROPERTIES TrustedTemplateApplies
