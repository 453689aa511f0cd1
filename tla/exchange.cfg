SPECIFICATION FairSpec
CONSTANTS
  NoThread = NoThread
  NoRequest = NoRequest
  NoPacket = NoPacket
  SeqMod = 2
  Threads = {t1, t2}
  Requests <- MCRequests
  Pacing = 1
  MaxInFlight = 2
INVARIANTS TypeOK Paced OneExchangeAtATime ReassemblyIntact OwnReplyEmptiesPipe DirectionErrorIsLate
PROPERTIES ImplementsSharedLink LockIsReleased
