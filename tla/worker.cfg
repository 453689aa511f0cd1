SPECIFICATION FairSpec
CONSTANTS
  h1 = h1
  h2 = h2
  h3 = h3
  NoHandle = NoHandle
  Handles <- MCHandles
  Commands = {"valid", "malformed"}
  Endings = {"reap", "shutdown"}
  Retained = {"none", "offline"}
INVARIANTS TypeOK HandleAccounted
  
