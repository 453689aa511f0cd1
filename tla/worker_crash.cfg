SPECIFICATION Spec
CONSTANTS
  h1 = h1
  h2 = h2
  h3 = h3
  NoHandle = NoHandle
  Handles <- MCHandles
  Commands = {"malformed"}
  Endings = {}
  Retained = {"none"}
INVARIANT PollsUntilStopped
