SPECIFICATION Spec
CONSTANTS
  FrameSize = 64
  HeaderSize = 14
  Sizes = {0, 8, 48, 49, 50, 51, 111, 112, 113, 114, 115, 177, 296}
  MaxMessages = 3
INVARIANTS TypeOK AssembledIsPayload LeftoverIsTrailer TrailerOffTheEdge
