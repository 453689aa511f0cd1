SPECIFICATION Spec
CONSTANTS
  NoMirror = NoMirror
  Outputs = {1, 2}
  Inputs = {1, 2}
  Unity = 2
  MaxLevel = 2
  Levels = {1, 3}
  Asked <- MCAsked
  Rows <- MCRows
  Boot <- MCBoot
  Early = FALSE
  Faults = {"read", "write", "acklost", "panel"}
INVARIANTS TypeOK InSync
PROPERTIES ImplementsMatrix
