SPECIFICATION FairSpec
CONSTANTS
  None = None
  MaxValue = 1
  MaxEvents = 2
  Followed = {"preset", "level", "delay"}
  Asked <- MCAsked
  Excused = {"range", "early", "dropped", "clobber"}
  Faults = {"usb", "acklost", "dropped", "drop", "panel"}
INVARIANTS TypeOK SlidersAreShown
PROPERTY PollHeals
