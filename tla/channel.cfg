CONSTANTS
  NChannels = 3
  Reports = TRUE
  MaxMishaps = 4
  NDraws = 2
SPECIFICATION ProgramSpec
INVARIANTS ProgramTypeOK SessionIsOpen LeaksAreBounded ClosesItsOwn
PROPERTIES CommandsHaveChannel ModesGetThrough
CHECK_DEADLOCK FALSE
