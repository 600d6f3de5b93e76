CONSTANTS
  Word = 16
  Half = 8
  Chunk = 3
  FcpSize = 2
  MaxSize = 20
  MaxFaults = 3
SPECIFICATION Spec
INVARIANTS TypeOK WrittenIsWhole SmallFilesFit ReadIsExact OverrunIsBounded
