CONSTANTS
  Files <- MCFiles
  Noises <- MCNoises
SPECIFICATION Spec
INVARIANTS OkIsWhole TagsComeBack StaysInside ErrorIsTold NoRunaway
CHECK_DEADLOCK FALSE
