CONSTANTS
  MaxFed = 24
  MaxChunk = 10
  MaxString = 4
SPECIFICATION Spec
INVARIANTS DigestsRight CodecsRight
CHECK_DEADLOCK FALSE
