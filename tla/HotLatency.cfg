SPECIFICATION DemoSpec
CONSTANTS
  Proc = {0, 1, 2}
  Task = {1, 2, 3, 4, 5, 6, 7, 8, 9, 10, 11}
  NoTask = 0
  Hot = 11
  Few = {1, 2, 3, 4}
INVARIANTS NoTaskLostOrDoubled HotLatencies
PROPERTIES SlotIsNotStolen NothingStarves
CHECK_DEADLOCK FALSE
