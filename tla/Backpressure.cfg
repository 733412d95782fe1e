SPECIFICATION BackpressureSpec
CONSTANTS
  Producer = {p1, p2}
  Consumer = {c1, c2, c3}
  Pushes = 2
  Tasks = 6
  Capacities = {0, 1, 2, 4}
  Modes = {"drop", "block"}
INVARIANTS
  NoLostWakeup
  DrainedBeforeDone
  BoundedQueueIsSafe
PROPERTIES
  CloseEndsConsumers
  ScenariosEnd
