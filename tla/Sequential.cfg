SPECIFICATION SequentialSpec
CONSTANTS
  Word = 65536
  MaxInt = 60
  Node = {n1, n2, n3, n4}
  NULL = NULL
  Value = {v1, v2}
  Conn = {c1, c2, c3}
  Nobody = Nobody
  Earlier = 2
  Client = {c1, c2}
  Period = 2
  Burst = 2
  Requests = {1, 3}
  MaxClock = 5
INVARIANTS
  PhasesAsTested FormulasAreRight ClientsAreToldTheTruth
  WaitIsBounded ThroughputBound CleanupIsComplete
PROPERTIES ListKeepsItsItems EveryRequestIsAnswered
CHECK_DEADLOCK FALSE
