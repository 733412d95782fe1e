SPECIFICATION CancellationSpec
CONSTANTS
  N = 3
  Limits = {0, 1, 2}
  V = 3
  Worker = {w1, w2, w3}
  Target = 4
  Consumers = {"first", "wrong", "all"}
INVARIANTS
  IInv
  WaitIsHonest
  PipelineIsSafe
PROPERTIES
  FailureEndsTheGroup
  PipelineEnds
