SPECIFICATION FairSpec
CONSTANTS
  a = a
  b = b
  c = c
  d = d
  Job = {a, b, c, d}
  Limit = 2
  Weight <- MixedWeights
  Kinds = {"none", "chan", "weighted"}
INVARIANTS
  SleepersDoNotFit
  CapacityAccounted
  MaxIsThePeak
PROPERTIES
  NoOvertaking
  EveryFittingJobFinishes
