SPECIFICATION FairSpec
CONSTANTS
  N = 2
  Limits = {0, 1}
PROPERTIES
  CanceledGroupStartsNothing
