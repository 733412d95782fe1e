SPECIFICATION DemoSpec
CONSTANTS
  Client = {c1}
  Period = 2
  Burst = 3
  Requests = {1}
  MaxClock = 8
PROPERTIES
  SpacedAfterTheBurst
