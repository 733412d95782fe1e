SPECIFICATION DemoSpec
CONSTANTS
  Caller = {c1, c2, c3, c4}
  N = 4
  Half = 16
  Variants = {"correct", "wrong", "negative"}
INVARIANTS
  OnceAndBeforeReturn
  RecursionNeverReturns
  WaitCoversEveryWorker
PROPERTIES
  EveryDemoEnds
