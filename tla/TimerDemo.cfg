SPECIFICATION FairSpec
CONSTANT Program <- TimerDemo
PROPERTY TicksArePrinted
CHECK_DEADLOCK FALSE
