SPECIFICATION MachineSpec
CONSTANTS
  Nil = Nil
  Obj = {o1, o2, o3}
  Slot = {0}
  StackSlot = {0}
  Modes <- AllModes
SYMMETRY ObjSymmetry
INVARIANTS
  NoLostObject
  IInv
  GarbageStaysWhite
  VerdictsOfTheTests
PROPERTIES
  CollectorSpec
