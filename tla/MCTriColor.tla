----------------------------- MODULE MCTriColor -----------------------------
(* The instance that TLC checks: three objects, one pointer slot each as   *)
(* alloc makes them, one stack slot.                                       *)
EXTENDS TriColorScenarios, TLC

ObjSymmetry == Permutations(Obj)
=============================================================================
