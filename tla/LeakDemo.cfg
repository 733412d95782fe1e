SPECIFICATION Spec
CONSTANT Program <- LeakDemos
INVARIANT ReleaseLeavesNothing
