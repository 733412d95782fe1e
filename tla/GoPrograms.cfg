SPECIFICATION FairSpec
CONSTANT Program <- AllPrograms
INVARIANTS Results RaceFree Joined
PROPERTY EverybodyEnds
