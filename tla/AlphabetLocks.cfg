\* All four programs; five letters are two pairs to swap and a middle.
SPECIFICATION FairSpec
CONSTANTS
  N = 5
  Programs <- AllPrograms
INVARIANTS TypeOK MutualExclusion WholeWhenFree ShownWhole
PROPERTIES KeepsGoing
