CONSTANTS
  N = 4
  Bsp = 1
SPECIFICATION FairSpec
INVARIANTS OwnTss EntryComplete HandOver
PROPERTIES AllCpusUp
