CONSTANTS
  Contexts = {p1, p2, p3, p4}
SPECIFICATION FairSpec
INVARIANTS Exclusive
PROPERTIES ImplementsMutex Progress
