CONSTANTS
  Children = {p1, p2, p3}
  Nobody = Nobody
  Wild = Wild
  Programs <- AllPrograms
SPECIFICATION FairSpec
CHECK_DEADLOCK FALSE
INVARIANTS Accounting ReturnsExitedChild
PROPERTIES ExitCompletes WaitByPidReturns
