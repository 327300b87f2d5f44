CONSTANTS
  Children = {p1, p2}
  Nobody = Nobody
  Wild = Wild
  Programs <- ShellOnly
SPECIFICATION FairSpec
CHECK_DEADLOCK FALSE
PROPERTIES WaitReturns
