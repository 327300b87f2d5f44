SPECIFICATION Spec
CONSTANTS
  Procs = {"p", "q"}
  First = "p"
  Objects = {o1}
  Callers = {"k1", "k2"}
INVARIANTS
  DescriptorsOwn FatContents FatStructure SpacesApart PrintedWhole PrintsNumber PathsLead
  ArgsReadable UserHeapOwned
CHECK_DEADLOCK FALSE
