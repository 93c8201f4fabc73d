\* Nothing fails, and an unallocated bucket stays unallocated.
SPECIFICATION BoundedSpec

CONSTANTS
  p1 = p1
  p2 = p2
  Pools = {p1, p2}
  Registered = {p1, p2}
  CandidateLists <- TwoLists
  Amounts = {1}
  Threshold = 1
  Drivers = {"watching"}
  Faults = {}
  ExitIds = 2
  NoPool = NoPool
  NoExit = NoExit
  Never = Never
  MaxLate = 0

PROPERTIES
  IdleIsSeeded
