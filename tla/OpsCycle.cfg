SPECIFICATION CycleSpec
CONSTANTS
  Declared = {d1, d2}
  Undeclared = {u}
  Contents = {c1, c2}
  Absent = Absent
  Other = d2
  PageSize = 4
  MaxId = 4
  MaxTeardowns = 2
  MaxFaults = 1
  MaxOthers = 1
INVARIANT OneFailureLeavesNothing
