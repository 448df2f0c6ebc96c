SPECIFICATION FairSpec
CONSTANTS
  Registries = {r1, r2}
  Rests = {t1}
  Scopes = {s1, s2}
  Absent = Absent
  MaxPolls = 2
  MaxRemoves = 1
  MaxId = 4
  MaxTeardowns = 1
  MaxOthers = 1
  MaxFaults = 2
INVARIANTS TypeOK ExitZeroIsTrue
PROPERTIES RunningIsSpared BoundInTheEnd
