SPECIFICATION Spec
CONSTANTS
  Minute = 3
  MaxFaults = 1
  Minutes = 3
  Delay = 2
  Intervals = {1, 2}
  Creds = {c1, c2}
  Hints = {h1, h2}
  EndsAt = {5, 8}
  Tenth = 3
  WarnDays = 1
  Period = 3
  Horizon = 8
  MaxActs = 3
  Count = 3
  Tenants = {t, u}
  Outside = x
  Elsewhere = y
  MaxChanges = 1
  CensusHour = 2
  CensusDay = 6
  MaxGap = 1
  Span = 6
  CoverHours = 2
  Cycle = 6
  Lengths = {4, 5}
  Lag = 1
  VCs = {v1, v2}
  JobAt = v1
  LastStart = 10
INVARIANTS TypeOK ExitIsTrue EndIsForetold
CHECK_DEADLOCK FALSE
