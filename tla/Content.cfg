SPECIFICATION FairSpec
CONSTANTS
  Declared = {d1}
  Undeclared = {u}
  Contents = {c1, c2}
  PageSize = 5
  MaxId = 5
  MaxTeardowns = 1
  Hosts = {h1, h2}
  Dwell = 2
  Postures = 2
  Teams = 1
  Symptoms = {s1}
  Alerts = {a1, a2}
  MaxSends = 2
  VMs = {m1, m2}
  Values = {x, y}
  Absent = Absent
  MaxOthers = 1
  MaxFaults = 2
  MaxMoves = 1
  MaxFailures = 1
INVARIANTS TypeOK ConvergedAsDeclared TornDownIsGone
PROPERTIES SparesTheRest GetsThere
