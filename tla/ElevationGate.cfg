SPECIFICATION GateSpec
CONSTANTS
  Subjects = {s1}
  Procs = {p1}
  Checks = {c1}
  Destructive = {"Deployment.Delete"}
  Harmless = {"Deployment.PowerOn"}
  NoOwner = NoOwner
  TopRole = 0
  MaxHours = 1
  MaxAge = 1
  NoBinding = NoBinding
  Custom = Custom
  NoGrant = NoGrant
  MaxGrants = 2
  MaxClock = 1
  MaxFaults = 1
  MaxEdits = 1
SYMMETRY SubjectSymmetry
PROPERTY RevokedIsDenied
