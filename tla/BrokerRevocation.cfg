SPECIFICATION Spec
CONSTANTS
  Subjects = {s1}
  Procs = {p1, p2}
  Destructive = {}
  TopRole = 2
  MaxHours = 1
  MaxAge = 1
  NoBinding = NoBinding
  Custom = Custom
  NoGrant = NoGrant
  MaxGrants = 1
  MaxClock = 0
  MaxFaults = 0
  MaxEdits = 0
PROPERTY RevocationKept
