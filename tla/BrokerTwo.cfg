SPECIFICATION Spec
CONSTANTS
  Subjects = {s1, s2}
  Procs = {p1}
  Destructive = {}
  TopRole = 2
  MaxHours = 1
  MaxAge = 1
  NoBinding = NoBinding
  Custom = Custom
  NoGrant = NoGrant
  MaxGrants = 2
  MaxClock = 3
  MaxFaults = 1
  MaxEdits = 0
SYMMETRY SubjectSymmetry
INVARIANTS RaisedIsRecorded ElevationBounded
