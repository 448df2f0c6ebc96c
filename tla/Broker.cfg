SPECIFICATION FairSpec
CONSTANTS
  Subjects = {s1}
  Procs = {p1}
  Destructive = {}
  TopRole = 3
  MaxHours = 1
  MaxAge = 1
  NoBinding = NoBinding
  Custom = Custom
  NoGrant = NoGrant
  MaxGrants = 2
  MaxClock = 1
  MaxFaults = 2
  MaxEdits = 1
INVARIANTS TypeOK BaselineWasOwned
PROPERTIES RecordMovesForward ClosedIsReverted KeepsContract
