SPECIFICATION Spec
CONSTANTS
  p1 = p1 p2 = p2 p3 = p3 ops = ops vcfa = vcfa
  Procs = {p1, p2, p3}
  Identities = {ops, vcfa}
  IdentityOf <- MCIdentityOf
  Nobody = Nobody
  Life = 3
  Buffer = 1
  MintDelay = 1
  OpenTogether = 2
  MaxClock = 4
  MaxMints = 2
  MaxTokenFaults = 1
  Objects = {o1, o2, o3, o4}
  Size = 2
  MaxPages = 4
  MaxChanges = 2
  Demos = {1, 2}
  DemosTogether = 2
  MaxFaults = 3
INVARIANTS TypeOK RefusedWasFresh WholeWhenStill CleanExit
PROPERTY ReusedHasLife
CHECK_DEADLOCK FALSE
