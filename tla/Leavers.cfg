SPECIFICATION Spec
CONSTANTS
  a1 = a1 a2 = a2 l1 = l1 g1 = g1 g2 = g2 t1 = t1 t2 = t2
  Accounts = {a1, a2, l1}
  Federated = {a1, a2}
  Tokens = {t1, t2}
  Standings <- MCStandings
  Gates <- MCGates
  Starts <- MCStarts
  ConfirmReads = 3
  Settle = 2
  MaxLeavers = 1
  Nobody = Nobody
  MaxOthers = 1
  MaxFaults = 1
INVARIANTS TypeOK HeldIsClosed ReturnedIsSpared CleanExitMeansClosed
