SPECIFICATION Spec
CONSTANTS
  Runs = {"r1"}
  Together = 1
  MaxOthers = 1
  MaxFaults = 1
  Realms = {"a", "b"}
  MaxClients = 2
  MaxTokens = 3
  VCs = {"v", "w"}
  Names = {"n"}
  MaxRoles = 2
  MaxAccounts = 2
  Keys = {"oid", "upn"}
  MaxIds = 4
INVARIANTS TypeOK MadeIsRecorded ExitZeroIsTrue
PROPERTIES ActsOnlyOnItsOwn InUseIsSpared
\* The counters reach their bounds.
CHECK_DEADLOCK FALSE
