\* A rebuild beside one worker, and no fault.
SPECIFICATION RebuildSpec
CONSTANTS
  MaxFamily = 1
  MaxRevision = 2
  MaxProposal = 2
  MaxTime = 4
  Ttl = 9
  v1 = v1
  noAlias = noAlias
  Values = {v1}
  LegacyIds = {}
  NoAlias = noAlias
  Contents <- MCExpiring
  RelationTypes = {}
  Keys = {}
  Requesters = {"op1"}
  Operators = {"op2"}
  Operations = {"update", "invalidate"}
  Workers = {"w1"}
  MaxAttempts = 2
  MaxFaults = 0
  MaxRebuilds = 1
INVARIANTS SettledPointsAreActive
CHECK_DEADLOCK FALSE
