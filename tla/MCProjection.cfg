\* One worker, or two beside a rebuild, with failures, crashes and slow work.
SPECIFICATION MCSpec
CONSTANTS
  MaxFamily = 1
  MaxRevision = 2
  MaxProposal = 2
  MaxTime = 4
  Ttl = 9
  v1 = v1
  noAlias = noAlias
  Values = {v1}
  LegacyIds = {}
  NoAlias = noAlias
  Contents <- MCExpiring
  RelationTypes = {}
  Keys = {}
  Requesters = {"op1"}
  Operators = {"op2"}
  Operations = {"update", "invalidate"}
  Workers = {"w1", "w2"}
  MaxAttempts = 2
  MaxFaults = 2
  MaxRebuilds = 1
INVARIANTS AloneSettlesActive
PROPERTIES OnlyTheHolderSettles EveryEventIsSettled AloneConverges
CHECK_DEADLOCK FALSE
