\* Migrations, usages and restores around two memories that are revised.
SPECIFICATION IntakeSpec
CONSTANTS
  MaxFamily = 2
  MaxRevision = 3
  MaxProposal = 2
  MaxTime = 3
  Ttl = 9
  v1 = v1
  v2 = v2
  a1 = a1
  noAlias = noAlias
  Values = {v1, v2}
  LegacyIds = {a1}
  NoAlias = noAlias
  Contents <- MCContents
  RelationTypes = {}
  Keys = {}
  Requesters = {"op1"}
  Operators = {"op2"}
  Operations = {"create", "update"}
  Listings <- MCListings
  UsageKeys = {"k1"}
  MaxRuns = 2
  MaxUsages = 2
INVARIANTS LinearHistory ContestedIdentifiersDoNotResolve UsageCountedOnce
CHECK_DEADLOCK FALSE
