\* An invalidation after a scheduled update.
SPECIFICATION MCRetirementSpec
CONSTANTS
  MaxFamily = 1
  MaxRevision = 3
  MaxProposal = 3
  MaxTime = 6
  Ttl = 9
  v1 = v1
  a1 = a1
  noAlias = noAlias
  Values = {v1}
  LegacyIds = {a1}
  NoAlias = noAlias
  Contents <- MCContents
  RelationTypes = {"RELATED_TO"}
  Keys = {}
  Requesters = {"op1"}
  Operators = {"op1", "op2"}
  Operations = {"create", "create_and_link", "update", "rollback", "invalidate", "archive", "link"}
INVARIANTS RetiredMemoriesAreNotEffective
CHECK_DEADLOCK FALSE
