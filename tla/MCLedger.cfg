\* One family and what is published on its head; two families and what relates them.
SPECIFICATION MCSpec
CONSTANTS
  MaxFamily = 2
  MaxRevision = 3
  MaxProposal = 3
  MaxTime = 5
  Ttl = 2
  v1 = v1
  a1 = a1
  noAlias = noAlias
  Values = {v1}
  LegacyIds = {a1}
  NoAlias = noAlias
  Contents <- MCContents
  RelationTypes = {"RELATED_TO"}
  Keys = {}
  Requesters = {"op1"}
  Operators = {"op1", "op2"}
  Operations = {"create", "create_and_link", "update", "rollback", "invalidate", "archive", "link"}
INVARIANTS TypeOK LinearHistory Authorized EffectiveFollowsHead ScheduledKeepsPredecessor OutboxFollowsLineage RelationsAsApproved
PROPERTIES RevisionsAreImmutable HistoryIsStable ImplementsReviewedLog
CHECK_DEADLOCK FALSE
