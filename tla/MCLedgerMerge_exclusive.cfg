\* A conflict case resolved, drafted again and resolved again.
SPECIFICATION MCAgainSpec
CONSTANTS
  MaxFamily = 2
  MaxRevision = 4
  MaxProposal = 6
  MaxTime = 6
  Ttl = 9
  v1 = v1
  v2 = v2
  v3 = v3
  j1 = j1
  j2 = j2
  noAlias = noAlias
  Values = {v1, v2, v3}
  LegacyIds = {}
  NoAlias = noAlias
  Contents <- MCContents
  RelationTypes = {"RELATED_TO"}
  Keys <- MCKeys
  Requesters = {"op1"}
  Operators = {"op2"}
  Operations = {"update", "link", "merge", "unmerge", "resolve_conflict"}
  Jobs = {j1, j2}
  Worker = "worker"
  Similar <- MCSimilar
  Context <- MCContext
  Rank <- MCRank
  MaxStarts = 2
INVARIANTS ResolutionsAreExclusive
SYMMETRY MCSymmetry
CHECK_DEADLOCK FALSE
