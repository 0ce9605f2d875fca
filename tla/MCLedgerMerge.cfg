\* Merges, their conflicts, the merges undone, and runs of the consolidation.
SPECIFICATION MCSpec
CONSTANTS
  MaxFamily = 2
  MaxRevision = 4
  MaxProposal = 5
  MaxTime = 7
  Ttl = 9
  v1 = v1
  v2 = v2
  v3 = v3
  j1 = j1
  j2 = j2
  noAlias = noAlias
  Values = {v1, v2, v3}
  LegacyIds = {}
  NoAlias = noAlias
  Contents <- MCContents
  RelationTypes = {"RELATED_TO"}
  Keys <- MCKeys
  Requesters = {"op1"}
  Operators = {"op2"}
  Operations = {"update", "link", "merge", "unmerge", "resolve_conflict"}
  Jobs = {j1, j2}
  Worker = "worker"
  Similar <- MCSimilar
  Context <- MCContext
  Rank <- MCRank
  MaxStarts = 2
INVARIANTS MergedFamiliesForward ForksAreUndone LinksAreUnique SuggestedOnce
PROPERTIES UnmergeRestores HeadNumbersGrow
SYMMETRY MCSymmetry
CHECK_DEADLOCK FALSE
