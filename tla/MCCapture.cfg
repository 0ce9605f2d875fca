\* Two hooks capture one commit and candidates without one.
SPECIFICATION CaptureSpec
CONSTANTS
  MaxFamily = 2
  MaxRevision = 2
  MaxProposal = 2
  MaxTime = 3
  Ttl = 9
  v1 = v1
  v2 = v2
  a1 = a1
  a2 = a2
  h1 = h1
  h2 = h2
  noAlias = noAlias
  Values = {v1, v2}
  LegacyIds = {a1, a2}
  NoAlias = noAlias
  Contents <- MCContents
  RelationTypes = {}
  Keys <- MCKeys
  Requesters = {"agent"}
  Operators = {"op1"}
  Operations = {}
  Hooks = {h1, h2}
  Commits = {"c1"}
  Manual = "manual"
  Candidates <- MCCandidates
  Extractions <- MCExtractions
  Similar <- MCSimilar
  MaxCrashes = 1
INVARIANTS CapturedOnce NeverOverwritesAnother
SYMMETRY MCSymmetry
CHECK_DEADLOCK FALSE
