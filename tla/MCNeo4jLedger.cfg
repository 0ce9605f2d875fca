\* Two callers race for a key, a decision and a usage; answers are lost.
SPECIFICATION MCSpec
CONSTANTS
  c1 = c1
  c2 = c2
  o1 = o1
  o2 = o2
  Clients = {c1, c2}
  Keys = {"k1"}
  NoKey = "none"
  Previews = {1, 2}
  Snapshots <- MCSnapshots
  Operators = {o1, o2}
  Listings <- MCListings
  MaxProposal = 2
  MaxApproval = 2
  MaxLost = 1
  MaxRuns = 2
  MaxTime = 3
  Ttl = 1
INVARIANTS OneProposalPerKey UsageCountedOnce ContestedIdentifiersDoNotResolve ReadingsAgree
PROPERTIES LateDecisionsAreRefused
SYMMETRY MCSymmetry
CHECK_DEADLOCK FALSE
