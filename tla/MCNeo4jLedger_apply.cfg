\* An apply of an approved proposal.
SPECIFICATION MCSpec
CONSTANTS
  c1 = c1
  c2 = c2
  o1 = o1
  o2 = o2
  Clients = {c1, c2}
  Keys = {"k1"}
  NoKey = "none"
  Previews = {1, 2}
  Snapshots <- MCSnapshots
  Operators = {o1, o2}
  Listings <- MCListings
  MaxProposal = 2
  MaxApproval = 2
  MaxLost = 1
  MaxRuns = 2
  MaxTime = 3
  Ttl = 1
INVARIANTS RefusalsAreTrue
CHECK_DEADLOCK FALSE
