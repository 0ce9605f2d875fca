\* Each service with its clients, two or three at once, and its failures.
SPECIFICATION ServicesSpec
CONSTANTS
  a1 = a1
  a2 = a2
  m1 = m1
  Events <- MCActors
  Fingerprints = {"p", "q"}
  Files = {"f1"}
  Pulls <- MCPulls
  MaxFixes = 1
  Window = 2
  MaxClock = 4
  Callers = {"c1", "c2"}
  Threshold = 2
  Recovery = 2
  MaxTicks = 4
  MaxFailures = 4
  Tasks <- MCActors
  Procedures = {"p1", "p2"}
  Memories = {m1}
  Outcomes = {"completed", "failed"}
  Describe <- MCDescribe
  MaxRevisions = 2
  MaxRaises = 1
  Scans <- MCActors
  Repos <- MCRepos
  PullsOf <- MCPullsOf
  Today <- MCToday
  Page = 2
  CatalogClients <- MCActors
  Bundles <- MCBundles
  Commands <- MCCommands
  Unlinked <- MCUnlinked
  Discards <- MCDiscards
  Legacy <- MCLegacy
  MaxNodes = 4
  MaxJobs = 2
  Recorded <- MCRecorded
  Summary <- MCSummary
  Heavy = {"a", "c"}
  Relations <- MCRelations
  TopK = 1
  Multiplier = 2
  MaxSeeds = 2
  MaxChanges = 1
INVARIANTS FixesWereAdmitted PullsAreTraced ResolvedUntilSeenAgain ClosedBelowThreshold CreditedOnce EveryRepoIsAccounted ImportsAreWhole RoundTrip ActivationIsDistance CalmSearchIsExact
SYMMETRY MCSymmetry
CHECK_DEADLOCK FALSE
