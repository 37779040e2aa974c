SPECIFICATION MCSpec
CONSTANTS
  o1 = o1
  o2 = o2
  r1 = r1
  r2 = r2
  NameOf <- DistinctNames
  Owners = {o1, o2}
  Repos = {r1, r2}
  OwnerOf <- MCOwnerOf
  MaxRunners <- MCMaxRunners
  AttributedTo <- AttributedByName
  Lower <- MCLower
  Dash = "-"
  MaxOwnerLen = 2
  Goroutines = {g1, g2}
  RunnerIds = {i1, i2, i3}
  MaxJobs = 1
  Free = Free
  NoOwner = NoOwner
  NoRepo = NoRepo
  NoRequest = NoRequest
SYMMETRY Symmetry
INVARIANTS
  OwnRunnersMatch
  ExactUnlessAlike
  OwnerCapacity
PROPERTY ImplementsOwnerPool
CHECK_DEADLOCK FALSE
