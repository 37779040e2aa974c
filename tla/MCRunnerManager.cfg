SPECIFICATION Spec
CONSTANTS
  o1 = o1
  Limit = 2
  Owners = {o1}
  Repos = {r1, r2}
  OwnerOf <- MCOwnerOf
  MaxRunners <- MCMaxRunners
  AttributedTo <- MCAttributedTo
  Goroutines = {g1, g2}
  RunnerIds = {i1, i2, i3}
  MaxJobs = 2
  Free = Free
  NoOwner = NoOwner
  NoRepo = NoRepo
  NoRequest = NoRequest
SYMMETRY Symmetry
INVARIANTS
  TypeOK
  OwnerCapacity
  CapacityInv
  RetriesInFlight
PROPERTIES
  FullOwnersKeepRequests
  ImplementsOwnerPool
