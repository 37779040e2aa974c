SPECIFICATION HistorySpec
CONSTANTS
  o1 = o1
  Limit = 1
  Owners = {o1}
  Repos = {r1}
  OwnerOf <- MCOwnerOf
  MaxRunners <- MCMaxRunners
  AttributedTo <- MCAttributedTo
  Goroutines = {g1}
  RunnerIds = {i1}
  MaxJobs = 1
  Free = Free
  NoOwner = NoOwner
  NoRepo = NoRepo
  NoRequest = NoRequest
SYMMETRY Symmetry
INVARIANT RetryLimit
