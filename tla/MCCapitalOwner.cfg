SPECIFICATION Spec
CONSTANTS
  o1 = o1
  r1 = r1
  NameOf <- CapitalName
  Owners = {o1}
  Repos = {r1}
  OwnerOf <- MCOwnerOf
  MaxRunners <- MCMaxRunners
  AttributedTo <- AttributedByName
  Lower <- MCLower
  Dash = "-"
  MaxOwnerLen = 6
  Goroutines = {g1, g2}
  RunnerIds = {i1, i2}
  MaxJobs = 1
  Free = Free
  NoOwner = NoOwner
  NoRepo = NoRepo
  NoRequest = NoRequest
SYMMETRY Symmetry
INVARIANT OwnerCapacity
