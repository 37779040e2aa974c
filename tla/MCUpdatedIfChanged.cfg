SPECIFICATION MCSpec
CONSTANTS
  Clients = {s1}
  Reserve = 4
  Repos = {r1}
  NoRepo = NoRepo
  RepoName = r1
  Unguarded = 1
  MaxStarts = 1
  MaxLost = 0
INVARIANT UpdatedIfChanged
CHECK_DEADLOCK FALSE
