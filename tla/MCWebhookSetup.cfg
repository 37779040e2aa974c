SPECIFICATION MCSpec
CONSTANTS
  Clients = {s1, s2}
  Reserve = 4
  Repos = {r1}
  NoRepo = NoRepo
  RepoName = r1
  Unguarded = 1
  MaxStarts = 3
  MaxLost = 1
INVARIANTS
  TypeOK
  SuccessMeansHook
  OneHook
  ReserveKept
PROPERTIES
  HookNeverLost
  SetupsEnd
CHECK_DEADLOCK FALSE
