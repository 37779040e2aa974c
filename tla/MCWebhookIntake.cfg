SPECIFICATION FairSpec
CONSTANTS
  a = a
  b = b
  r1 = r1
  r2 = r2
  qa = qa
  ja = ja
  ia = ia
  ca = ca
  pb = pb
  Runs = {a, b}
  Repos = {r1, r2}
  RepoOf <- MCRepoOf
  Signed = {r1}
  Allowed = {r1}
  Events = {qa, ja, ia, ca, pb}
  RunOf <- MCRunOf
  AttemptOf <- MCAttemptOf
  ActionOf <- MCActionOf
  MaxAttempts = 1
  Final = {ca}
  MaxPolls = 1
  MaxJobs = 2
  NoEvent = NoEvent
  Free = Free
  Handler = Handler
  Monitor = Monitor
  Outside = Outside
INVARIANTS
  TypeOK
  OpenGroupsHaveTimers
  OneScaleUp
PROPERTIES
  ImplementsEventGroups
  DroppedOnlyAfterMaxPolls
  RequestsAnswered
  GroupsClose
  CompletedRunsForgotten
CHECK_DEADLOCK FALSE
