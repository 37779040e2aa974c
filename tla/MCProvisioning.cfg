SPECIFICATION FairSpec
CONSTANTS
  a = a
  b = b
  ja = ja
  jb = jb
  jc = jc
  r1 = r1
  sh = sh
  x64 = x64
  amd64 = amd64
  arm64 = arm64
  gpu = gpu
  aarch64 = aarch64
  Jobs = {ja, jb, jc}
  RunIds = {a, b}
  Repos = {r1}
  RunOf <- MCRunOf
  RepoOf <- MCRepoOf
  LabelsOf <- MCLabelsOf
  Protected = {jc}
  SelfHosted = sh
  ArchLabels = {x64, amd64, arm64, aarch64}
  HostLabels = {x64, amd64}
  OtherArch = {arm64}
  DefaultLabels = {sh}
  OwnerLabels = {}
  RunnerIds = {i1, i2}
  MaxRunners = 1
  Scanner = Scanner
  Callers = {c1}
  MaxCalls = 1
  NoJob = NoJob
  NoRunner = NoRunner
  NoRepo = NoRepo
INVARIANTS
  TypeOK
  Capacity
  FailuresNeedAnotherRun
PROPERTIES
  ImplementsOwnerPool
  ScannerKeepsLabels
  CompatibleJobsRun
CHECK_DEADLOCK FALSE
