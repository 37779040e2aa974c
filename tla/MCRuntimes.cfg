SPECIFICATION FairSpec
CONSTANTS
  runnerImage = runnerImage
  oldImage = oldImage
  newImage = newImage
  layer = layer
  Ids = {c1, c2}
  None = None
  Images = {runnerImage, oldImage, newImage, layer}
  RunnerImage = runnerImage
  Created <- MCCreated
  Tagged = {runnerImage, oldImage, newImage}
  Aged = {runnerImage, oldImage, layer}
  MaxUnusedImages = 1
  Archs = {amd64}
  NodeArchs = {amd64}
INVARIANTS
  TypeOK
  ImagesInUseStay
PROPERTIES
  FewUnusedImagesLeft
  YoungImagesGoLast
  OldCleanupSparesWork
  ClaimsInUseStay
  StaleRunnersRemoved
CHECK_DEADLOCK FALSE
