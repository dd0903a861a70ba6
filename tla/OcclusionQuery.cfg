SPECIFICATION Spec
CONSTANTS
  c1 = c1
  c2 = c2
  Cameras = {c1, c2}
  Ctx <- MCCtx
  QueryFrameCount = 2
  Hooked = {c2}
  Ids = {1, 2}
  FirstFrame = 2
  MaxFrame = 6
  MaxReleases = 2
INVARIANTS TypeOK HandleOwnedOnce
PROPERTIES CulledOnEvidence ReappearsInTime
CHECK_DEADLOCK FALSE
CONSTRAINT Bound
