SPECIFICATION FairSpec
CONSTANTS
  HasPassword = FALSE
  MayCrash = TRUE
  MayOutlive = TRUE
  MayOverlap = FALSE
  MayCancel = TRUE
  MaxLogins = 3
  MaxRotations = 2
INVARIANT IssuesCleared
PROPERTIES HandoffReachesStore SetupEnds
CHECK_DEADLOCK FALSE
