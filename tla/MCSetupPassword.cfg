SPECIFICATION Spec
CONSTANTS
  HasPassword = TRUE
  MayCrash = FALSE
  MayOutlive = FALSE
  MayOverlap = TRUE
  MayCancel = FALSE
  MaxLogins = 6
  MaxRotations = 1
INVARIANTS CleanedUp LoginsBounded StoreFollowsSession
PROPERTIES RejectionEndsSetup StoreNeverReverts
CHECK_DEADLOCK FALSE
