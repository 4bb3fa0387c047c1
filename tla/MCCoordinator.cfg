SPECIFICATION FairSpec
CONSTANTS
  N = 3
  MaxMonth = 2
INVARIANTS TypeOK DataComplete ShownIsCurrent IssueReflectsData
PROPERTIES IssueClearedByWholeRefresh Recovers
CHECK_DEADLOCK FALSE
