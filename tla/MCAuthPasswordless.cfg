SPECIFICATION FairSpec
CONSTANTS
  Requests = {r1, r2}
  Free = Free
  HasPassword = FALSE
  StoreMayFail = TRUE
  MaxTokens = 3
  MaxRotation = 0
  MaxGeneration = 2
INVARIANT IInv
PROPERTY EveryCallReturns
