SPECIFICATION FairSpec
CONSTANTS
  Requests = {r1, r2}
  Free = Free
  HasPassword = TRUE
  StoreMayFail = TRUE
  MaxTokens = 3
  MaxRotation = 0
  MaxGeneration = 0
INVARIANTS RecoveryTargetsRefusedSession StoreMatchesCurrent
PROPERTIES SessionNeverReverts CookiesNotOlder ImplementsRenewal EveryCallReturns
