SPECIFICATION FairSpec
CONSTANTS
  MaxIssued = 4
  MaxStrays = 2
INVARIANTS TypeOK RefusalExplained SuccessInStep
PROPERTY ImplementsExchange
