SPECIFICATION Spec
CONSTANTS
  Contracts = {c1, c2}
  Tabs = {t1, t2}
  MaxNames = 2
PROPERTY KeysStable
CHECK_DEADLOCK FALSE
