SPECIFICATION Spec
CONSTANTS
  Contracts = {c1, c2}
  Tabs = {t1}
  MaxNames = 2
INVARIANTS TypeOK SelectionUsable EntitiesFollowSelection
PROPERTIES KeysStable ReauthKeepsSelection HiddenIsNotMissing EntitiesOfSelectedKept
CHECK_DEADLOCK FALSE
