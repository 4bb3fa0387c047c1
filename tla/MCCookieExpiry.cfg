SPECIFICATION Spec
CONSTANTS
  Names = {"JSESSIONID", "WMONID"}
  Allowed = {"JSESSIONID"}
  Values = {"v", ""}
  MaxTime = 2
  MaxCookies = 2
  MayDisagree = TRUE
INVARIANT OnlyUnexpiredRestored
