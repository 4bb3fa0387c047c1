SPECIFICATION Spec
CONSTANTS
  Names = {"JSESSIONID"}
  Allowed = {"JSESSIONID"}
  Values = {"v", ""}
  MaxTime = 3
  MaxCookies = 2
  MayDisagree = FALSE
INVARIANT RestartUnseen
