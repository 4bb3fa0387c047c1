SPECIFICATION Spec
CONSTANTS
  FirstMonth = 202512
  LastMonth = 202601
  Asked <- MCSomeAsked
  Lengths = {0, 3, 13}
  Options = {0, 2}
INVARIANTS TypeOK AnswerIsNewestAndAsked ComparesCalendarMonths MonthsRefusedRightly
