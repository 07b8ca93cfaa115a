SPECIFICATION CaseSpec
CONSTANTS
  Message <- AllMessages
  AI <- AIAnswers
  Asked = {0}
  Total = {8, 25}
  Policies <- Sets
  Limit = 10
  Absent = Absent
INVARIANTS
  HighRefundAnswered
CHECK_DEADLOCK FALSE
