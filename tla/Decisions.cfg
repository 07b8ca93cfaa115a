SPECIFICATION CaseSpec
CONSTANTS
  Message <- AllMessages
  AI <- AIAnswers
  Asked = {0, 5}
  Total = {8, 25}
  Policies <- Sets
  Limit = 10
  Absent = Absent
INVARIANTS
  GatesAgree
  RiskyRefundAnswered
  WishRespected
CHECK_DEADLOCK FALSE
