SPECIFICATION FairSpec
CONSTANTS
  None = None
  d1 = d1
  d2 = d2
  Callers = {d1, d2}
  MaxAnswers = 3
INVARIANTS OneReceiptInFlight BadAnswerIsForgotten
PROPERTIES CallsReturn
CHECK_DEADLOCK FALSE
