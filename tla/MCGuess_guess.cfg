SPECIFICATION Spec
CONSTANTS
  upper_bound = 100
  Answers <- AnyAnswer
  MaxTicks = 10
  MaxGuessers = 2
INVARIANT TypeOK
INVARIANT AnswerInside
INVARIANT FoundInTime
CHECK_DEADLOCK FALSE
