SPECIFICATION Spec
CONSTANTS
  MaxUid = 4
  MaxValidity = 2
  MaxFlips = 1
  FirstUids = {1, 2, 3}
  PageLimits = {1, 2}
  Windows = {1, 2}
  SourceMax = 2
  Length <- Lengths
  SearchAnswers = {"found"}
  Operations = {"page"}
INVARIANT CompleteReviewIsComplete
CHECK_DEADLOCK FALSE
