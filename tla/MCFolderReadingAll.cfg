SPECIFICATION Spec
CONSTANTS
  MaxUid = 3
  MaxValidity = 2
  MaxFlips = 1
  FirstUids = {1, 2}
  PageLimits = {1, 2}
  Windows = {1, 2}
  SourceMax = 2
  Length <- Lengths
  SearchAnswers = {"found", "refused"}
  Operations = {"page", "message", "raw", "attachment", "probe"}
INVARIANTS TypeOK ReviewWalksEveryUid PiecesMakeTheSource ReadsArePeeks
PROPERTY CursorsAdvance
CHECK_DEADLOCK FALSE
