SPECIFICATION Spec
CONSTANTS
  Windows = {w1, w2}
  Texts = {t1}
  Files = {}
  Slots = {s1}
  Patience = {FALSE}
  MaxVersion <- VersionsOfTwo
  MaxConfirmations <- ConfirmationsOfTwo
  MaxLost <- LostCallsOfTwo
  None = None
SYMMETRY WindowsAreAlike
PROPERTY NoBlindOverwrite
CHECK_DEADLOCK FALSE
