SPECIFICATION Spec
CONSTANTS
  Windows = {w1}
  Texts = {t1, t2}
  Files = {f1}
  Slots = {s1, s2}
  Patience = {TRUE, FALSE}
  MaxVersion <- Versions
  MaxConfirmations <- Confirmations
  MaxLost <- LostCalls
  None = None
SYMMETRY SlotsAreAlike
INVARIANTS TypeOK FinalClickFollowsTheCalls ScreenIsWhatIsSent
CHECK_DEADLOCK FALSE
