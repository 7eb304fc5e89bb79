SPECIFICATION Spec
CONSTANTS
  Windows = {w1, w2}
  Slots = {r1, r2}
  Mailboxes = {m1, m2}
  Settings = {a1}
  Credentials = {c1}
  Operations = {"create", "test", "deleteAll"}
  MaxMailboxes = 1
  TTL = 2
  MaxTokens = 5
  MaxTime = 1
  MaxLost = 1
  None = None
SYMMETRY Alike
INVARIANT TypeOK
PROPERTIES LateVerdictsAreChecked TokensAreAcceptedOnceInTime
CHECK_DEADLOCK FALSE
