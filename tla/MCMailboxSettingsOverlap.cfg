SPECIFICATION Spec
CONSTANTS
  Windows = {w1, w2}
  Slots = {r1, r2}
  Mailboxes = {m1}
  Settings = {a1, a2}
  Credentials = {c1, c2}
  Operations = {"list", "create", "update", "test", "replace", "enable", "disable", "delete", "deleteAll"}
  MaxMailboxes = 1
  TTL = 1
  MaxTokens = 5
  MaxTime = 0
  MaxLost = 0
  None = None
SYMMETRY Alike
PROPERTY UntestedOnlyByOverlap
CHECK_DEADLOCK FALSE
