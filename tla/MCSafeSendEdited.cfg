SPECIFICATION Spec
CONSTANTS
  Mailboxes = {m1}
  Drafts = {d1}
  DirectKeys = {}
  Payloads = {p1, p2}
  p1 = p1
  p2 = p2
  Callers = {c1, c2}
  PolicyInputs <- DraftPolicies
  DefaultPolicy <- DraftOnly
  MaxVersion = 2
  MaxPolicyVersion = 0
  MaxCrashes = 0
  None = None
SYMMETRY CallersAreAlike
INVARIANT SentDraftIsWhatWasSent
