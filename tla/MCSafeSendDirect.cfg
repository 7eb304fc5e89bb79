SPECIFICATION Spec
CONSTANTS
  Mailboxes = {m1, m2}
  Drafts = {}
  DirectKeys = {k1}
  Payloads = {p1, p2}
  p1 = p1
  p2 = p2
  Callers = {c1, c2}
  PolicyInputs <- DirectPolicies
  DefaultPolicy <- DraftOnly
  MaxVersion = 1
  MaxPolicyVersion = 1
  MaxCrashes = 1
  None = None
SYMMETRY CallersAreAlike
INVARIANTS AtMostOnce OutcomeIsServersAnswer ReceiptsMatchOperations
PROPERTY ImplementsLedger
