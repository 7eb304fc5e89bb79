SPECIFICATION FairSpec
CONSTANTS
  Mailboxes = {m1}
  Drafts = {d1}
  DirectKeys = {k1}
  Payloads = {p1, p2}
  p1 = p1
  p2 = p2
  Callers = {c1, c2}
  PolicyInputs <- LimitPolicies
  DefaultPolicy <- DraftOnly
  MaxVersion = 3
  MaxPolicyVersion = 1
  MaxCrashes = 0
  None = None
INVARIANTS TypeOK ConfirmationsAreCurrent SentDraftsWereAccepted NothingOutlivesItsMailbox
PROPERTIES SubmissionsSpendAConfirmation RateLimitsHold SubmissionsSettle
