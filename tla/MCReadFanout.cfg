SPECIFICATION FairSpec
CONSTANTS
  Calls = {"c1", "c2"}
  Mailboxes = {"m1", "m2", "m3"}
  Folders = {"fa", "fp", "ft"}
  Enabled = {"m1", "m2"}
  AllSelectable = {"m1"}
  Allowed = {"fp"}
  Kind <- Kinds
  Contents <- Mails
  Attached = {1}
  KeyOf <- Keys
  FanoutLimit = 2
  MailboxLimit = 1
  ResultLimit = 2
  Window = 2
  Listings = {{"fa", "fp", "ft"}, {"fa"}}
  MaxReads = 2
  Requests <- Asked
  Selections <- Scopes
INVARIANTS TypeOK AnswersAccountForAll NothingSilentlyLeftOut
PROPERTIES CallsAreAnswered PermitsArePooled
