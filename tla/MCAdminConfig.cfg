SPECIFICATION FairSpec
CONSTANTS
  Clients = {"c1", "c2"}
  Mailboxes = {"m1"}
  Forms <- OneForm
  Gives <- SomeGive
  FolderChoices = {{}, {"g"}}
  MaxRequests = 2
INVARIANTS TypeOK SettingsHaveTheirSecrets AuditIsTruthful
PROPERTIES ChangesAreSerial RequestsAreAnswered
CHECK_DEADLOCK FALSE
