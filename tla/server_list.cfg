CONSTANTS
  Alias = {"a", "b"}
  BadAlias = "Bad Alias!"
  Url = {"", "one", "two"}
  Token = {"", "TOKEN"}
  Setting = {"receipts", "attestation"}
  Value = {"usual", "other"}
  BadValue = "explode"
  Unset = "unset"
  BuiltIn <- Usual
  FlagSetting = {"attestation"}
  Process = {"p1", "p2"}
  NoFile = NoFile
  OwnerDocs <- Lists
  MaxEdits = 1
SPECIFICATION Spec
INVARIANTS TypeOK LoadsOrOwners
PROPERTY UpdatesAreExact
CHECK_DEADLOCK FALSE
