CONSTANTS
  Glyph = {"echo"}
  Cards <- TwoCards
  NoCard = NoCard
  NoPin = NoPin
  NoBinding = NoBinding
  TofuEnabled = TRUE
  TofuMax = "safe"
  AttestationRequire = "none"
  AutoRepinReview = TRUE
  Syncer = "sync"
  Command = {"cmd"}
  Actor = {"sync", "cmd"}
  Call = {}
  Proc = {"hermes"}
  ProcOf <- OneProcess
  WriteFaults = FALSE
  Crashes = FALSE
  ReceiptsVerify = TRUE
  OnFailureBlock = TRUE
  MaxSync = 2
  MaxDeploy = 1
SPECIFICATION BridgeSpec
INVARIANT RevokedNotCallable
CHECK_DEADLOCK FALSE
