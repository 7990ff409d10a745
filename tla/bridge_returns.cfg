CONSTANTS
  Glyph = {"echo"}
  Cards <- RaisingCards
  NoCard = NoCard
  NoPin = NoPin
  NoBinding = NoBinding
  TofuEnabled = TRUE
  TofuMax = "safe"
  AttestationRequire = "danger"
  AutoRepinReview = TRUE
  Syncer = "sync"
  Command = {"cmd"}
  Actor = {"sync", "cmd"}
  Call = {"call"}
  Proc = {"hermes"}
  ProcOf <- OneProcess
  WriteFaults = TRUE
  Crashes = FALSE
  ReceiptsVerify = TRUE
  OnFailureBlock = FALSE
  MaxSync = 2
  MaxDeploy = 0
SPECIFICATION FairBridgeSpec
PROPERTY EverythingReturns
CHECK_DEADLOCK FALSE
