CONSTANTS
  Glyph = {"echo"}
  Cards <- BreakingCards
  NoCard = NoCard
  NoPin = NoPin
  NoBinding = NoBinding
  TofuEnabled = TRUE
  TofuMax = "safe"
  AttestationRequire = "danger"
  AutoRepinReview = TRUE
  Syncer = "sync"
  Command = {"cmd"}
  Actor = {"sync", "cmd"}
  Call = {"call"}
  Proc = {"hermes"}
  ProcOf <- OneProcess
  WriteFaults = FALSE
  Crashes = FALSE
  ReceiptsVerify = TRUE
  OnFailureBlock = TRUE
  MaxSync = 2
  MaxDeploy = 2
SPECIFICATION BridgeSpec
INVARIANTS BridgeTypeOK PinsEndorsed AnswersEndorsed QueueDurable RaisesOnlyWhenMixed
  CallableEndorsed CallableMatchesStore ConfirmedExecution ReleasedIsEndorsed ShownIsApproved
PROPERTY QueueIntact
CHECK_DEADLOCK FALSE
