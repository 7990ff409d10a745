CONSTANTS
  Glyph = {"echo"}
  Cards <- AllCards
  NoCard = NoCard
  NoPin = NoPin
  TofuEnabled = TRUE
  TofuMax = "safe"
  AttestationRequire = "none"
  AutoRepinReview = TRUE
  Actor = {"session"}
  Proc = {"hermes"}
  ProcOf <- OneProcess
  WriteFaults = TRUE
  Crashes = TRUE
SPECIFICATION TrustSpec
INVARIANT TypeOK
PROPERTIES ImplementsLedger QueueIntact
