CONSTANTS
  Glyph = {}
  Cards = {}
  NoCard = NoCard
  TofuEnabled = TRUE
  TofuMax = "safe"
  AttestationRequire = "danger"
  Content = {"v1"}
  Tier = {"danger", "absent"}
  Issuer <- Issuers
  Identity <- Identities
  Policies <- Allowed
  Backend = {"none", "sigstore"}
  NoAtt = NoAtt
  BareAtt = BareAtt
  NoEnvelope = NoEnvelope
  MaxSign = 1
  MaxRevise = 1
SPECIFICATION Spec
INVARIANTS TypeOK TrustedIsAllowed GateAsAssumed
CHECK_DEADLOCK FALSE
