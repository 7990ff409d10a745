CONSTANTS
  h1 = h1
  h2 = h2
  h3 = h3
  Call = {h1, h2, h3}
  PublicKey = {"old", "new"}
  ReceiptsVerify = TRUE
  OnFailureBlock = FALSE
  MaxRotate = 2
SPECIFICATION Spec
SYMMETRY Symmetry
INVARIANTS TypeOK EvidenceHolds AlwaysAudited OneLostPerTear
CHECK_DEADLOCK FALSE
