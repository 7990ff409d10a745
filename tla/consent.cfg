CONSTANTS
  c1 = c1
  c2 = c2
  c3 = c3
  k1 = k1
  k2 = k2
  Call = {c1, c2, c3}
  Key = {k1, k2}
  NoKey = NoKey
  HookOnBlocking = FALSE
  MaxDeploy = 1
SPECIFICATION EveryRouteSpec
SYMMETRY Symmetry
INVARIANTS ConsentTypeOK OneShot AskedOnce
PROPERTY OneConsentOneExecution
CHECK_DEADLOCK FALSE
