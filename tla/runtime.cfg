CONSTANTS
  Servers <- TwoServers
  Glyph = {"b.c", "b_c", "c"}
  Version = {"v1", "v2"}
  Offered <- Collisions
  Plain <- PlainNames
  Suffixed <- SuffixedNames
  None = None
SPECIFICATION Spec
INVARIANTS TypeOK RegistryRecorded InStep NoShadow
PROPERTY StaleNotGone
