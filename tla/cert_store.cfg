SPECIFICATION Spec
CONSTANTS
  MaxBlocks = 3
  Files <- MCFiles
  Replaceable = TRUE
  MaxExternal = 2
  PublicCount = 2
  Decodable <- MCDecodable
INVARIANTS NoBlankAnchor FallbackKept EveryCaAdded
CHECK_DEADLOCK FALSE
