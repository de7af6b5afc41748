SPECIFICATION X509Spec
CONSTANTS
  Names <- MCNames
  Keys <- MCKeys
  KeyType <- MCKeyType
  WeakKeys = {"short"}
  Anchors <- MCAnchors
  EndEntityExts <- MCEndEntityExts
  AuthorityExts <- MCAuthorityExts
  MaxCerts = 3
  MaxExts = 2
INVARIANTS AcceptedIsValid RefusedForCause KeyOfEndEntity
PROPERTY VerdictStands
