SPECIFICATION FairSpec
CONSTANTS
  ConfigThreads = 3
  FollowSymlinks = FALSE
  Path <- MCPath
  PathKind <- MCKind
  Roots <- MCRoots
  Listings <- MCListings
  Size <- MCSize
  NoSize = NoSize
  NoDir = NoDir
INVARIANTS
  TypeOK
  BytesConserved
  SizesAddUp
PROPERTIES
  Termination
