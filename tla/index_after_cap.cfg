SPECIFICATION Spec
CONSTANTS
  ConfigThreads = 3
  Path <- WidePath
  Kind <- WideKind
  Name <- WideName
  Listings <- WideListings
  Size <- WideSize
  Patterns <- MCPatterns
  NoMarker = NoMarker
  GlobOf <- MCGlobOf
  Extension <- MCExtension
  Beside = {}
  Markers = {}
  TreeMaxEntries = 4
  NoDir = NoDir
INVARIANT
  ChildrenLieInParent
