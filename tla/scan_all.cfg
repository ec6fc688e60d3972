SPECIFICATION Spec
CONSTANTS
  ConfigThreads = 2
  Path <- JunkPath
  Kind <- JunkKind
  Name <- JunkName
  Listings <- JunkListings
  Size <- JunkSize
  Patterns <- MCPatterns
  NoMarker = NoMarker
  GlobOf <- MCGlobOf
  Extension <- MCExtension
  Beside <- JunkBeside
  Markers <- JunkMarkers
  TreeMaxEntries = 2
  NoDir = NoDir
INVARIANTS
  TypeOK
  OvershootBounded
  AncestorsRecorded
  JunkStaysClosed
  MarksMatchHits
  ResultComplete
