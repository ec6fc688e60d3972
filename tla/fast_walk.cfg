SPECIFICATION Spec
CONSTANTS
  ConfigThreads = 2
  FollowSymlinks = TRUE
  ListPaths = TRUE
  Path <- MCPath
  Kind <- MCKind
  Root = "r"
  Listings <- MCListings
  Size <- MCSize
  BufLines = 2
  NoDir = NoDir
INVARIANTS
  TypeOK
  CountersConserved
  ReportExact
  ParentListedFirst
  NoSilentLoss
