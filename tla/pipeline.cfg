SPECIFICATION Spec
CONSTANTS
  Scans <- MCScans
  JunkBytes <- MCJunkBytes
  NoIndex = NoIndex
INVARIANTS
  TypeOK
  DirsAddUp
  JunkSizesMatch
  IndexPartitionsTree
