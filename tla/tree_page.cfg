SPECIFICATION TreeSpec
CONSTANTS
  UsizeSpan = 256
  TreeLen = 3
  IsDir <- MCIsDir
  BySize <- MCBySize
  Children <- MCChildren
  MaxRows = 3
  NoParent = NoParent
  Heights <- MCHeights
  EventsPerFrame = 1
  MaxBatches = 1
INVARIANTS
  TreeTypeOK
  RowsNest
  MessageTellsState
