SPECIFICATION FairSpec
CONSTANTS
  UsizeSpan = 256
  NumHits = 2
  Heights <- MCHeights
  EventsPerFrame = 2
  MaxBatches = 2
INVARIANTS
  TypeOK
  CursorOnScreen
  JobsWithinTotal
  MessageTellsState
PROPERTIES
  PollingGoesOn
