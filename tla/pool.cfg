SPECIFICATION Spec
CONSTANTS
  ConfigThreads = 4
  FollowSymlinks = FALSE
  Node <- MCNode
  Kind <- MCKind
  RootTasks <- MCRootTasks
  Yields <- MCYields
  NoDir = NoDir
INVARIANTS
  TypeOK
  DoneMeansDrained
  SignalNotLost
  PoolInv
  TaskInv
PROPERTIES
  ReadOnce
  DoneIsFinal
