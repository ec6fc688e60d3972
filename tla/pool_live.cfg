SPECIFICATION FairSpec
CONSTANTS
  ConfigThreads = 3
  FollowSymlinks = TRUE
  Node <- MCNode
  Kind <- MCKind
  RootTasks <- MCRootTasks
  Yields <- MCYields
  NoDir = NoDir
PROPERTIES
  Termination
  ImplementsTraversal
