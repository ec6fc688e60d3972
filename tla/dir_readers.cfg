SPECIFICATION FairSpec
CONSTANTS
  NoSize = NoSize
  Chars <- MCChars
  Systems <- MCSystems
  Dirs <- MCDirs
  BufSize <- MCBufSize
INVARIANTS
  TypeOK
  ReportsTrue
  ErrorsAreReal
PROPERTIES
  ImplementsReadDir
