SPECIFICATION Spec
CONSTANTS
  NoSize = NoSize
  Chars <- MCChars
  Systems <- LinuxOnly
  Dirs <- LinuxNames
  BufSize <- MCBufSize
INVARIANT
  NamesAreExact
