CONSTANTS
  NULL = NULL
  Task = {main, u1, u2}
  Main = main
  First = u1
  Kbd = kbd
  Console = con
  Pipes = {kbd, con, p1}
  Name = {"d", "f", "g", "n"}
  Path <- MCPath
  Argument <- MCArgument
  Start <- MCStart
  Size <- MCSize
  MaxAmount = 2
  MaxFds = 3
  MaxExits = 1
SPECIFICATION Spec
INVARIANTS FdsOK StreamsCounted NoDanglingFd CacheIsTree PathsAreFound
CHECK_DEADLOCK FALSE
