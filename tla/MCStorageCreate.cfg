CONSTANTS
  None = None
  Machine <- MCMachine
  SignBit = 20
  Word = 1000
  MaxErrors = 0
  BlockSize = 2
  DIRECT = 1
  PTRS = 3
  NumBlocks = 12
  Groups = 2
  NumInodes = 8
  BlocksPerGroup = 7
  FullName = {"full", "g"}
  Overrun = Overrun
  Image <- MCImage
  Extent <- MCExtent
  NewByte = 0
  Garbage = 99
  NewName = "n"
  SectorsPerBlock = 1
  MaxCalls = 3
SPECIFICATION Spec

PROPERTIES CreateKeepsFiles
CHECK_DEADLOCK FALSE
