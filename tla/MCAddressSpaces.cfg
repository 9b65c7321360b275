CONSTANTS
  NumPages = 12
  Valid <- MCValid
  Reserved = 2
  Width = 3
  NumStructs = 39
  Task = {t1, t2, t3}
  Program <- MCProgram
  Value = {0, 1, 2, 3}
  EntryPoint = 3
  MaxLeaks = 1
SPECIFICATION Spec
INVARIANTS TablesOK PagesOwned AllocIsFirstFit
SYMMETRY Symmetric
PROPERTIES ProgramLoaded ForkCopies
CHECK_DEADLOCK FALSE
