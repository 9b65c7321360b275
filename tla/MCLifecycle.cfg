CONSTANTS
  NULL = NULL
  Task = {idle, terminator, u1, u2, u3}
  Sem = {}
  Idle = idle
  Terminator = terminator
  First = u1
  Queue = {tq, kq, w1, w2, w3, w4, w5, w6}
  TermQueue = tq
  KbdQueue = kq
  TASK_DEFAULT_TIME = 1
  AnyPid = TRUE
  MaxPid = 3
SPECIFICATION FairSpec
INVARIANTS TasksOK ExitQueueOK NoDanglingTask
PROPERTIES ExitTerminates WaitReturns
