CONSTANTS
  NULL = NULL
  sem = sem
  Task = {main, idle, u1, u2}
  Kernel = {main, idle}
  Main = main
  Idle = idle
  Sem = {mutex}
  Queue = {kq}
  KbdQueue = {kq}
  TASK_DEFAULT_TIME = 2
  MaxCount <- MCMaxCount
SPECIFICATION FairSpec
PROPERTIES RoundRobin
