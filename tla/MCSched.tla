------------------------------ MODULE MCSched ------------------------------
(***************************************************************************)
(* Small instances of Sched: kernel_main and the idle task, one or two     *)
(* user tasks, a mutex and a counting semaphore of two units, a queue and  *)
(* the queue of the keyboard.                                              *)
(***************************************************************************)
EXTENDS Sched

CONSTANT sem  \* the counting semaphore

MCMaxCount == [s \in Sem |-> IF s = sem THEN 2 ELSE 1]

=============================================================================
