------------------------------ MODULE TaskOps ------------------------------
(***************************************************************************)
(* The task structures of the kernel and the calls that change them:       *)
(* task.c (the ready list, yield, block_task, unblock_task and the two     *)
(* locks), semaphore.c and queue.c.                                        *)
(*                                                                         *)
(* A kernel state is one record, and every C function is an operator from  *)
(* kernel states to kernel states, so that a call nested in another one is *)
(* written as it is in the code.  Lists are kept as the code keeps them:   *)
(* a first and a last pointer, linked through the one `next' field of each *)
(* task, which the ready list, the semaphores and the queues all share.    *)
(*                                                                         *)
(*   ticks       the ticks_remaining of the current task: that of another  *)
(*               task is overwritten by yield() before it is read again;   *)
(*   postponed   whether task_switch_postponed is non-zero: the code only  *)
(*               increments, tests and clears it.                          *)
(***************************************************************************)
EXTENDS Integers, FiniteSets

CONSTANTS
  Task,              \* the task structures there can be
  Sem,               \* the semaphores
  Queue,             \* the resource queues
  NULL,              \* the null pointer
  TASK_DEFAULT_TIME  \* the time slice, in timer ticks

ASSUME TaskOpsAssumption ==
  /\ IsFiniteSet(Task)
  /\ NULL \notin Task
  /\ TASK_DEFAULT_TIME \in Nat \ {0}

(***************************************************************************)
(* The values of a task's state.  create_task() clears the structure and   *)
(* never sets the field, so that a new task is linked with state 0, which  *)
(* has no name in the code; TASK_STATE_NONE is a structure that is not     *)
(* allocated.                                                              *)
(***************************************************************************)
TASK_STATE_NONE    == "NONE"
TASK_STATE_ZERO    == "ZERO"
TASK_STATE_RUNNING == "RUNNING"
TASK_STATE_READY   == "READY"
TASK_STATE_BLOCK   == "BLOCK"

TaskState == {TASK_STATE_NONE, TASK_STATE_ZERO, TASK_STATE_RUNNING,
              TASK_STATE_READY, TASK_STATE_BLOCK}

TaskOrNull == Task \cup {NULL}

Semaphore == [max_count          : Nat,
              current_count      : Int,
              first_waiting_task : TaskOrNull,
              last_waiting_task  : TaskOrNull]

ResourceQueue == [amount_waiting : Nat,
                  first_task     : TaskOrNull,
                  last_task      : TaskOrNull]

KernelState == [current          : Task,
                first_task       : TaskOrNull,
                last_task        : TaskOrNull,
                sched_lock       : Nat,
                task_switch_lock : Nat,
                postponed        : BOOLEAN,
                ticks            : Nat,
                state            : [Task -> TaskState],
                next             : [Task -> TaskOrNull],
                sem              : [Sem -> Semaphore],
                queue            : [Queue -> ResourceQueue]]

\* What create_semaphore() and a cleared QUEUE structure hold.
create_semaphore(max_count) ==
  [max_count |-> max_count, current_count |-> 0,
   first_waiting_task |-> NULL, last_waiting_task |-> NULL]

EmptyQueue == [amount_waiting |-> 0, first_task |-> NULL, last_task |-> NULL]

-----------------------------------------------------------------------------
(***************************************************************************)
(* The scheduler lock is a counter.                                        *)
(***************************************************************************)
lock_scheduler(k) == [k EXCEPT !.sched_lock = @ + 1]

unlock_scheduler(k) ==
  IF k.sched_lock = 0 THEN k ELSE [k EXCEPT !.sched_lock = @ - 1]

lock_task_switches(k) == [k EXCEPT !.task_switch_lock = @ + 1]

(***************************************************************************)
(* Linking a task into the ready list: at its end (unblock_task, yield and *)
(* copy_task) or, only in create_task(), at its head.  These run between   *)
(* lock_scheduler() and unlock_scheduler(), which cancel out.              *)
(***************************************************************************)
LinkLast(k, t) ==
  IF k.last_task = NULL
  THEN [k EXCEPT !.first_task = t, !.last_task = t]
  ELSE [k EXCEPT !.next[k.last_task] = t, !.last_task = t]

LinkFirst(k, t) ==
  IF k.first_task # NULL
  THEN [k EXCEPT !.next[t] = k.first_task, !.first_task = t]
  ELSE [k EXCEPT !.first_task = t, !.last_task = t]

\* The linking of create_task() and copy_task(); t is a fresh structure.
create_task(k, t) ==
  LinkFirst([k EXCEPT !.state[t] = TASK_STATE_ZERO, !.next[t] = NULL], t)

copy_task(k, t) ==
  LinkLast([k EXCEPT !.state[t] = TASK_STATE_READY, !.next[t] = NULL], t)

UnblockWithoutClearing_Mutant(k, t) ==
  LinkLast([k EXCEPT !.state[t] = TASK_STATE_READY], t)

unblock_task(k, t) ==
  LinkLast([k EXCEPT !.state[t] = TASK_STATE_READY, !.next[t] = NULL], t)

-----------------------------------------------------------------------------
(***************************************************************************)
(* yield().  The running task goes to the end of the ready list, unless    *)
(* its state says that it no longer runs, and the first task of the list   *)
(* becomes the current one.                                                *)
(***************************************************************************)
RequeueAlways_Mutant(k) ==
  [k EXCEPT !.next = [@ EXCEPT ![k.current] = NULL,
                               ![k.last_task] = k.current],
            !.state[k.current] = TASK_STATE_READY,
            !.last_task = k.current]

RequeueInFront_Mutant(k) ==
  IF k.state[k.current] = TASK_STATE_RUNNING
  THEN [k EXCEPT !.next = [@ EXCEPT ![k.current] = k.next[k.first_task],
                                    ![k.first_task] = k.current],
                 !.state[k.current] = TASK_STATE_READY,
                 !.last_task = IF k.first_task = k.last_task THEN k.current ELSE @]
  ELSE k

Requeue(k) ==
  IF k.state[k.current] = TASK_STATE_RUNNING
  THEN [k EXCEPT !.next = [@ EXCEPT ![k.current] = NULL,
                                    ![k.last_task] = k.current],
                 !.state[k.current] = TASK_STATE_READY,
                 !.last_task = k.current]
  ELSE k

PopFirst(k) ==
  LET t == k.first_task
      alone == k.first_task = k.last_task
  IN  [k EXCEPT !.current    = t,
                !.first_task = IF alone THEN NULL ELSE k.next[t],
                !.last_task  = IF alone THEN NULL ELSE @,
                !.state[t]   = TASK_STATE_RUNNING,
                !.next[t]    = NULL,
                !.ticks      = TASK_DEFAULT_TIME]

YieldIgnoringLock_Mutant(k) ==
  IF k.first_task = NULL \/ k.last_task = NULL THEN k
  ELSE PopFirst(Requeue(k))

yield(k) ==
  IF k.task_switch_lock > 0 THEN [k EXCEPT !.postponed = TRUE]
  ELSE IF k.first_task = NULL \/ k.last_task = NULL THEN k
  ELSE PopFirst(Requeue(k))

\* block_task(): every caller holds the task switch lock, so that the yield()
\* in it is postponed and the two scheduler lock calls around it cancel out.
block_task(k) == yield([k EXCEPT !.state[k.current] = TASK_STATE_BLOCK])

-----------------------------------------------------------------------------
(***************************************************************************)
(* The bodies of the semaphore and queue calls: what they do between       *)
(* lock_task_switches() and unlock_task_switches().                        *)
(***************************************************************************)
AcquireOffByOne_Mutant(k, s) ==
  IF k.sem[s].current_count > k.sem[s].max_count
  THEN block_task([k EXCEPT !.sem[s].first_waiting_task = k.current,
                            !.sem[s].last_waiting_task = k.current])
  ELSE [k EXCEPT !.sem[s].current_count = @ + 1]

AcquireBody(k, s) ==
  IF k.sem[s].current_count >= k.sem[s].max_count
  THEN block_task(
         IF k.sem[s].last_waiting_task = NULL
         THEN [k EXCEPT !.sem[s].first_waiting_task = k.current,
                        !.sem[s].last_waiting_task = k.current]
         ELSE [k EXCEPT !.next[k.sem[s].last_waiting_task] = k.current,
                        !.sem[s].last_waiting_task = k.current])
  ELSE [k EXCEPT !.sem[s].current_count = @ + 1]

(***************************************************************************)
(* The first waiter is unblocked before it is unlinked: unblock_task() has *)
(* already cleared its `next' when release_semaphore() reads it.           *)
(***************************************************************************)
UnlinkFirstWaiter(k, s) ==
  LET second == k.next[k.sem[s].first_waiting_task]
  IN  [k EXCEPT !.sem[s].first_waiting_task = second,
                !.sem[s].last_waiting_task = IF second = NULL THEN NULL ELSE @]

ReleaseAlsoDecrements_Mutant(k, s) ==
  IF k.sem[s].first_waiting_task = NULL
  THEN [k EXCEPT !.sem[s].current_count = @ - 1]
  ELSE [UnlinkFirstWaiter(unblock_task(k, k.sem[s].first_waiting_task), s)
          EXCEPT !.sem[s].current_count = @ - 1]

ReleaseWithoutUnblock_Mutant(k, s) ==
  IF k.sem[s].first_waiting_task = NULL
  THEN [k EXCEPT !.sem[s].current_count = @ - 1]
  ELSE UnlinkFirstWaiter(k, s)

ReleaseBody(k, s) ==
  IF k.sem[s].first_waiting_task = NULL
  THEN [k EXCEPT !.sem[s].current_count = @ - 1]
  ELSE UnlinkFirstWaiter(unblock_task(k, k.sem[s].first_waiting_task), s)

WaitBody(k, q) ==
  LET linked == IF k.queue[q].first_task = NULL
                THEN [k EXCEPT !.queue[q].first_task = k.current]
                ELSE [k EXCEPT !.next[k.queue[q].last_task] = k.current]
  IN  block_task([linked EXCEPT !.queue[q].amount_waiting = @ + 1,
                                !.queue[q].last_task = k.current,
                                !.next[k.current] = NULL])

UnlinkFirstQueued(k, q) ==
  LET second == k.next[k.queue[q].first_task]
  IN  [k EXCEPT !.queue[q].first_task = second,
                !.queue[q].last_task = IF second = NULL THEN NULL ELSE @,
                !.queue[q].amount_waiting = @ - 1]

\* signal_queue() returns at once, without the lock, when nobody waits.
SignalIsNoop(k, q) == k.queue[q].amount_waiting = 0

SignalBody(k, q) ==
  IF k.queue[q].first_task = NULL THEN k
  ELSE UnlinkFirstQueued(unblock_task(k, k.queue[q].first_task), q)

-----------------------------------------------------------------------------
(***************************************************************************)
(* The ready list is protected from the timer by sched_lock, and from the  *)
(* keyboard interrupt by nothing: irq1 signals queue q, and unblocks its   *)
(* first waiter r, also while a kernel task is linking or unlinking a task *)
(* of the same list.  What the interrupted code then leaves depends on     *)
(* where irq1 came and on what the compiler keeps in a register.           *)
(*                                                                         *)
(* The link of t behind last_task, `last_task->next = t; last_task =       *)
(* last_task->next':                                                       *)
(*   - irq1 between the two, last_task read again: r->next, which is NULL; *)
(*   - irq1 between the two, the value stored kept: t, which is in no list;*)
(*   - irq1 before them, last_task already loaded: r is in no list.        *)
(***************************************************************************)
InterruptedLink(k, t, q) ==
  LET s == SignalBody([k EXCEPT !.state[t] = TASK_STATE_READY, !.next[t] = NULL], q)
  IN  {[s EXCEPT !.last_task = s.next[s.last_task]],
       [s EXCEPT !.last_task = t],
       [s EXCEPT !.next[k.last_task] = t, !.last_task = t]}

\* yield(): the link of the task that runs, or the pop of a single task,
\* which forgets an r appended after the test of first_task == last_task.
InterruptedYield(k, q) ==
  IF k.state[k.current] = TASK_STATE_RUNNING
  THEN {PopFirst(s) : s \in InterruptedLink(k, k.current, q)}
  ELSE IF k.first_task = k.last_task
       THEN {[PopFirst(SignalBody(k, q)) EXCEPT !.first_task = NULL, !.last_task = NULL]}
       ELSE {}

=============================================================================
