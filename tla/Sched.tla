------------------------------- MODULE Sched -------------------------------
(***************************************************************************)
(* Tasks that call the semaphore and queue functions, the timer interrupt  *)
(* that preempts them and the keyboard interrupt that signals a queue, on  *)
(* one CPU.  Only the current task takes steps.                            *)
(*                                                                         *)
(* Kernel tasks (kernel_main, the terminator, the idle task) run with      *)
(* interrupts enabled and can be interrupted in the middle of a call; a    *)
(* user task calls through an interrupt gate, with interrupts disabled,    *)
(* and can be interrupted only in user mode.  A call is therefore three    *)
(* steps: lock_task_switches() and the body, during which no switch        *)
(* happens; the decrement in unlock_task_switches(); and the test of the   *)
(* postponed flag that follows it.                                         *)
(*                                                                         *)
(* A body may be one step because the timer does not touch what it works   *)
(* on, with one exception: the keyboard interrupt edits the ready list, and*)
(* can come in the middle of a kernel task's own edit of it.  Those are the*)
(* actions ending in Interrupted.  They leave a list that is torn, after   *)
(* which the model stops: nothing is claimed of what follows.              *)
(*                                                                         *)
(*   pc        "run" outside a call, then "unlock", "check" and "ret"      *)
(*   op, obj   the call in progress                                        *)
(*   pend      how many yield()s the task is switched out in: each one     *)
(*             still has an unlock_scheduler() to do once switch_task()    *)
(*             returns.  A new task starts in task_loader, which does one  *)
(*   inIrq     the innermost of these is in an interrupt handler           *)
(*   holds     the semaphores the task has acquired                        *)
(*   torn      irq1 came in the middle of an edit of the ready list        *)
(***************************************************************************)
EXTENDS TaskOps, Functions

CONSTANTS
  Kernel,    \* the kernel tasks
  Main,      \* the task that runs kernel_main()
  Idle,      \* the task that runs idle_task_main()
  KbdQueue,  \* the queues the keyboard interrupt signals
  MaxCount   \* the max_count each semaphore is created with

ASSUME SchedAssumption ==
  /\ Kernel \subseteq Task
  /\ Main \in Kernel
  /\ Idle \in Kernel
  /\ Main # Idle
  /\ KbdQueue \subseteq Queue
  /\ MaxCount \in [Sem -> Nat \ {0}]

VARIABLES k, pc, op, obj, pend, inIrq, holds, torn

vars == <<k, pc, op, obj, pend, inIrq, holds, torn>>

Pc == {"run", "unlock", "check", "ret"}

Op == {"none", "acquire", "release", "wait", "signal"}

\* The type of the state: what each field of the task structures can hold.
TypeOK ==
  /\ k \in KernelState
  /\ pc \in [Task -> Pc]
  /\ op \in [Task -> Op]
  /\ obj \in [Task -> Sem \cup Queue \cup {NULL}]
  /\ pend \in [Task -> Nat]
  /\ inIrq \in [Task -> BOOLEAN]
  /\ holds \in [Task -> SUBSET Sem]
  /\ torn \in BOOLEAN

(***************************************************************************)
(* The state once init_scheduler() is done and the terminator has run and  *)
(* blocked, no task having exited: kernel_main runs, the idle task is      *)
(* ready in task_loader.  The structure of kernel_main points to itself.   *)
(* Tasks of Kernel other than these two are created later.                 *)
(***************************************************************************)
InitState ==
  [t \in Task |-> CASE t = Main -> TASK_STATE_RUNNING
                    [] t = Idle -> TASK_STATE_ZERO
                    [] OTHER    -> TASK_STATE_NONE]

InitKernel ==
  [current          |-> Main,
   first_task       |-> Idle,
   last_task        |-> Idle,
   sched_lock       |-> 0,
   task_switch_lock |-> 0,
   postponed        |-> FALSE,
   ticks            |-> TASK_DEFAULT_TIME,
   state            |-> InitState,
   next             |-> [t \in Task |-> IF t = Main THEN Main ELSE NULL],
   sem              |-> [s \in Sem |-> create_semaphore(MaxCount[s])],
   queue            |-> [q \in Queue |-> EmptyQueue]]

Init ==
  /\ k = InitKernel
  /\ pc = [t \in Task |-> "run"]
  /\ op = [t \in Task |-> "none"]
  /\ obj = [t \in Task |-> NULL]
  /\ pend = [t \in Task |-> IF t = Main THEN 0 ELSE 1]
  /\ inIrq = [t \in Task |-> FALSE]
  /\ holds = [t \in Task |-> {}]
  /\ torn = FALSE

-----------------------------------------------------------------------------
\* t is on the CPU, and not about to leave a yield() it was switched out in.
Runs(t) == ~torn /\ k.current = t /\ pend[t] = 0

\* Interrupts are enabled: a kernel task, or a user task in user mode or in
\* task_loader, and no handler is running.
Interruptible(t) == ~torn /\ ~inIrq[t] /\ (t \in Kernel \/ pc[t] = "run")

(***************************************************************************)
(* lock_scheduler(); yield(); unlock_scheduler(), done by the current task *)
(* from kernel state kk.  When yield() switches, the unlock_scheduler() is *)
(* left to the moment the task is switched in again, and the task switched *)
(* to does the one it left.                                                *)
(***************************************************************************)
YieldCall(kk, irq) ==
  LET y == yield(lock_scheduler(kk))
      switched == y.current # kk.current
  IN  /\ k' = IF switched THEN y ELSE unlock_scheduler(y)
      /\ pend' = IF switched THEN [pend EXCEPT ![kk.current] = @ + 1] ELSE pend
      /\ inIrq' = IF switched THEN [inIrq EXCEPT ![kk.current] = irq]
                              ELSE inIrq

\* The unlock_scheduler() after switch_task(), or in task_loader.
Resume(t) ==
  /\ ~torn
  /\ k.current = t
  /\ pend[t] > 0
  /\ k' = unlock_scheduler(k)
  /\ pend' = [pend EXCEPT ![t] = @ - 1]
  /\ inIrq' = [inIrq EXCEPT ![t] = FALSE]
  /\ UNCHANGED <<pc, op, obj, holds, torn>>

-----------------------------------------------------------------------------
(***************************************************************************)
(* The calls, up to unlock_task_switches().                                *)
(***************************************************************************)
Enter(t, o, x) ==
  /\ t # Idle
  /\ Runs(t)
  /\ pc[t] = "run"
  /\ pc' = [pc EXCEPT ![t] = "unlock"]
  /\ op' = [op EXCEPT ![t] = o]
  /\ obj' = [obj EXCEPT ![t] = x]
  /\ UNCHANGED <<pend, inIrq>>

acquire_semaphore(t, s) ==
  /\ s \notin holds[t]
  /\ Enter(t, "acquire", s)
  /\ k' = AcquireBody(lock_task_switches(k), s)
  /\ UNCHANGED <<holds, torn>>

release_semaphore(t, s) ==
  /\ s \in holds[t]
  /\ Enter(t, "release", s)
  /\ k' = ReleaseBody(lock_task_switches(k), s)
  /\ holds' = [holds EXCEPT ![t] = @ \ {s}]
  /\ UNCHANGED torn

\* A task that waits for an event holds no semaphore: the pipes release
\* theirs before the wait can switch, and no other code waits.  Only user
\* tasks read the keyboard's pipe: kernel_main reads the console's.
wait_queue(t, q) ==
  /\ holds[t] = {}
  /\ q \in KbdQueue => t \notin Kernel
  /\ Enter(t, "wait", q)
  /\ k' = WaitBody(lock_task_switches(k), q)
  /\ UNCHANGED <<holds, torn>>

\* The readers of the keyboard's pipe are woken by irq1 alone.
signal_queue(t, q) ==
  /\ q \notin KbdQueue
  /\ ~SignalIsNoop(k, q)
  /\ Enter(t, "signal", q)
  /\ k' = SignalBody(lock_task_switches(k), q)
  /\ UNCHANGED <<holds, torn>>

(***************************************************************************)
(* unlock_task_switches(): the decrement, then the test.                   *)
(***************************************************************************)
UnlockDecrement(t) ==
  /\ Runs(t)
  /\ pc[t] = "unlock"
  /\ IF k.task_switch_lock = 0
     THEN /\ k' = k
          /\ pc' = [pc EXCEPT ![t] = "ret"]
     ELSE /\ k' = [k EXCEPT !.task_switch_lock = @ - 1]
          /\ pc' = [pc EXCEPT ![t] = "check"]
  /\ UNCHANGED <<op, obj, pend, inIrq, holds, torn>>

UnlockForgetsPostponed_Mutant(t) ==
  /\ Runs(t)
  /\ pc[t] = "check"
  /\ pc' = [pc EXCEPT ![t] = "ret"]
  /\ UNCHANGED <<k, op, obj, pend, inIrq, holds, torn>>

UnlockCheck(t) ==
  /\ Runs(t)
  /\ pc[t] = "check"
  /\ IF k.task_switch_lock = 0 /\ k.postponed
     THEN YieldCall([k EXCEPT !.postponed = FALSE], FALSE)
     ELSE UNCHANGED <<k, pend, inIrq>>
  /\ pc' = [pc EXCEPT ![t] = "ret"]
  /\ UNCHANGED <<op, obj, holds, torn>>

Return(t) ==
  /\ Runs(t)
  /\ pc[t] = "ret"
  /\ pc' = [pc EXCEPT ![t] = "run"]
  /\ op' = [op EXCEPT ![t] = "none"]
  /\ obj' = [obj EXCEPT ![t] = NULL]
  /\ holds' = IF op[t] = "acquire" THEN [holds EXCEPT ![t] = @ \cup {obj[t]}]
                                   ELSE holds
  /\ UNCHANGED <<k, pend, inIrq, torn>>

-----------------------------------------------------------------------------
(***************************************************************************)
(* New tasks: create_task() from kernel_main or exec, copy_task() in the   *)
(* fork of a user task.  The child of a fork is switched to inside         *)
(* kfork(), with interrupts disabled, and does an unlock_scheduler() too.  *)
(***************************************************************************)
Create(t, c) ==
  /\ t # Idle
  /\ Runs(t)
  /\ pc[t] = "run"
  /\ c \notin Kernel
  /\ k.state[c] = TASK_STATE_NONE
  /\ k' = create_task(k, c)
  /\ UNCHANGED <<pc, op, obj, pend, inIrq, holds, torn>>

Fork(t, c) ==
  /\ t \notin Kernel
  /\ Runs(t)
  /\ pc[t] = "run"
  /\ c \notin Kernel
  /\ k.state[c] = TASK_STATE_NONE
  /\ k' = copy_task(k, c)
  /\ inIrq' = [inIrq EXCEPT ![c] = TRUE]
  /\ UNCHANGED <<pc, op, obj, pend, holds, torn>>

\* The body of the idle task's loop.
idle_task_main ==
  /\ Runs(Idle)
  /\ pc[Idle] = "run"
  /\ k.ticks # 1
  /\ k' = [k EXCEPT !.ticks = 1]
  /\ UNCHANGED <<pc, op, obj, pend, inIrq, holds, torn>>

-----------------------------------------------------------------------------
(***************************************************************************)
(* The interrupts.                                                         *)
(***************************************************************************)
Irq0IgnoresLock_Mutant ==
  LET kk == [k EXCEPT !.ticks = IF @ = 0 THEN 0 ELSE @ - 1]
  IN  /\ Interruptible(k.current)
      /\ IF kk.ticks = 0
         THEN YieldCall(kk, TRUE)
         ELSE k' = kk /\ UNCHANGED <<pend, inIrq>>
      /\ UNCHANGED <<pc, op, obj, holds, torn>>

Irq0Underflows_Mutant ==
  LET kk == [k EXCEPT !.ticks = @ - 1]
  IN  /\ Interruptible(k.current)
      /\ IF kk.sched_lock = 0 /\ kk.ticks = 0
         THEN YieldCall(kk, TRUE)
         ELSE k' = kk /\ UNCHANGED <<pend, inIrq>>
      /\ UNCHANGED <<pc, op, obj, holds, torn>>

scheduler_irq0 ==
  LET kk == [k EXCEPT !.ticks = IF @ = 0 THEN 0 ELSE @ - 1]
  IN  /\ Interruptible(k.current)
      /\ IF kk.sched_lock = 0 /\ kk.ticks = 0
         THEN YieldCall(kk, TRUE)
         ELSE k' = kk /\ UNCHANGED <<pend, inIrq>>
      /\ UNCHANGED <<pc, op, obj, holds, torn>>

(***************************************************************************)
(* A key was pressed: kbd_flush() signals the reader of its pipe.  The     *)
(* handler is not interrupted, so the whole of signal_queue() is one step; *)
(* its unlock_task_switches() yields when it is not nested in a call of    *)
(* the interrupted task and a switch is postponed.                         *)
(***************************************************************************)
irq1(q) ==
  LET kk == SignalBody(k, q)
  IN  /\ Interruptible(k.current)
      /\ ~SignalIsNoop(k, q)
      /\ IF k.task_switch_lock = 0 /\ k.postponed
         THEN YieldCall([kk EXCEPT !.postponed = FALSE], TRUE)
         ELSE k' = kk /\ UNCHANGED <<pend, inIrq>>
      /\ UNCHANGED <<pc, op, obj, holds, torn>>

(***************************************************************************)
(* The same key press in the middle of an edit of the ready list that      *)
(* kernel task t makes, with interrupts enabled: the unblock_task() of     *)
(* release_semaphore() and signal_queue(), and the yield() that            *)
(* unlock_task_switches() does for a postponed switch.  create_task()      *)
(* links at the head, which irq1 does not touch.                           *)
(***************************************************************************)
Wakes(q) == k.queue[q].first_task # NULL

ReleaseInterrupted(t, s, q) ==
  LET w == k.sem[s].first_waiting_task
  IN  /\ t \in Kernel /\ Wakes(q)
      /\ s \in holds[t] /\ w # NULL
      /\ Enter(t, "release", s)
      /\ \E kk \in InterruptedLink(lock_task_switches(k), w, q) :
           k' = UnlinkFirstWaiter(kk, s)
      /\ holds' = [holds EXCEPT ![t] = @ \ {s}]
      /\ torn' = TRUE

SignalInterrupted(t, p, q) ==
  LET w == k.queue[p].first_task
  IN  /\ t \in Kernel /\ Wakes(q)
      /\ p \notin KbdQueue /\ ~SignalIsNoop(k, p) /\ w # NULL
      /\ Enter(t, "signal", p)
      /\ \E kk \in InterruptedLink(lock_task_switches(k), w, q) :
           k' = UnlinkFirstQueued(kk, p)
      /\ torn' = TRUE
      /\ UNCHANGED holds

YieldInterrupted(t, q) ==
  /\ t \in Kernel /\ Wakes(q)
  /\ Runs(t)
  /\ pc[t] = "check"
  /\ k.task_switch_lock = 0 /\ k.postponed
  /\ k' \in InterruptedYield(lock_scheduler([k EXCEPT !.postponed = FALSE]), q)
  /\ pend' = [pend EXCEPT ![t] = @ + 1]
  /\ pc' = [pc EXCEPT ![t] = "ret"]
  /\ torn' = TRUE
  /\ UNCHANGED <<op, obj, inIrq, holds>>

\* Nothing is said of what happens once the list is torn.
Stopped == torn /\ UNCHANGED vars

-----------------------------------------------------------------------------
CallStep(t) ==
  \/ \E s \in Sem : acquire_semaphore(t, s) \/ release_semaphore(t, s)
  \/ \E q \in Queue : wait_queue(t, q) \/ signal_queue(t, q)

FinishCall(t) == UnlockDecrement(t) \/ UnlockCheck(t) \/ Return(t)

Next ==
  \/ \E t \in Task : CallStep(t)
  \/ \E t \in Task : FinishCall(t) \/ Resume(t)
  \/ \E t, c \in Task : Create(t, c) \/ Fork(t, c)
  \/ idle_task_main
  \/ scheduler_irq0
  \/ \E q \in KbdQueue : irq1(q)
  \/ \E t \in Task, s \in Sem, q \in KbdQueue : ReleaseInterrupted(t, s, q)
  \/ \E t \in Task, p \in Queue, q \in KbdQueue : SignalInterrupted(t, p, q)
  \/ \E t \in Task, q \in KbdQueue : YieldInterrupted(t, q)
  \/ Stopped

Spec == Init /\ [][Next]_vars

-----------------------------------------------------------------------------
(***************************************************************************)
(* Safety.  What follows is about executions in which no key press has     *)
(* come in the middle of a kernel task's edit of the ready list, wherever  *)
(* else it came; ReadyListWhole is about all of them.                      *)
(***************************************************************************)

\* The tasks the ready list must contain.
Ready(kk) == {t \in Task : kk.state[t] \in {TASK_STATE_ZERO, TASK_STATE_READY}}

(***************************************************************************)
(* The ready list is well formed: from first_task through next to          *)
(* last_task it holds exactly the ready tasks, each once, although the     *)
(* semaphores and the queues link their waiters through the same field and *)
(* an interrupt can make the current task ready before it has switched     *)
(* out (task.c, unblock_task and yield), as long as the list is not torn.  *)
(***************************************************************************)
ListsReady(kk, rq) ==
  LET n == Cardinality(Ready(kk))
  IN  /\ kk.first_task = IF n = 0 THEN NULL ELSE rq[1]
      /\ kk.last_task = IF n = 0 THEN NULL ELSE rq[n]
      /\ \A i \in 1 .. n : kk.next[rq[i]] = IF i = n THEN NULL ELSE rq[i + 1]

RunQueueIn(kk) ==
  \E rq \in Bijection(1 .. Cardinality(Ready(kk)), Ready(kk)) : ListsReady(kk, rq)

RunQueueOK == torn \/ RunQueueIn(k)

\* The scheduler lock protects the ready list: it is well formed whatever
\* interrupts come ("For a single CPU however, this works well enough.", task.c,
\* the comment above lock_scheduler()).
ReadyListWhole == RunQueueIn(k)

(***************************************************************************)
(* No more tasks are between the return of acquire_semaphore() and the     *)
(* call of release_semaphore() than the semaphore allows (semaphore.c),    *)
(* as long as the ready list is not torn.                                  *)
(***************************************************************************)
Holders(s) == {t \in Task : s \in holds[t]}

MutualExclusion ==
  torn \/ \A s \in Sem : Cardinality(Holders(s)) <= k.sem[s].max_count

(***************************************************************************)
(* current_count counts the owners of the semaphore: the tasks that hold   *)
(* it and those an acquire_semaphore() in progress has already given it    *)
(* to, by counting it or by the hand-over of release_semaphore().  No unit *)
(* is lost or made, and the count never goes below zero, as long as the    *)
(* ready list is not torn.                                                 *)
(***************************************************************************)
Acquiring(t, s) == pc[t] # "run" /\ op[t] = "acquire" /\ obj[t] = s

Owners(s) ==
  {t \in Task : \/ s \in holds[t]
                \/ Acquiring(t, s) /\ k.state[t] # TASK_STATE_BLOCK}

CountsOwners ==
  \A s \in Sem : k.sem[s].current_count = Cardinality(Owners(s))

CountIsOwners == torn \/ CountsOwners

(***************************************************************************)
(* A call that blocks does not return before the task is unblocked: a task *)
(* past the test in unlock_task_switches() that is on the CPU is in the    *)
(* running state.  The yield() that the call postponed always happened,    *)
(* also when an interrupt came between the decrement and the test, as long *)
(* as the ready list is not torn: yield() does nothing when last_task is   *)
(* NULL.                                                                   *)
(***************************************************************************)
BlockedNeverRuns ==
  torn \/ (Runs(k.current) /\ pc[k.current] \in {"run", "ret"}
             => k.state[k.current] = TASK_STATE_RUNNING)

(***************************************************************************)
(* task_switch_lock belongs to the call in progress on the CPU: it is held *)
(* while the current task is in the body of a call and free otherwise, so  *)
(* that no task is ever switched out with the lock held (task.c, the       *)
(* comment on task_switch_lock and yield()), as long as the ready list is  *)
(* not torn.                                                               *)
(***************************************************************************)
LockPrivate ==
  /\ k.task_switch_lock = IF pc[k.current] = "unlock" THEN 1 ELSE 0
  /\ \A t \in Task \ {k.current} : pc[t] # "unlock"

SwitchLockIsPrivate == torn \/ LockPrivate

(***************************************************************************)
(* While user code runs the scheduler lock is free, so that the timer can  *)
(* preempt it: every unlock_scheduler() that a switch moved to another     *)
(* task has been done by the time that task runs.                          *)
(***************************************************************************)
UserIsPreemptible ==
  Runs(k.current) /\ pc[k.current] = "run" => k.sched_lock = 0

(***************************************************************************)
(* The inductive invariant behind these.  KernelOK speaks of the task      *)
(* structures alone: besides the ready list, only the current task is in   *)
(* the running state, and the idle task is ready whenever it is not        *)
(* current, so that yield() always finds a task.  CallsOK ties them to the *)
(* calls in progress: a current task that no longer runs is still inside   *)
(* the call that blocked it, and its switch is postponed.  WaitersOK says  *)
(* that what a semaphore or a queue points to is a task blocked on it;     *)
(* tasks behind the first waiter may have been lost, and need not be       *)
(* reachable.  Only an edit of the ready list that irq1 interrupts breaks  *)
(* them, and even that leaves values of their types.                       *)
(***************************************************************************)
KernelOK(kk) ==
  /\ RunQueueIn(kk)
  /\ \A t \in Task : kk.state[t] = TASK_STATE_RUNNING => t = kk.current
  /\ kk.state[kk.current] \in {TASK_STATE_RUNNING, TASK_STATE_READY, TASK_STATE_BLOCK}
  /\ IF kk.current = Idle THEN kk.state[Idle] = TASK_STATE_RUNNING
                          ELSE Idle \in Ready(kk)

CallsOK ==
  /\ LockPrivate
  /\ k.state[k.current] # TASK_STATE_RUNNING =>
       /\ k.postponed
       /\ pend[k.current] = 0
       /\ pc[k.current] \in {"unlock", "check"}
  /\ \A t \in Task :
       /\ k.state[t] = TASK_STATE_BLOCK =>
            pc[t] # "run" /\ op[t] \in {"acquire", "wait"}
       /\ k.state[t] = TASK_STATE_NONE => pc[t] = "run" /\ holds[t] = {}
       /\ pc[t] # "run" => t # Idle
       /\ pc[t] # "run" /\ op[t] = "acquire" => obj[t] \in Sem \ holds[t]
       /\ pc[t] # "run" /\ op[t] = "wait" => holds[t] = {}

BlockedIn(t, o, x) ==
  k.state[t] = TASK_STATE_BLOCK /\ op[t] = o /\ obj[t] = x

WaitersOK ==
  /\ \A s \in Sem : LET first == k.sem[s].first_waiting_task
                        last  == k.sem[s].last_waiting_task
                    IN  /\ first = NULL <=> last = NULL
                        /\ first # NULL => BlockedIn(first, "acquire", s)
                        /\ last # NULL => BlockedIn(last, "acquire", s)
  /\ \A q \in Queue : LET first == k.queue[q].first_task
                          last  == k.queue[q].last_task
                      IN  /\ first = NULL <=> last = NULL
                          /\ first # NULL => /\ BlockedIn(first, "wait", q)
                                             /\ k.queue[q].amount_waiting > 0
                          /\ last # NULL => BlockedIn(last, "wait", q)

CountOK ==
  /\ CountsOwners
  /\ \A s \in Sem : k.sem[s].current_count <= k.sem[s].max_count

Whole == TypeOK /\ KernelOK(k) /\ CallsOK /\ WaitersOK /\ CountOK

IInv == TypeOK /\ (torn \/ Whole)

-----------------------------------------------------------------------------
(***************************************************************************)
(* Liveness.  The timer keeps firing, and a tick that arrives while        *)
(* interrupts are disabled is delivered once they are enabled.  A time     *)
(* slice is many instructions, so a task that is switched in again and     *)
(* again gets through each step of a call it has made, and every task that *)
(* has acquired a semaphore gets to its release, as all the code that uses *)
(* one does.  Nothing makes a task call, create or fork, and no key need   *)
(* be pressed.                                                             *)
(***************************************************************************)
Fairness ==
  /\ SF_vars(scheduler_irq0)
  /\ WF_vars(idle_task_main \/ \E t \in Task : Resume(t))
  /\ \A t \in Task \ {Idle} :
       /\ SF_vars(FinishCall(t))
       /\ \A s \in Sem : SF_vars(release_semaphore(t, s))

FairSpec == Spec /\ Fairness

\* A task that asks for a semaphore gets it: "it will call
\* release_semaphore(), and that will eventually unblock this task"
\* (semaphore.c, the comment in acquire_semaphore()).
AcquireReturns ==
  \A t \in Task, s \in Sem : Acquiring(t, s) ~> s \in holds[t]

\* The scheduler is round-robin: a task that is ready gets the CPU, also when
\* the tasks before it never call the kernel (task.c, scheduler_irq0()), unless
\* the ready list is torn.
RoundRobin ==
  \A t \in Task : t \in Ready(k) ~> k.state[t] = TASK_STATE_RUNNING \/ torn

=============================================================================
