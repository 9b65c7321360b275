----------------------------- MODULE Lifecycle -----------------------------
(***************************************************************************)
(* The life of a task: fork, exec, wait and exit (syscalls.c, fork.c,      *)
(* task.c), and the terminator task that frees what an exited task leaves. *)
(*                                                                         *)
(* A user task makes its system calls with interrupts disabled, so each of *)
(* them is one step up to the task switch it ends with.  The terminator is *)
(* a kernel task: the timer can interrupt it anywhere, but while it holds  *)
(* the task switch lock that only postpones a switch.  The keyboard can    *)
(* interrupt it inside an update of the ready list.  The time slice and    *)
(* the scheduler lock are left out (Sched has them): the timer may fire    *)
(* whenever interrupts are enabled.  kernel_main has started the first     *)
(* user task and stays blocked on the console pipe.                        *)
(*                                                                         *)
(*   pc         of a user task "user", or the call it is switched out in:  *)
(*              "wait", "read" or "exit"; of the terminator its place      *)
(*   on         the queue a wait() or read() in progress blocks on         *)
(*   pid, wq    the pid and the wait_queue pointer of each task structure  *)
(*   queues     the wait queues that are allocated                         *)
(*   term       terminator_task                                            *)
(*   quitter    the task the terminator is taking apart                    *)
(*   children   what fork() has returned to each task                      *)
(*   torn       whether a key has interrupted an update of the ready list, *)
(*              where the model stops (see InterruptedLink in TaskOps)     *)
(***************************************************************************)
EXTENDS TaskOps, Functions

CONSTANTS
  Idle, Terminator,     \* the kernel tasks
  First,                \* the first user task
  TermQueue, KbdQueue,  \* termination_queue, and the queue of the keyboard pipe
  AnyPid,               \* whether programs wait for pids fork() did not give them
  MaxPid                \* bound on last_pid

Kernel == {Idle, Terminator}

User == Task \ Kernel

WaitQueue == Queue \ {TermQueue, KbdQueue}

ASSUME LifecycleAssumption ==
  /\ Idle \in Task /\ Terminator \in Task /\ First \in User /\ Idle # Terminator
  /\ TermQueue \in Queue /\ KbdQueue \in Queue /\ TermQueue # KbdQueue
  /\ NULL \notin Queue
  /\ ExistsInjection(Kernel \cup {First}, WaitQueue)  \* each starts with its queue
  /\ Sem = {}
  /\ AnyPid \in BOOLEAN
  /\ MaxPid \in Nat \ {0}

VARIABLES k, pc, on, pid, wq, queues, term, quitter, last_pid, children, torn

vars == <<k, pc, on, pid, wq, queues, term, quitter, last_pid, children, torn>>

\* The type of the state.
TypeOK ==
  /\ k \in KernelState
  /\ pc \in [Task -> {"user", "wait", "read", "exit", "start", "loop", "check",
                      "relock", "drain"}]
  /\ on \in [Task -> Queue \cup {NULL}]
  /\ pid \in [Task -> 0 .. MaxPid]
  /\ wq \in [Task -> WaitQueue \cup {NULL}]
  /\ queues \subseteq WaitQueue
  /\ term \in TaskOrNull
  /\ quitter \in TaskOrNull
  /\ last_pid \in 0 .. MaxPid
  /\ children \in [Task -> SUBSET (0 .. MaxPid)]

(***************************************************************************)
(* kernel_main has created the first user task, with pid 0, and blocked.   *)
(* The kernel tasks, created by init_scheduler(), never got a pid: theirs  *)
(* is 0 as well.  The terminator has not run yet.                          *)
(***************************************************************************)
Init ==
  LET q == CHOOSE f \in Injection(Kernel \cup {First}, WaitQueue) : TRUE
  IN
    /\ wq = [t \in Task |-> IF t \in DOMAIN q THEN q[t] ELSE NULL]
    /\ queues = Range(q)
    /\ k = [current          |-> First,
            first_task       |-> Idle,
            last_task        |-> Terminator,
            sched_lock       |-> 0,
            task_switch_lock |-> 0,
            postponed        |-> FALSE,
            ticks            |-> TASK_DEFAULT_TIME,
            state            |-> [t \in Task |->
                                    CASE t = First     -> TASK_STATE_RUNNING
                                      [] t \in Kernel  -> TASK_STATE_ZERO
                                      [] OTHER         -> TASK_STATE_NONE],
            next             |-> [t \in Task |-> IF t = Idle THEN Terminator ELSE NULL],
            sem              |-> [s \in Sem |-> create_semaphore(1)],
            queue            |-> [r \in Queue |-> EmptyQueue]]
    /\ pc = [t \in Task |-> IF t = Terminator THEN "start" ELSE "user"]
    /\ on = [t \in Task |-> NULL]
    /\ pid = [t \in Task |-> 0]
    /\ term = NULL
    /\ quitter = NULL
    /\ last_pid = 1
    /\ children = [t \in Task |-> {}]
    /\ torn = FALSE

-----------------------------------------------------------------------------
\* The list that starts at first, as a walk through `next'.
Walk(kk, first) ==
  LET at[i \in 1 .. Cardinality(Task) + 1] ==
        IF i = 1 THEN first
        ELSE IF at[i - 1] = NULL THEN NULL ELSE kk.next[at[i - 1]]
  IN  at

\* The current task, or the first one on the ready list, with this pid.  A
\* blocked task is not looked at.
find_task(p) ==
  LET at == Walk(k, k.first_task)
      found == {i \in DOMAIN at : at[i] # NULL /\ pid[at[i]] = p}
  IN  IF pid[k.current] = p THEN k.current
      ELSE IF found = {} THEN NULL
      ELSE at[CHOOSE i \in found : \A j \in found : i <= j]

\* unlock_task_switches(), where nothing can come between its two halves.
unlock_task_switches(kk) ==
  LET u == [kk EXCEPT !.task_switch_lock = @ - 1]
  IN  IF kk.task_switch_lock = 0 THEN kk
      ELSE IF u.task_switch_lock = 0 /\ u.postponed
      THEN yield([u EXCEPT !.postponed = FALSE])
      ELSE u

\* wait_queue() of a user task.
wait_queue(kk, q) == unlock_task_switches(WaitBody(lock_task_switches(kk), q))

ExitWithoutWaking_Mutant(kk) ==
  unlock_task_switches(wait_queue(lock_task_switches(kk), TermQueue))

\* terminate_task(): the task is on the termination queue, and the terminator
\* ready, before the switch.
terminate_task(kk) ==
  LET w == wait_queue(lock_task_switches(kk), TermQueue)
  IN  unlock_task_switches(
        IF term # NULL /\ w.state[term] = TASK_STATE_BLOCK THEN unblock_task(w, term)
                                                           ELSE w)

-----------------------------------------------------------------------------
(***************************************************************************)
(* The system calls of a user task.                                        *)
(***************************************************************************)
InUserMode(t) == ~torn /\ t \in User /\ k.current = t /\ pc[t] = "user"

\* A task structure and a wait queue from kmalloc(), and the next pid.
Fresh(c, q) ==
  /\ k.state[c] = TASK_STATE_NONE
  /\ q \in WaitQueue \ queues
  /\ q = CHOOSE r \in WaitQueue \ queues : TRUE
  /\ last_pid < MaxPid
  /\ last_pid' = last_pid + 1

\* Programs have no arguments: copy_task() appends the copies of the arguments to
\* the list it copies from, and would not end.
fork(t) ==
  /\ InUserMode(t)
  /\ \E c \in User, q \in WaitQueue :
       /\ Fresh(c, q)
       /\ k' = copy_task([k EXCEPT !.queue[q] = EmptyQueue], c)
       /\ pid' = [pid EXCEPT ![c] = last_pid]
       /\ wq' = [wq EXCEPT ![c] = q]
       /\ queues' = queues \cup {q}
       /\ children' = [children EXCEPT ![t] = @ \cup {last_pid}]
  /\ UNCHANGED <<pc, on, term, quitter, torn>>

ExecSharesQueue_Mutant(t) ==
  /\ InUserMode(t)
  /\ \E n \in User, q \in WaitQueue :
       /\ Fresh(n, q)
       /\ k' = terminate_task(create_task(k, n))
       /\ pid' = [pid EXCEPT ![n] = pid[t]]
       /\ wq' = [wq EXCEPT ![n] = wq[t]]
       /\ children' = [children EXCEPT ![t] = {}]
  /\ pc' = [pc EXCEPT ![t] = "exit"]
  /\ on' = [on EXCEPT ![t] = TermQueue]
  /\ UNCHANGED <<queues, term, quitter, torn>>

(***************************************************************************)
(* A successful exec(): the new task takes the pid and the wait queue of   *)
(* the old one, which exits.  The queue create_task() made is freed again. *)
(* An exec() that finds no program changes nothing.                        *)
(***************************************************************************)
exec(t) ==
  /\ InUserMode(t)
  /\ \E n \in User, q \in WaitQueue :
       /\ Fresh(n, q)
       /\ k' = terminate_task(create_task(k, n))
       /\ pid' = [pid EXCEPT ![n] = pid[t]]
       /\ wq' = [wq EXCEPT ![n] = wq[t], ![t] = NULL]
       /\ children' = [children EXCEPT ![t] = {}]
  /\ pc' = [pc EXCEPT ![t] = "exit"]
  /\ on' = [on EXCEPT ![t] = TermQueue]
  /\ UNCHANGED <<queues, term, quitter, torn>>

exit(t) ==
  /\ InUserMode(t)
  /\ k' = terminate_task(k)
  /\ pc' = [pc EXCEPT ![t] = "exit"]
  /\ on' = [on EXCEPT ![t] = TermQueue]
  /\ children' = [children EXCEPT ![t] = {}]
  /\ UNCHANGED <<pid, wq, queues, term, quitter, last_pid, torn>>

\* wait(pid) returns an error at once when find_task() finds nothing.
wait(t, p) ==
  /\ InUserMode(t)
  /\ AnyPid \/ p \in children[t]
  /\ find_task(p) # NULL
  /\ wq[find_task(p)] # NULL
  /\ k' = wait_queue(k, wq[find_task(p)])
  /\ pc' = [pc EXCEPT ![t] = "wait"]
  /\ on' = [on EXCEPT ![t] = wq[find_task(p)]]
  /\ UNCHANGED <<pid, wq, queues, term, quitter, last_pid, children, torn>>

\* A read() of the keyboard that finds nothing.
read(t) ==
  /\ InUserMode(t)
  /\ k' = wait_queue(k, KbdQueue)
  /\ pc' = [pc EXCEPT ![t] = "read"]
  /\ on' = [on EXCEPT ![t] = KbdQueue]
  /\ UNCHANGED <<pid, wq, queues, term, quitter, last_pid, children, torn>>

\* A task that was switched out in a call is switched in and returns from it.
Return(t) ==
  /\ ~torn
  /\ t \in User
  /\ k.current = t
  /\ pc[t] \in {"wait", "read"}
  /\ pc' = [pc EXCEPT ![t] = "user"]
  /\ on' = [on EXCEPT ![t] = NULL]
  /\ UNCHANGED <<k, pid, wq, queues, term, quitter, last_pid, children, torn>>

-----------------------------------------------------------------------------
(***************************************************************************)
(* terminator_task_main().                                                 *)
(***************************************************************************)
At(place) == ~torn /\ k.current = Terminator /\ pc[Terminator] = place

Goto(place) == pc' = [pc EXCEPT ![Terminator] = place]

TermStart ==
  /\ At("start")
  /\ term' = Terminator
  /\ k' = lock_task_switches(k)
  /\ Goto("loop")
  /\ UNCHANGED <<on, pid, wq, queues, quitter, last_pid, children, torn>>

BlockOnLast_Mutant ==
  /\ At("loop")
  /\ k.queue[TermQueue].amount_waiting <= 1
  /\ k' = [block_task(k) EXCEPT !.task_switch_lock = @ - 1]
  /\ Goto("check")
  /\ UNCHANGED <<on, pid, wq, queues, term, quitter, last_pid, children, torn>>

\* The queue is empty: block_task(), and the decrement of the lock.
TermBlock ==
  /\ At("loop")
  /\ k.queue[TermQueue].amount_waiting = 0
  /\ k' = [block_task(k) EXCEPT !.task_switch_lock = @ - 1]
  /\ Goto("check")
  /\ UNCHANGED <<on, pid, wq, queues, term, quitter, last_pid, children, torn>>

\* The test in unlock_task_switches(), which "will trigger the block".
TermCheck ==
  /\ At("check")
  /\ k' = IF k.task_switch_lock = 0 /\ k.postponed
          THEN yield([k EXCEPT !.postponed = FALSE])
          ELSE k
  /\ Goto("relock")
  /\ UNCHANGED <<on, pid, wq, queues, term, quitter, last_pid, children, torn>>

TermRelock ==
  /\ At("relock")
  /\ k' = lock_task_switches(k)
  /\ Goto("loop")
  /\ UNCHANGED <<on, pid, wq, queues, term, quitter, last_pid, children, torn>>

TakeUnlinksAll_Mutant ==
  /\ At("loop")
  /\ k.queue[TermQueue].amount_waiting > 0
  /\ LET q == k.queue[TermQueue].first_task
     IN  /\ quitter' = q
         /\ k' = [k EXCEPT !.queue[TermQueue].first_task = NULL,
                           !.queue[TermQueue].last_task = NULL,
                           !.queue[TermQueue].amount_waiting = @ - 1]
         /\ IF q = NULL THEN pc' = pc ELSE Goto("drain")
  /\ UNCHANGED <<on, pid, wq, queues, term, last_pid, children, torn>>

TermTake ==
  /\ At("loop")
  /\ k.queue[TermQueue].amount_waiting > 0
  /\ LET q == k.queue[TermQueue].first_task
         second == IF q = NULL THEN NULL ELSE k.next[q]
     IN  /\ quitter' = q
         /\ k' = [k EXCEPT !.queue[TermQueue].first_task = second,
                           !.queue[TermQueue].last_task =
                             IF second = NULL /\ q # NULL THEN NULL ELSE @,
                           !.queue[TermQueue].amount_waiting = @ - 1]
         /\ IF q = NULL THEN pc' = pc ELSE Goto("drain")
  /\ UNCHANGED <<on, pid, wq, queues, term, last_pid, children, torn>>

Drained ==
  wq[quitter] # NULL => k.queue[wq[quitter]].amount_waiting = 0

\* One turn of the loop that signals those who wait for the quitter: the lock
\* is held, so that signal_queue() does not switch.
TermDrain ==
  /\ At("drain")
  /\ ~Drained
  /\ k' = SignalBody(k, wq[quitter])
  /\ UNCHANGED <<pc, on, pid, wq, queues, term, quitter, last_pid, children, torn>>

\* The wait queue, the arguments, the address space and the structure go.
TermFree ==
  /\ At("drain")
  /\ Drained
  /\ k' = [k EXCEPT !.state[quitter] = TASK_STATE_NONE, !.next[quitter] = NULL]
  /\ queues' = queues \ {wq[quitter]}
  /\ wq' = [wq EXCEPT ![quitter] = NULL]
  /\ pid' = [pid EXCEPT ![quitter] = 0]
  /\ on' = [on EXCEPT ![quitter] = NULL]
  /\ pc' = [pc EXCEPT ![quitter] = "user", ![Terminator] = "loop"]
  /\ quitter' = NULL
  /\ UNCHANGED <<term, last_pid, children, torn>>

-----------------------------------------------------------------------------
\* A key wakes a reader of the keyboard while the terminator, which runs with
\* interrupts enabled, is inside an update of the ready list: it links the next
\* task that waits for the quitter,
DrainInterrupted ==
  /\ At("drain")
  /\ ~Drained
  /\ k.queue[wq[quitter]].first_task # NULL
  /\ k.queue[KbdQueue].first_task # NULL
  /\ \E s \in InterruptedLink(k, k.queue[wq[quitter]].first_task, KbdQueue) :
       k' = UnlinkFirstQueued(s, wq[quitter])
  /\ torn' = TRUE
  /\ UNCHANGED <<pc, on, pid, wq, queues, term, quitter, last_pid, children>>

\* or makes the switch that was postponed.
CheckInterrupted ==
  /\ At("check")
  /\ k.task_switch_lock = 0
  /\ k.postponed
  /\ k.queue[KbdQueue].first_task # NULL
  /\ k' \in InterruptedYield([k EXCEPT !.postponed = FALSE], KbdQueue)
  /\ torn' = TRUE
  /\ Goto("relock")
  /\ UNCHANGED <<on, pid, wq, queues, term, quitter, last_pid, children>>

\* Nothing is said of what a kernel with a torn ready list does.
Stopped == torn /\ UNCHANGED vars

TermStep == \/ TermStart \/ TermBlock \/ TermCheck \/ TermRelock
            \/ TermTake \/ TermDrain \/ TermFree

-----------------------------------------------------------------------------
\* Kernel tasks always run with interrupts enabled, user tasks in user mode.
Interruptible == ~torn /\ (k.current \in Kernel \/ pc[k.current] = "user")

\* scheduler_irq0() at the end of a time slice.
scheduler_irq0 ==
  /\ Interruptible
  /\ k' = yield(k)
  /\ UNCHANGED <<pc, on, pid, wq, queues, term, quitter, last_pid, children, torn>>

\* A key arrives: signal_queue() from the keyboard interrupt.
irq1 ==
  /\ Interruptible
  /\ ~SignalIsNoop(k, KbdQueue)
  /\ k' = unlock_task_switches(SignalBody(lock_task_switches(k), KbdQueue))
  /\ UNCHANGED <<pc, on, pid, wq, queues, term, quitter, last_pid, children, torn>>

Next ==
  \/ \E t \in User : fork(t) \/ exec(t) \/ exit(t) \/ read(t) \/ Return(t)
  \/ \E t \in User, p \in 0 .. MaxPid : wait(t, p)
  \/ TermStep
  \/ DrainInterrupted
  \/ CheckInterrupted
  \/ scheduler_irq0
  \/ irq1
  \/ Stopped

Spec == Init /\ [][Next]_vars

\* The timer keeps firing, and a task that is switched in again and again gets
\* on with the kernel code it is in.
Fairness ==
  /\ SF_vars(scheduler_irq0)
  /\ SF_vars(TermStep)
  /\ \A t \in User : SF_vars(Return(t))

FairSpec == Spec /\ Fairness

-----------------------------------------------------------------------------
\* first and last are the ends of a list, through `next', of the tasks of S.
IsList(first, last, S) ==
  LET n == Cardinality(S)
      at == Walk(k, first)
  IN  /\ {at[i] : i \in 1 .. n} = S
      /\ at[n + 1] = NULL
      /\ last = IF n = 0 THEN NULL ELSE at[n]

Allocated == {t \in Task : k.state[t] # TASK_STATE_NONE}

Exiting == {t \in Allocated : pc[t] = "exit"}

Live == Allocated \ Exiting

(***************************************************************************)
(* The termination queue holds exactly the tasks that have exited and are  *)
(* not being taken apart, each once, and its count is their number: no     *)
(* exited task is forgotten, and none is freed twice (task.c,              *)
(* terminate_task and terminator_task_main).                               *)
(***************************************************************************)
ExitsQueued ==
  LET q == k.queue[TermQueue]
  IN  /\ IsList(q.first_task, q.last_task, Exiting \ {quitter})
      /\ q.amount_waiting = Cardinality(Exiting \ {quitter})

\* So it is as long as no key has torn the ready list.
ExitQueueOK == torn \/ ExitsQueued

(***************************************************************************)
(* Nothing points to a freed task: not the scheduler, not the ready list,  *)
(* not a queue that can still be signalled (task.c, kfree(quitter)).       *)
(***************************************************************************)
PointersLive ==
  /\ {k.current} \cup ({term, quitter} \ {NULL}) \subseteq Allocated
  /\ IsList(k.first_task, k.last_task,
            {t \in Task : k.state[t] \in {TASK_STATE_ZERO, TASK_STATE_READY}})
  /\ \A q \in queues \cup {KbdQueue} :
       {k.queue[q].first_task, k.queue[q].last_task} \ {NULL} \subseteq Live

\* So it is as long as no key has torn the ready list.
NoDanglingTask == torn \/ PointersLive

(***************************************************************************)
(* Each wait queue has one owner, also across the hand-over in exec(), so  *)
(* that it is freed once; and a task that is blocked in wait() waits on a  *)
(* queue whose owner still is there to signal it.                          *)
(***************************************************************************)
WaitersHaveTarget ==
  /\ \A t, u \in Allocated : wq[t] = wq[u] /\ wq[t] # NULL => t = u
  /\ \A t \in Allocated :
       pc[t] = "wait" /\ k.state[t] = TASK_STATE_BLOCK
         => \E u \in Allocated : wq[u] = on[t] /\ on[t] \in queues

\* A pid names one live user task, also after exec() (syscalls.c, exec).
PidsUnique ==
  \A t, u \in Live \cap User : pid[t] = pid[u] => t = u

\* Identities: pids and wait queues have one owner, and who waits has a target,
\* whatever fork, exec and the terminator do in between, as long as no key has
\* torn the ready list.
TasksOK ==
  /\ torn \in BOOLEAN
  /\ torn \/ (TypeOK /\ PidsUnique /\ WaitersHaveTarget)

\* signal_queue() has lost a waiter (see sched_lost_waiter): the count of a queue
\* says that somebody waits, and the list is empty.  The terminator's loop over
\* such a queue does not end.
LostWaiter ==
  \E q \in queues : k.queue[q].amount_waiting > 0 /\ k.queue[q].first_task = NULL

\* "The exit() syscall never returns.  It always results in the termination of
\* a task, regardless of anything else" (syscalls.c): its structure is freed,
\* unless a waiter was lost or the ready list torn.
ExitTerminates ==
  \A t \in User :
    pc[t] = "exit" ~> k.state[t] = TASK_STATE_NONE \/ LostWaiter \/ torn

\* What t waits for has exited.
TargetExits(t) ==
  /\ pc[t] = "wait"
  /\ \E c \in User : wq[c] # NULL /\ on[t] = wq[c] /\ pc[c] = "exit"

\* A task that waits for one that exits gets to return (task.c, the loop over
\* the quitter's wait_queue), unless a waiter was lost or the ready list torn.
WaitReturns ==
  \A t \in User : TargetExits(t) ~> pc[t] = "user" \/ LostWaiter \/ torn

=============================================================================
