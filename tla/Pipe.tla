-------------------------------- MODULE Pipe --------------------------------
(***************************************************************************)
(* A pipe (pipe.c, vfs_read_pipe in read.c, vfs_write_pipe in write.c) and *)
(* the keyboard driver as a writer that cannot wait (kbd_flush in kbd.c).  *)
(*                                                                         *)
(* The steps of a call are the stretches of code that no task switch can   *)
(* divide as far as the pipe is concerned: a turn of the loop is protected *)
(* by the mutex, and the three calls before a wait by the task switch      *)
(* lock.  Which task runs next is left open (Sched models that).           *)
(*                                                                         *)
(* Of the waiting lists of the mutex and of the queues only the first task *)
(* matters: whoever wakes it forgets the others, because unblock_task()    *)
(* has already cleared the link (TaskOps, UnlinkFirstWaiter).              *)
(*                                                                         *)
(*   mem       the bytes stored: pipe_mem up to size                       *)
(*   mutex     current_count and first waiter of the mutex                 *)
(*   rq, wq    read_queue and write_queue: amount_waiting and first task   *)
(*   blocked   the tasks in the state TASK_STATE_BLOCK                     *)
(*   amount    what is left to do of the call of each task                 *)
(*   written   how many bytes each writer has put into the pipe            *)
(*   taken     the bytes read, in the order they left the pipe             *)
(*   isKbd     this is the keyboard's pipe: the driver is its only writer  *)
(*   users     the tasks that have an end of this pipe                     *)
(***************************************************************************)
EXTENDS Naturals, Sequences

CONSTANTS
  Reader, Writer,     \* the tasks with the read and the write end
  NULL,
  DEFAULT_PIPE_SIZE,
  Ends,               \* which tasks may have an end of the pipe, in all cases
  Amount,             \* the amounts that are asked for in one call
  MaxBytes            \* bound on the bytes that each writer sends

ASSUME PipeAssumption ==
  /\ Reader \cap Writer = {}
  /\ "kbd" \notin Writer
  /\ NULL \notin Reader \cup Writer
  /\ DEFAULT_PIPE_SIZE \in Nat \ {0}
  /\ Ends \subseteq SUBSET (Reader \cup Writer)
  /\ Amount \subseteq Nat \ {0}
  /\ MaxBytes \in Nat

Task == Reader \cup Writer

Source == Writer \cup {"kbd"}

\* The i-th byte of a writer.
Byte == Source \X (1 .. MaxBytes)

VARIABLES mem, mutex, rq, wq, blocked, pc, amount, written, taken, isKbd, users

vars == <<mem, mutex, rq, wq, blocked, pc, amount, written, taken, isKbd, users>>

TaskOrNull == Task \cup {NULL}

QueueState == [amount_waiting : Nat, first_task : TaskOrNull]

\* The type of the state; size never exceeds the memory of the pipe.
TypeOK ==
  /\ mem \in Seq(Byte) /\ Len(mem) <= DEFAULT_PIPE_SIZE
  /\ mutex \in [current_count : 0 .. 1, first_waiting_task : TaskOrNull]
  /\ rq \in QueueState
  /\ wq \in QueueState
  /\ blocked \subseteq Task
  /\ pc \in [Task -> {"idle", "loop", "reacquire", "release"}]
  /\ amount \in [Task -> Nat]
  /\ written \in [Source -> 0 .. MaxBytes]
  /\ taken \in Seq(Byte)
  /\ isKbd \in BOOLEAN
  /\ users \in Ends

\* kpipeu().
Init ==
  /\ mem = <<>>
  /\ mutex = [current_count |-> 0, first_waiting_task |-> NULL]
  /\ rq = [amount_waiting |-> 0, first_task |-> NULL]
  /\ wq = [amount_waiting |-> 0, first_task |-> NULL]
  /\ blocked = {}
  /\ pc = [t \in Task |-> "idle"]
  /\ amount = [t \in Task |-> 0]
  /\ written = [w \in Source |-> 0]
  /\ taken = <<>>
  /\ isKbd \in BOOLEAN
  /\ users \in Ends

-----------------------------------------------------------------------------
(***************************************************************************)
(* The semaphore and queue calls, on the fields they touch.                *)
(***************************************************************************)
FirstOr(first, t) == IF first = NULL THEN t ELSE first

acquire_semaphore(t) ==
  IF mutex.current_count >= 1
  THEN /\ mutex' = [mutex EXCEPT !.first_waiting_task = FirstOr(@, t)]
       /\ blocked' = blocked \cup {t}
  ELSE /\ mutex' = [mutex EXCEPT !.current_count = @ + 1]
       /\ UNCHANGED blocked

ReleasedMutex ==
  IF mutex.first_waiting_task = NULL
  THEN [mutex EXCEPT !.current_count = @ - 1]
  ELSE [mutex EXCEPT !.first_waiting_task = NULL]

wait_queue(q, t) ==
  [amount_waiting |-> q.amount_waiting + 1, first_task |-> FirstOr(q.first_task, t)]

signal_queue(q) ==
  IF q.amount_waiting = 0 \/ q.first_task = NULL THEN q
  ELSE [amount_waiting |-> q.amount_waiting - 1, first_task |-> NULL]

Signalled(q) == IF q.amount_waiting = 0 THEN {NULL} ELSE {q.first_task}

Lesser(a, b) == IF a > b THEN b ELSE a

-----------------------------------------------------------------------------
(***************************************************************************)
(* vfs_read_pipe() and vfs_write_pipe() have the same shape.               *)
(***************************************************************************)
Awake(t, place) == t \notin blocked /\ pc[t] = place

Call(t, n) ==
  /\ Awake(t, "idle")
  /\ acquire_semaphore(t)
  /\ pc' = [pc EXCEPT ![t] = "loop"]
  /\ amount' = [amount EXCEPT ![t] = n]
  /\ UNCHANGED <<mem, rq, wq, written, taken, isKbd, users>>

read(t, n) == t \in Reader \cap users /\ Call(t, n)

write(t, n) ==
  ~isKbd /\ t \in Writer \cap users /\ written[t] + n <= MaxBytes /\ Call(t, n)

Reacquire(t) ==
  /\ Awake(t, "reacquire")
  /\ acquire_semaphore(t)
  /\ pc' = [pc EXCEPT ![t] = "loop"]
  /\ UNCHANGED <<mem, rq, wq, amount, written, taken, isKbd, users>>

ReadOvertakes_Mutant(t) ==
  LET to_read == Lesser(Len(mem), amount[t])
      last == Len(mem) - to_read
  IN  /\ t \in Reader
      /\ Awake(t, "loop")
      /\ to_read > 0
      /\ taken' = taken \o SubSeq(mem, last + 1, Len(mem))
      /\ mem' = SubSeq(mem, 1, last)
      /\ amount' = [amount EXCEPT ![t] = @ - to_read]
      /\ UNCHANGED <<mutex, rq, wq, blocked, pc, written, isKbd, users>>

\* A turn of the loop that finds something to read.
ReadSome(t) ==
  LET to_read == Lesser(Len(mem), amount[t])
  IN  /\ t \in Reader
      /\ Awake(t, "loop")
      /\ to_read > 0
      /\ taken' = taken \o SubSeq(mem, 1, to_read)
      /\ mem' = SubSeq(mem, to_read + 1, Len(mem))
      /\ amount' = [amount EXCEPT ![t] = @ - to_read]
      /\ UNCHANGED <<mutex, rq, wq, blocked, pc, written, isKbd, users>>

ReadWaitKeepsMutex_Mutant(t) ==
  /\ t \in Reader
  /\ Awake(t, "loop")
  /\ amount[t] > 0
  /\ Len(mem) = 0
  /\ rq' = wait_queue(rq, t)
  /\ wq' = signal_queue(wq)
  /\ blocked' = (blocked \cup {t}) \ Signalled(wq)
  /\ pc' = [pc EXCEPT ![t] = "loop"]
  /\ UNCHANGED <<mem, mutex, amount, written, taken, isKbd, users>>

ReadWaitNoSignal_Mutant(t) ==
  /\ t \in Reader
  /\ Awake(t, "loop")
  /\ amount[t] > 0
  /\ Len(mem) = 0
  /\ rq' = wait_queue(rq, t)
  /\ mutex' = ReleasedMutex
  /\ blocked' = (blocked \cup {t}) \ {mutex.first_waiting_task}
  /\ pc' = [pc EXCEPT ![t] = "reacquire"]
  /\ UNCHANGED <<mem, wq, amount, written, taken, isKbd, users>>

\* A turn that finds the pipe empty: wait_queue(), release_semaphore() and
\* signal_queue(), then the block.
ReadWait(t) ==
  /\ t \in Reader
  /\ Awake(t, "loop")
  /\ amount[t] > 0
  /\ Len(mem) = 0
  /\ rq' = wait_queue(rq, t)
  /\ mutex' = ReleasedMutex
  /\ wq' = signal_queue(wq)
  /\ blocked' = (blocked \cup {t}) \ ({mutex.first_waiting_task} \cup Signalled(wq))
  /\ pc' = [pc EXCEPT ![t] = "reacquire"]
  /\ UNCHANGED <<mem, amount, written, taken, isKbd, users>>

ReadSignal(t) ==
  /\ t \in Reader
  /\ Awake(t, "loop")
  /\ amount[t] = 0
  /\ wq' = signal_queue(wq)
  /\ blocked' = blocked \ Signalled(wq)
  /\ pc' = [pc EXCEPT ![t] = "release"]
  /\ UNCHANGED <<mem, mutex, rq, amount, written, taken, isKbd, users>>

\* A turn of the loop that finds room.
WriteSome(t) ==
  LET to_write == Lesser(DEFAULT_PIPE_SIZE - Len(mem), amount[t])
  IN  /\ t \in Writer
      /\ Awake(t, "loop")
      /\ to_write > 0
      /\ mem' = mem \o [i \in 1 .. to_write |-> <<t, written[t] + i>>]
      /\ written' = [written EXCEPT ![t] = @ + to_write]
      /\ amount' = [amount EXCEPT ![t] = @ - to_write]
      /\ UNCHANGED <<mutex, rq, wq, blocked, pc, taken, isKbd, users>>

\* A turn that finds the pipe full.
WriteWait(t) ==
  /\ t \in Writer
  /\ Awake(t, "loop")
  /\ amount[t] > 0
  /\ Len(mem) = DEFAULT_PIPE_SIZE
  /\ wq' = wait_queue(wq, t)
  /\ mutex' = ReleasedMutex
  /\ rq' = signal_queue(rq)
  /\ blocked' = (blocked \cup {t}) \ ({mutex.first_waiting_task} \cup Signalled(rq))
  /\ pc' = [pc EXCEPT ![t] = "reacquire"]
  /\ UNCHANGED <<mem, amount, written, taken, isKbd, users>>

WriteNoSignal_Mutant(t) ==
  /\ t \in Writer
  /\ Awake(t, "loop")
  /\ amount[t] = 0
  /\ pc' = [pc EXCEPT ![t] = "release"]
  /\ UNCHANGED <<mem, mutex, rq, wq, blocked, amount, written, taken, isKbd, users>>

WriteSignal(t) ==
  /\ t \in Writer
  /\ Awake(t, "loop")
  /\ amount[t] = 0
  /\ rq' = signal_queue(rq)
  /\ blocked' = blocked \ Signalled(rq)
  /\ pc' = [pc EXCEPT ![t] = "release"]
  /\ UNCHANGED <<mem, mutex, wq, amount, written, taken, isKbd, users>>

Release(t) ==
  /\ Awake(t, "release")
  /\ mutex' = ReleasedMutex
  /\ blocked' = blocked \ {mutex.first_waiting_task}
  /\ pc' = [pc EXCEPT ![t] = "idle"]
  /\ UNCHANGED <<mem, rq, wq, amount, written, taken, isKbd, users>>

KbdOverwrites_Mutant(n) ==
  LET to_cpy == Lesser(n, DEFAULT_PIPE_SIZE - Len(mem))
  IN  /\ isKbd
      /\ written["kbd"] + n <= MaxBytes
      /\ mem' = [i \in 1 .. to_cpy |-> <<"kbd", written["kbd"] + i>>]
      /\ written' = [written EXCEPT !["kbd"] = @ + to_cpy]
      /\ rq' = signal_queue(rq)
      /\ blocked' = blocked \ Signalled(rq)
      /\ UNCHANGED <<mutex, wq, pc, amount, taken, isKbd, users>>

KbdNoSignal_Mutant(n) ==
  LET to_cpy == Lesser(n, DEFAULT_PIPE_SIZE - Len(mem))
  IN  /\ isKbd
      /\ written["kbd"] + n <= MaxBytes
      /\ mem' = mem \o [i \in 1 .. to_cpy |-> <<"kbd", written["kbd"] + i>>]
      /\ written' = [written EXCEPT !["kbd"] = @ + to_cpy]
      /\ UNCHANGED <<rq, blocked>>
      /\ UNCHANGED <<mutex, wq, pc, amount, taken, isKbd, users>>

(***************************************************************************)
(* Enter is pressed after n keys.  kbd_flush() runs in the interrupt       *)
(* handler: it takes no mutex, and cuts off what does not fit.  The        *)
(* readers of this pipe are user tasks, which are not interrupted inside   *)
(* a turn of the loop.                                                     *)
(***************************************************************************)
kbd_flush(n) ==
  LET to_cpy == IF Len(mem) + n > DEFAULT_PIPE_SIZE THEN DEFAULT_PIPE_SIZE - Len(mem)
                                                    ELSE n
  IN  /\ isKbd
      /\ written["kbd"] + n <= MaxBytes
      /\ mem' = mem \o [i \in 1 .. to_cpy |-> <<"kbd", written["kbd"] + i>>]
      /\ written' = [written EXCEPT !["kbd"] = @ + to_cpy]
      /\ rq' = signal_queue(rq)
      /\ blocked' = blocked \ Signalled(rq)
      /\ UNCHANGED <<mutex, wq, pc, amount, taken, isKbd, users>>

ReadStep(t) == ReadSome(t) \/ ReadWait(t) \/ ReadSignal(t)

WriteStep(t) == WriteSome(t) \/ WriteWait(t) \/ WriteSignal(t)

CallStep(t) == ReadStep(t) \/ WriteStep(t) \/ Reacquire(t) \/ Release(t)

Next ==
  \/ \E t \in Task, n \in Amount : read(t, n) \/ write(t, n)
  \/ \E t \in Task : CallStep(t)
  \/ \E n \in Amount : kbd_flush(n)

Spec == Init /\ [][Next]_vars

(***************************************************************************)
(* Every task that is not blocked gets on with its call (Sched: the        *)
(* scheduler is round-robin), and the readers keep reading, as the console *)
(* reader in kernel_main does.                                             *)
(***************************************************************************)
Fairness ==
  /\ \A t \in Task : WF_vars(CallStep(t))
  /\ \A t \in Reader : WF_vars(\E n \in Amount : read(t, n))

FairSpec == Spec /\ Fairness

-----------------------------------------------------------------------------
Channel == INSTANCE ByteChannel WITH channel <- mem, Capacity <- DEFAULT_PIPE_SIZE

\* A pipe is a bounded FIFO channel: vfs_write_pipe() only appends and
\* vfs_read_pipe() only takes from the front, in spite of the waiting, the
\* partial turns and the move of the rest to the start of the memory.
PipeIsChannel == Channel!Spec

(***************************************************************************)
(* The bytes of each writer arrive complete and in the order of its        *)
(* writes, also when other writers get in between the turns of one call:   *)
(* what has gone into the pipe are the bytes 1, 2, ... of each writer,     *)
(* each once.                                                              *)
(***************************************************************************)
Stream == taken \o mem

InOrder ==
  /\ \A k \in DOMAIN Stream : Stream[k][2] <= written[Stream[k][1]]
  /\ \A w \in Source : \A n \in 1 .. written[w] :
       \E k \in DOMAIN Stream : Stream[k] = <<w, n>>
  /\ \A k, l \in DOMAIN Stream :
       k < l /\ Stream[k][1] = Stream[l][1] => Stream[k][2] < Stream[l][2]

(***************************************************************************)
(* At most one task is between an acquire and a release of the mutex, and  *)
(* the mutex is taken exactly then: what a task that waits on a queue      *)
(* gives back is never left with it (read.c and write.c, the calls before  *)
(* unlock_task_switches()).                                                *)
(***************************************************************************)
Inside == {t \in Task \ blocked : pc[t] \in {"loop", "release"}}

OneInside ==
  /\ mutex.current_count = 0 => Inside = {}
  /\ mutex.current_count = 1 => \E t \in Task : Inside = {t}

\* A task that a release or a signal will wake is asleep, where it waits for that.
Waits(t, place) == t \in blocked /\ pc[t] = place

WaitersOK ==
  /\ mutex.first_waiting_task # NULL =>
       Waits(mutex.first_waiting_task, "loop") /\ mutex.current_count = 1
  /\ rq.first_task # NULL =>
       rq.first_task \in Reader /\ Waits(rq.first_task, "reacquire") /\ rq.amount_waiting > 0
  /\ wq.first_task # NULL =>
       wq.first_task \in Writer /\ Waits(wq.first_task, "reacquire") /\ wq.amount_waiting > 0

\* One reader and one writer: with more, the waiting lists forget tasks.
OnePair == \E r \in Reader, w \in Writer : users = {r, w}

\* Then whoever sleeps on a queue is the one that a signal wakes.
NoneForgotten ==
  OnePair => \A t \in Task : Waits(t, "reacquire") => t \in {rq.first_task, wq.first_task}

\* Only the tasks that have an end use the pipe, and none goes past its bound.
UsersOK ==
  /\ \A t \in Task \ users : pc[t] = "idle" /\ t \notin blocked
  /\ \A w \in Writer : written[w] + amount[w] <= MaxBytes

\* The pipe never holds more than its memory, though the keyboard writes past
\* the mutex; the mutex is taken exactly while a task is inside; and the first
\* task of each waiting list is asleep where the wake-up finds it.
PipeOK == TypeOK /\ OneInside /\ WaitersOK /\ NoneForgotten /\ UsersOK

(***************************************************************************)
(* No wake-up is lost between one reader and one writer: a reader sleeps   *)
(* on the read queue only while the pipe is empty, or a writer that has    *)
(* written is inside and still has to signal; and the same for the writer. *)
(***************************************************************************)
NoLostWakeup ==
  OnePair =>
  /\ \A r \in Reader : Waits(r, "reacquire")
       => \/ mem = <<>>
          \/ \E w \in Writer : pc[w] = "loop" /\ w \notin blocked
  /\ \A w \in Writer : Waits(w, "reacquire")
       => \/ Len(mem) = DEFAULT_PIPE_SIZE
          \/ \E r \in Reader : pc[r] = "loop" /\ r \notin blocked

\* What is written is read, as long as the readers keep reading.
BytesArrive ==
  \A n \in 1 .. MaxBytes : OnePair /\ Len(taken) + Len(mem) >= n ~> Len(taken) >= n

\* A write returns, as long as the readers keep reading: the queues "help us
\* notify other processes when the file is written to/read from" (fs.h, struct
\* file_vnode).
WriteReturns ==
  \A w \in Writer : OnePair /\ pc[w] # "idle" ~> pc[w] = "idle"

=============================================================================
