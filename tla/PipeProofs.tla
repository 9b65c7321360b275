----------------------------- MODULE PipeProofs -----------------------------
(***************************************************************************)
(* Proofs about Pipe, for any readers and writers, any size of the pipe    *)
(* and any bound on what is sent.                                          *)
(***************************************************************************)
EXTENDS Pipe, SequenceTheorems, TLAPS

\* PipeOK in two parts: who waits where, and what is in the pipe.
ControlOK ==
  /\ mutex \in [current_count : 0 .. 1, first_waiting_task : TaskOrNull]
  /\ rq \in QueueState
  /\ wq \in QueueState
  /\ blocked \subseteq Task
  /\ pc \in [Task -> {"idle", "loop", "reacquire", "release"}]
  /\ users \in Ends
  /\ OneInside
  /\ WaitersOK
  /\ NoneForgotten
  /\ \A t \in Task \ users : pc[t] = "idle" /\ t \notin blocked

DataOK ==
  /\ mem \in Seq(Byte) /\ Len(mem) <= DEFAULT_PIPE_SIZE
  /\ amount \in [Task -> Nat]
  /\ written \in [Source -> 0 .. MaxBytes]
  /\ taken \in Seq(Byte)
  /\ isKbd \in BOOLEAN
  /\ \A w \in Writer : written[w] + amount[w] <= MaxBytes

LEMMA Parts == PipeOK <=> ControlOK /\ DataOK
BY DEF PipeOK, TypeOK, UsersOK, ControlOK, DataOK

LEMMA PartsAfter == ASSUME ControlOK', DataOK' PROVE PipeOK'
BY DEF PipeOK, TypeOK, UsersOK, ControlOK, DataOK

-----------------------------------------------------------------------------
(***************************************************************************)
(* Sequences.                                                              *)
(***************************************************************************)
LEMMA RunIsSeq ==
  ASSUME NEW S, NEW n \in Nat, NEW r \in [1 .. n -> S]
  PROVE  r \in Seq(S) /\ Len(r) = n
OBVIOUS

LEMMA Regroup ==
  ASSUME NEW s \in Seq(Byte), NEW u \in Seq(Byte), NEW v \in Seq(Byte)
  PROVE  (s \o u) \o v = s \o (u \o v)
OBVIOUS

\* Cutting a sequence in two loses nothing.
LEMMA Cut ==
  ASSUME NEW S, NEW s \in Seq(S), NEW n \in 0 .. Len(s)
  PROVE  /\ SubSeq(s, 1, n) \in Seq(S) /\ Len(SubSeq(s, 1, n)) = n
         /\ SubSeq(s, n + 1, Len(s)) \in Seq(S) /\ Len(SubSeq(s, n + 1, Len(s))) = Len(s) - n
         /\ SubSeq(s, 1, n) \o SubSeq(s, n + 1, Len(s)) = s
<1>1. Len(s) \in Nat /\ n \in Nat /\ \A i \in 1 .. Len(s) : s[i] \in S
  BY LenProperties
<1>2. SubSeq(s, 1, n) \in Seq(S) /\ Len(SubSeq(s, 1, n)) = n
  BY <1>1, SubSeqProperties
<1>3. /\ SubSeq(s, n + 1, Len(s)) \in Seq(S) /\ Len(SubSeq(s, n + 1, Len(s))) = Len(s) - n
      /\ \A i \in 1 .. Len(s) - n : SubSeq(s, n + 1, Len(s))[i] = s[n + i]
  <2>1. n + 1 \in Int /\ Len(s) \in Int /\ \A i \in n + 1 .. Len(s) : s[i] \in S
    BY <1>1
  <2>2. /\ SubSeq(s, n + 1, Len(s)) \in Seq(S)
        /\ Len(SubSeq(s, n + 1, Len(s))) = IF n + 1 <= Len(s) THEN Len(s) - (n + 1) + 1 ELSE 0
        /\ \A i \in 1 .. Len(s) - (n + 1) + 1 : SubSeq(s, n + 1, Len(s))[i] = s[(n + 1) + i - 1]
    BY <2>1, SubSeqProperties
  <2> QED
    BY <2>2, <1>1
<1>4. \A i \in 1 .. n : SubSeq(s, 1, n)[i] = s[i]
  BY <1>1, SubSeqProperties
<1>5. PICK u, v : u = SubSeq(s, 1, n) /\ v = SubSeq(s, n + 1, Len(s))
  OBVIOUS
<1>6. u \o v = s
  <2>1. u \in Seq(S) /\ v \in Seq(S) /\ Len(u) = n /\ Len(v) = Len(s) - n
    BY <1>2, <1>3, <1>5
  <2>2. /\ u \o v \in Seq(S) /\ Len(u \o v) = Len(s)
        /\ \A i \in 1 .. Len(s) : (u \o v)[i] = IF i <= n THEN u[i] ELSE v[i - n]
    BY <2>1, <1>1, ConcatProperties
  <2>3. ASSUME NEW i \in 1 .. Len(s) PROVE (u \o v)[i] = s[i]
    <3>1. CASE i <= n
      <4>1. i \in 1 .. n
        BY <3>1, <1>1
      <4>2. u[i] = s[i]
        BY <4>1, <1>4, <1>5
      <4> QED
        BY <3>1, <4>2, <2>2
    <3>2. CASE ~(i <= n)
      <4>1. i - n \in 1 .. Len(s) - n /\ n + (i - n) = i
        BY <3>2, <1>1
      <4>2. v[i - n] = s[n + (i - n)]
        BY <4>1, <1>3, <1>5
      <4> QED
        BY <3>2, <4>1, <4>2, <2>2
    <3> QED
      BY <3>1, <3>2
  <2> QED
    BY <2>2, <2>3, SeqEqual
<1> QED
  BY <1>2, <1>3, <1>5, <1>6

-----------------------------------------------------------------------------
(***************************************************************************)
(* The mutex and the queues.                                               *)
(***************************************************************************)

\* acquire_semaphore() by a task that is outside.
LEMMA AcquireControl ==
  ASSUME ControlOK, NEW t \in Task \cap users, t \notin blocked, pc[t] \in {"idle", "reacquire"},
         acquire_semaphore(t), pc' = [pc EXCEPT ![t] = "loop"], UNCHANGED <<rq, wq, users>>
  PROVE  ControlOK'
<1> USE DEF ControlOK
<1>0. t # NULL /\ t \in Task
  BY PipeAssumption DEF Task
<1>1. \A u \in Task : pc'[u] = IF u = t THEN "loop" ELSE pc[u]
  OBVIOUS
<1>2. t \notin Inside
  BY DEF Inside
<1>3. /\ mutex.first_waiting_task # t /\ rq.first_task # t /\ wq.first_task # t
  BY <1>0 DEF WaitersOK, Waits
<1>4. CASE mutex.current_count >= 1
  <2>1. /\ mutex' = [mutex EXCEPT !.first_waiting_task = FirstOr(@, t)]
        /\ blocked' = blocked \cup {t} /\ mutex.current_count = 1
    BY <1>4 DEF acquire_semaphore
  <2>2. /\ mutex' \in [current_count : 0 .. 1, first_waiting_task : TaskOrNull]
        /\ mutex'.current_count = 1
        /\ mutex'.first_waiting_task = IF mutex.first_waiting_task = NULL THEN t
                                       ELSE mutex.first_waiting_task
    BY <2>1 DEF FirstOr, TaskOrNull
  <2>3. Inside' = Inside
    BY <2>1, <1>1, <1>2 DEF Inside
  <2>4. OneInside'
    BY <2>1, <2>2, <2>3 DEF OneInside
  <2>5. WaitersOK'
    BY <2>1, <2>2, <1>0, <1>1, <1>3 DEF WaitersOK, Waits, TaskOrNull, QueueState
  <2>6. NoneForgotten'
    BY <2>1, <1>1 DEF NoneForgotten, Waits, OnePair
  <2>7. \A u \in Task \ users' : pc'[u] = "idle" /\ u \notin blocked'
    BY <2>1, <1>1
  <2> QED
    BY <2>1, <2>2, <2>4, <2>5, <2>6, <2>7
<1>5. CASE mutex.current_count = 0
  <2>1. /\ mutex' = [mutex EXCEPT !.current_count = @ + 1] /\ blocked' = blocked
    BY <1>5 DEF acquire_semaphore
  <2>2. /\ mutex' \in [current_count : 0 .. 1, first_waiting_task : TaskOrNull]
        /\ mutex'.current_count = 1
        /\ mutex'.first_waiting_task = mutex.first_waiting_task
    BY <2>1, <1>5
  <2>3. Inside' = {t}
    BY <2>1, <1>0, <1>1, <1>5 DEF Inside, OneInside
  <2>4. OneInside'
    BY <2>2, <2>3, <1>0 DEF OneInside
  <2>5. WaitersOK'
    BY <2>1, <2>2, <1>0, <1>1, <1>3, <1>5 DEF WaitersOK, Waits, TaskOrNull, QueueState
  <2>6. NoneForgotten'
    BY <2>1, <1>1 DEF NoneForgotten, Waits, OnePair
  <2>7. \A u \in Task \ users' : pc'[u] = "idle" /\ u \notin blocked'
    BY <2>1, <1>1
  <2> QED
    BY <2>1, <2>2, <2>4, <2>5, <2>6, <2>7
<1> QED
  BY <1>4, <1>5

\* What a release does: it hands the mutex to the first waiting task, or frees it.
LEMMA ReleaseFacts ==
  ASSUME ControlOK, NEW t \in Inside
  PROVE  /\ Inside = {t} /\ mutex.current_count = 1 /\ t \in Task /\ t \notin blocked
         /\ t \in users /\ t # NULL
         /\ ReleasedMutex \in [current_count : 0 .. 1, first_waiting_task : TaskOrNull]
         /\ ReleasedMutex.first_waiting_task = NULL
         /\ ReleasedMutex.current_count = IF mutex.first_waiting_task = NULL THEN 0 ELSE 1
         /\ mutex.first_waiting_task # t /\ rq.first_task # t /\ wq.first_task # t
         /\ mutex.first_waiting_task # NULL =>
              /\ mutex.first_waiting_task \in Task \cap blocked
              /\ pc[mutex.first_waiting_task] = "loop"
              /\ mutex.first_waiting_task \in users
         /\ rq.first_task # NULL => rq.first_task # mutex.first_waiting_task
         /\ wq.first_task # NULL => wq.first_task # mutex.first_waiting_task
<1> USE DEF ControlOK
<1>1. t \in Task /\ t \notin blocked /\ t # NULL /\ t \in users
  BY PipeAssumption DEF Inside, Task
<1>2. mutex.current_count \in {0, 1}
  OBVIOUS
<1>3. Inside = {t} /\ mutex.current_count = 1
  BY <1>2 DEF OneInside
<1>4. /\ ReleasedMutex \in [current_count : 0 .. 1, first_waiting_task : TaskOrNull]
      /\ ReleasedMutex.first_waiting_task = NULL
      /\ ReleasedMutex.current_count = IF mutex.first_waiting_task = NULL THEN 0 ELSE 1
  BY <1>3 DEF ReleasedMutex, TaskOrNull
<1>5. mutex.first_waiting_task # NULL => Waits(mutex.first_waiting_task, "loop")
  BY DEF WaitersOK
<1>6. /\ rq.first_task # NULL => Waits(rq.first_task, "reacquire")
      /\ wq.first_task # NULL => Waits(wq.first_task, "reacquire")
  BY DEF WaitersOK
<1>7. mutex.first_waiting_task # NULL =>
              /\ mutex.first_waiting_task \in Task \cap blocked
              /\ pc[mutex.first_waiting_task] = "loop"
              /\ mutex.first_waiting_task \in users
  BY <1>5 DEF Waits
<1>8. /\ mutex.first_waiting_task # t /\ rq.first_task # t /\ wq.first_task # t
  BY <1>1, <1>5, <1>6 DEF Waits
<1>9. /\ rq.first_task # NULL => rq.first_task # mutex.first_waiting_task
      /\ wq.first_task # NULL => wq.first_task # mutex.first_waiting_task
  BY <1>5, <1>6 DEF Waits
<1> QED
  BY <1>1, <1>3, <1>4, <1>7, <1>8, <1>9

\* signal_queue(), by what it does to the first task of the queue.
LEMMA SignalFacts ==
  ASSUME NEW q \in QueueState, q.first_task # NULL => q.amount_waiting > 0
  PROVE  /\ signal_queue(q) \in QueueState
         /\ signal_queue(q).first_task = NULL
         /\ Signalled(q) \subseteq {NULL, q.first_task}
         /\ q.first_task # NULL => q.first_task \in Signalled(q)
<1>1. q.amount_waiting \in Nat /\ q.first_task \in TaskOrNull
  BY DEF QueueState
<1>2. CASE q.first_task = NULL
  BY <1>1, <1>2 DEF signal_queue, Signalled
<1>3. CASE q.first_task # NULL
  <2>1. q.amount_waiting > 0
    BY <1>3
  <2>2. signal_queue(q) = [amount_waiting |-> q.amount_waiting - 1, first_task |-> NULL]
    BY <1>1, <1>3, <2>1 DEF signal_queue
  <2>3. Signalled(q) = {q.first_task}
    BY <1>1, <2>1 DEF Signalled
  <2>4. q.amount_waiting - 1 \in Nat
    BY <1>1, <2>1
  <2> QED
    BY <2>2, <2>3, <2>4 DEF QueueState, TaskOrNull
<1> QED
  BY <1>2, <1>3

\* wait_queue() by a task, on a queue.
LEMMA WaitFacts ==
  ASSUME NEW q \in QueueState, NEW t \in Task
  PROVE  /\ wait_queue(q, t) \in QueueState
         /\ wait_queue(q, t).amount_waiting > 0
         /\ wait_queue(q, t).first_task = IF q.first_task = NULL THEN t ELSE q.first_task
BY DEF wait_queue, FirstOr, QueueState, TaskOrNull

LEMMA ReleaseControl ==
  ASSUME ControlOK, NEW t \in Inside,
         mutex' = ReleasedMutex, blocked' = blocked \ {mutex.first_waiting_task},
         pc' = [pc EXCEPT ![t] = "idle"], UNCHANGED <<rq, wq, users>>
  PROVE  ControlOK'
<1> DEFINE m == mutex.first_waiting_task
<1>1. /\ Inside = {t} /\ t \in Task /\ t \notin blocked /\ t \in users /\ t # NULL
      /\ mutex' \in [current_count : 0 .. 1, first_waiting_task : TaskOrNull]
      /\ mutex'.first_waiting_task = NULL
      /\ mutex'.current_count = IF m = NULL THEN 0 ELSE 1
      /\ rq.first_task # t /\ wq.first_task # t
      /\ m # NULL => m \in Task \cap blocked /\ pc[m] = "loop" /\ m \in users
      /\ rq.first_task # NULL => rq.first_task # m
      /\ wq.first_task # NULL => wq.first_task # m
      /\ m # t
  BY ReleaseFacts
<1> HIDE DEF m
<1>2. /\ \A u \in Task : pc'[u] = IF u = t THEN "idle" ELSE pc[u]
      /\ pc' \in [Task -> {"idle", "loop", "reacquire", "release"}]
      /\ blocked' = blocked \ {m} /\ blocked \subseteq Task /\ NULL \notin Task
  BY <1>1, PipeAssumption DEF ControlOK, m, Task
<1>3. Inside' = IF m = NULL THEN {} ELSE {m}
  <2>1. \A u \in Task : u \notin blocked /\ pc[u] \in {"loop", "release"} => u = t
    BY <1>1 DEF Inside
  <2> QED
    BY <2>1, <1>1, <1>2 DEF Inside
<1>4. OneInside'
  BY <1>1, <1>3 DEF OneInside
<1>5. WaitersOK'
  <2>1. WaitersOK
    BY DEF ControlOK
  <2> QED
    BY <2>1, <1>1, <1>2 DEF WaitersOK, Waits
<1>6. NoneForgotten'
  <2>1. NoneForgotten
    BY DEF ControlOK
  <2> QED
    BY <2>1, <1>2 DEF NoneForgotten, Waits, OnePair
<1>7. \A u \in Task \ users' : pc'[u] = "idle" /\ u \notin blocked'
  BY <1>1, <1>2 DEF ControlOK
<1> QED
  BY <1>1, <1>2, <1>4, <1>5, <1>6, <1>7 DEF ControlOK

\* A signal to the readers by a task that goes from "loop" to "release" (t), or
\* by the keyboard (then nobody's place changes).
LEMMA SignalReadersControl ==
  ASSUME ControlOK, pc' \in [Task -> {"idle", "loop", "reacquire", "release"}],
         \A u \in Task : \/ pc'[u] = pc[u]
                         \/ pc[u] = "loop" /\ pc'[u] = "release" /\ u \notin blocked,
         rq' = signal_queue(rq), blocked' = blocked \ Signalled(rq),
         UNCHANGED <<mutex, wq, users>>
  PROVE  ControlOK'
<1>1. /\ rq' \in QueueState /\ rq'.first_task = NULL
      /\ Signalled(rq) \subseteq {NULL, rq.first_task}
      /\ rq.first_task # NULL => rq.first_task \in Signalled(rq)
  BY SignalFacts DEF ControlOK, WaitersOK
<1>2. /\ WaitersOK /\ NoneForgotten /\ blocked \subseteq Task /\ NULL \notin Task
      /\ \A u \in Task \ users : pc[u] = "idle" /\ u \notin blocked
  BY PipeAssumption DEF ControlOK, Task
<1>3. Inside' = Inside
  <2>1. \A u \in Task : u \in Signalled(rq) => pc[u] = "reacquire"
    BY <1>1, <1>2 DEF WaitersOK, Waits
  <2> QED
    BY <2>1 DEF Inside
<1>4. OneInside'
  BY <1>3 DEF ControlOK, OneInside
<1>5. WaitersOK'
  <2>1. ASSUME NEW u \in Task, u \in blocked, u # rq.first_task
        PROVE  u \in blocked' /\ pc'[u] = pc[u]
    BY <2>1, <1>1, <1>2
  <2>2. mutex.first_waiting_task # NULL => mutex.first_waiting_task # rq.first_task
    BY <1>2 DEF WaitersOK, Waits
  <2>3. wq.first_task # NULL => wq.first_task # rq.first_task
    BY <1>2, PipeAssumption DEF WaitersOK
  <2> QED
    BY <2>1, <2>2, <2>3, <1>1, <1>2 DEF WaitersOK, Waits
<1>6. NoneForgotten'
  <2>1. ASSUME NEW u \in Task, Waits(u, "reacquire")'
        PROVE  Waits(u, "reacquire") /\ u # rq.first_task
    BY <2>1, <1>1, <1>2 DEF Waits
  <2> QED
    BY <2>1, <1>2 DEF NoneForgotten, OnePair
<1>7. \A u \in Task \ users' : pc'[u] = "idle" /\ u \notin blocked'
  BY <1>2
<1> QED
  BY <1>1, <1>2, <1>4, <1>5, <1>6, <1>7 DEF ControlOK

LEMMA SignalWritersControl ==
  ASSUME ControlOK, pc' \in [Task -> {"idle", "loop", "reacquire", "release"}],
         \A u \in Task : \/ pc'[u] = pc[u]
                         \/ pc[u] = "loop" /\ pc'[u] = "release" /\ u \notin blocked,
         wq' = signal_queue(wq), blocked' = blocked \ Signalled(wq),
         UNCHANGED <<mutex, rq, users>>
  PROVE  ControlOK'
<1>1. /\ wq' \in QueueState /\ wq'.first_task = NULL
      /\ Signalled(wq) \subseteq {NULL, wq.first_task}
      /\ wq.first_task # NULL => wq.first_task \in Signalled(wq)
  BY SignalFacts DEF ControlOK, WaitersOK
<1>2. /\ WaitersOK /\ NoneForgotten /\ blocked \subseteq Task /\ NULL \notin Task
      /\ \A u \in Task \ users : pc[u] = "idle" /\ u \notin blocked
  BY PipeAssumption DEF ControlOK, Task
<1>3. Inside' = Inside
  <2>1. \A u \in Task : u \in Signalled(wq) => pc[u] = "reacquire"
    BY <1>1, <1>2 DEF WaitersOK, Waits
  <2> QED
    BY <2>1 DEF Inside
<1>4. OneInside'
  BY <1>3 DEF ControlOK, OneInside
<1>5. WaitersOK'
  <2>1. ASSUME NEW u \in Task, u \in blocked, u # wq.first_task
        PROVE  u \in blocked' /\ pc'[u] = pc[u]
    BY <2>1, <1>1, <1>2
  <2>2. mutex.first_waiting_task # NULL => mutex.first_waiting_task # wq.first_task
    BY <1>2 DEF WaitersOK, Waits
  <2>3. rq.first_task # NULL => rq.first_task # wq.first_task
    BY <1>2, PipeAssumption DEF WaitersOK
  <2> QED
    BY <2>1, <2>2, <2>3, <1>1, <1>2 DEF WaitersOK, Waits
<1>6. NoneForgotten'
  <2>1. ASSUME NEW u \in Task, Waits(u, "reacquire")'
        PROVE  Waits(u, "reacquire") /\ u # wq.first_task
    BY <2>1, <1>1, <1>2 DEF Waits
  <2> QED
    BY <2>1, <1>2 DEF NoneForgotten, OnePair
<1>7. \A u \in Task \ users' : pc'[u] = "idle" /\ u \notin blocked'
  BY <1>2
<1> QED
  BY <1>1, <1>2, <1>4, <1>5, <1>6, <1>7 DEF ControlOK

\* ReadWait: a reader goes to sleep on the read queue, gives the mutex back and
\* signals the writers.
LEMMA ReadWaitControl ==
  ASSUME ControlOK, NEW t \in Inside, t \in Reader, pc[t] = "loop",
         rq' = wait_queue(rq, t), mutex' = ReleasedMutex, wq' = signal_queue(wq),
         blocked' = (blocked \cup {t}) \ ({mutex.first_waiting_task} \cup Signalled(wq)),
         pc' = [pc EXCEPT ![t] = "reacquire"], users' = users
  PROVE  ControlOK'
<1> DEFINE m == mutex.first_waiting_task
           w == wq.first_task
<1>1. /\ Inside = {t} /\ t \in Task /\ t \notin blocked /\ t \in users /\ t # NULL
      /\ mutex' \in [current_count : 0 .. 1, first_waiting_task : TaskOrNull]
      /\ mutex'.first_waiting_task = NULL
      /\ mutex'.current_count = IF m = NULL THEN 0 ELSE 1
      /\ rq.first_task # t /\ w # t /\ m # t
      /\ m # NULL => m \in Task \cap blocked /\ pc[m] = "loop" /\ m \in users
      /\ rq.first_task # NULL => rq.first_task # m
      /\ w # NULL => w # m
  BY ReleaseFacts
<1>2. /\ wq' \in QueueState /\ wq'.first_task = NULL
      /\ Signalled(wq) \subseteq {NULL, w}
      /\ w # NULL => w \in Signalled(wq)
  BY SignalFacts DEF ControlOK, WaitersOK
<1>3. /\ rq' \in QueueState /\ rq'.amount_waiting > 0
      /\ rq'.first_task = IF rq.first_task = NULL THEN t ELSE rq.first_task
  BY <1>1, WaitFacts DEF ControlOK
<1> HIDE DEF m
<1>4. /\ \A u \in Task : pc'[u] = IF u = t THEN "reacquire" ELSE pc[u]
      /\ pc' \in [Task -> {"idle", "loop", "reacquire", "release"}]
      /\ blocked \subseteq Task /\ NULL \notin Task /\ WaitersOK /\ NoneForgotten
      /\ \A u \in Task \ users : pc[u] = "idle" /\ u \notin blocked
  BY <1>1, PipeAssumption DEF ControlOK, Task
<1>5. \A u \in Task : u \in blocked' <=> (u \in blocked \/ u = t) /\ u # m /\ u # w
  <2>1. blocked' = (blocked \cup {t}) \ ({m} \cup Signalled(wq))
    BY DEF m
  <2> QED
    BY <2>1, <1>2, <1>4
<1>6. w # NULL => w \in Writer /\ w \in Task /\ w \in blocked /\ pc[w] = "reacquire"
  BY <1>4 DEF WaitersOK, Waits, Task
<1>7. rq.first_task # NULL => rq.first_task \in Reader /\ rq.first_task \in Task
                              /\ rq.first_task \in blocked /\ pc[rq.first_task] = "reacquire"
  BY <1>4 DEF WaitersOK, Waits, Task
<1> HIDE DEF w
<1>8. Inside' = IF m = NULL THEN {} ELSE {m}
  <2>1. \A u \in Task : u \notin blocked /\ pc[u] \in {"loop", "release"} => u = t
    BY <1>1 DEF Inside
  <2> QED
    BY <2>1, <1>1, <1>4, <1>5, <1>6 DEF Inside
<1>9. OneInside'
  BY <1>1, <1>8 DEF OneInside
<1>10. WaitersOK'
  <2>1. /\ t \in blocked' /\ pc'[t] = "reacquire"
    BY <1>1, <1>4, <1>5
  <2>2. rq.first_task # NULL => rq.first_task \in blocked' /\ pc'[rq.first_task] = "reacquire"
    <3>1. rq.first_task # NULL => rq.first_task # w
      BY <1>6, <1>7, PipeAssumption
    <3> QED
      BY <3>1, <1>1, <1>4, <1>5, <1>7
  <2>3. rq'.first_task \in Reader /\ rq'.first_task \in blocked'
        /\ pc'[rq'.first_task] = "reacquire"
    BY <2>1, <2>2, <1>3, <1>7
  <2> QED
    BY <2>3, <1>1, <1>2, <1>3 DEF WaitersOK, Waits
<1>11. NoneForgotten'
  <2> SUFFICES ASSUME OnePair, NEW u \in Task, Waits(u, "reacquire")'
               PROVE  u = rq'.first_task
    BY DEF NoneForgotten, OnePair
  <2>1. CASE u = t
    <3>1. rq.first_task = NULL
      <4>1. PICK rr \in Reader, ww \in Writer : users = {rr, ww}
        BY DEF OnePair
      <4>2. t = rr
        BY <4>1, <1>1, PipeAssumption
      <4>3. rq.first_task # NULL => rq.first_task \in users
        BY <1>4, <1>7
      <4> QED
        BY <4>1, <4>2, <4>3, <1>1, <1>7, PipeAssumption
    <3> QED
      BY <2>1, <3>1, <1>3
  <2>2. CASE u # t
    <3>1. Waits(u, "reacquire") /\ u # w
      BY <2>2, <1>4, <1>5 DEF Waits
    <3>2. u = rq.first_task
      BY <3>1, <1>4 DEF NoneForgotten, w
    <3>3. u # NULL
      BY <1>4
    <3> QED
      BY <3>2, <3>3, <1>3
  <2> QED
    BY <2>1, <2>2
<1>12. \A u \in Task \ users' : pc'[u] = "idle" /\ u \notin blocked'
  BY <1>1, <1>4, <1>5
<1>13. blocked' \subseteq Task
  BY <1>1, <1>4
<1> QED
  BY <1>1, <1>2, <1>3, <1>4, <1>9, <1>10, <1>11, <1>12, <1>13 DEF ControlOK

\* WriteWait: a writer goes to sleep on the write queue, gives the mutex back and
\* signals the readers.
LEMMA WriteWaitControl ==
  ASSUME ControlOK, NEW t \in Inside, t \in Writer, pc[t] = "loop",
         wq' = wait_queue(wq, t), mutex' = ReleasedMutex, rq' = signal_queue(rq),
         blocked' = (blocked \cup {t}) \ ({mutex.first_waiting_task} \cup Signalled(rq)),
         pc' = [pc EXCEPT ![t] = "reacquire"], users' = users
  PROVE  ControlOK'
<1> DEFINE m == mutex.first_waiting_task
           r == rq.first_task
<1>1. /\ Inside = {t} /\ t \in Task /\ t \notin blocked /\ t \in users /\ t # NULL
      /\ mutex' \in [current_count : 0 .. 1, first_waiting_task : TaskOrNull]
      /\ mutex'.first_waiting_task = NULL
      /\ mutex'.current_count = IF m = NULL THEN 0 ELSE 1
      /\ wq.first_task # t /\ r # t /\ m # t
      /\ m # NULL => m \in Task \cap blocked /\ pc[m] = "loop" /\ m \in users
      /\ wq.first_task # NULL => wq.first_task # m
      /\ r # NULL => r # m
  BY ReleaseFacts
<1>2. /\ rq' \in QueueState /\ rq'.first_task = NULL
      /\ Signalled(rq) \subseteq {NULL, r}
      /\ r # NULL => r \in Signalled(rq)
  BY SignalFacts DEF ControlOK, WaitersOK
<1>3. /\ wq' \in QueueState /\ wq'.amount_waiting > 0
      /\ wq'.first_task = IF wq.first_task = NULL THEN t ELSE wq.first_task
  BY <1>1, WaitFacts DEF ControlOK
<1> HIDE DEF m
<1>4. /\ \A u \in Task : pc'[u] = IF u = t THEN "reacquire" ELSE pc[u]
      /\ pc' \in [Task -> {"idle", "loop", "reacquire", "release"}]
      /\ blocked \subseteq Task /\ NULL \notin Task /\ WaitersOK /\ NoneForgotten
      /\ \A u \in Task \ users : pc[u] = "idle" /\ u \notin blocked
  BY <1>1, PipeAssumption DEF ControlOK, Task
<1>5. \A u \in Task : u \in blocked' <=> (u \in blocked \/ u = t) /\ u # m /\ u # r
  <2>1. blocked' = (blocked \cup {t}) \ ({m} \cup Signalled(rq))
    BY DEF m
  <2> QED
    BY <2>1, <1>2, <1>4
<1>6. r # NULL => r \in Reader /\ r \in Task /\ r \in blocked /\ pc[r] = "reacquire"
  BY <1>4 DEF WaitersOK, Waits, Task
<1>7. wq.first_task # NULL => wq.first_task \in Writer /\ wq.first_task \in Task
                              /\ wq.first_task \in blocked /\ pc[wq.first_task] = "reacquire"
  BY <1>4 DEF WaitersOK, Waits, Task
<1> HIDE DEF r
<1>8. Inside' = IF m = NULL THEN {} ELSE {m}
  <2>1. \A u \in Task : u \notin blocked /\ pc[u] \in {"loop", "release"} => u = t
    BY <1>1 DEF Inside
  <2> QED
    BY <2>1, <1>1, <1>4, <1>5, <1>6 DEF Inside
<1>9. OneInside'
  BY <1>1, <1>8 DEF OneInside
<1>10. WaitersOK'
  <2>1. /\ t \in blocked' /\ pc'[t] = "reacquire"
    BY <1>1, <1>4, <1>5
  <2>2. wq.first_task # NULL => wq.first_task \in blocked' /\ pc'[wq.first_task] = "reacquire"
    <3>1. wq.first_task # NULL => wq.first_task # r
      BY <1>6, <1>7, PipeAssumption
    <3> QED
      BY <3>1, <1>1, <1>4, <1>5, <1>7
  <2>3. wq'.first_task \in Writer /\ wq'.first_task \in blocked'
        /\ pc'[wq'.first_task] = "reacquire"
    BY <2>1, <2>2, <1>3, <1>7
  <2> QED
    BY <2>3, <1>1, <1>2, <1>3 DEF WaitersOK, Waits
<1>11. NoneForgotten'
  <2> SUFFICES ASSUME OnePair, NEW u \in Task, Waits(u, "reacquire")'
               PROVE  u = wq'.first_task
    BY DEF NoneForgotten, OnePair
  <2>1. CASE u = t
    <3>1. wq.first_task = NULL
      <4>1. PICK rr \in Reader, ww \in Writer : users = {rr, ww}
        BY DEF OnePair
      <4>2. t = ww
        BY <4>1, <1>1, PipeAssumption
      <4>3. wq.first_task # NULL => wq.first_task \in users
        BY <1>4, <1>7
      <4> QED
        BY <4>1, <4>2, <4>3, <1>1, <1>7, PipeAssumption
    <3> QED
      BY <2>1, <3>1, <1>3
  <2>2. CASE u # t
    <3>1. Waits(u, "reacquire") /\ u # r
      BY <2>2, <1>4, <1>5 DEF Waits
    <3>2. u = wq.first_task
      BY <3>1, <1>4 DEF NoneForgotten, r
    <3>3. u # NULL
      BY <1>4
    <3> QED
      BY <3>2, <3>3, <1>3
  <2> QED
    BY <2>1, <2>2
<1>12. \A u \in Task \ users' : pc'[u] = "idle" /\ u \notin blocked'
  BY <1>1, <1>4, <1>5
<1>13. blocked' \subseteq Task
  BY <1>1, <1>4
<1> QED
  BY <1>1, <1>2, <1>3, <1>4, <1>9, <1>10, <1>11, <1>12, <1>13 DEF ControlOK

-----------------------------------------------------------------------------
(***************************************************************************)
(* What is in the pipe.                                                    *)
(***************************************************************************)

\* A turn of vfs_read_pipe() moves the front of the pipe behind what was read.
LEMMA ReadSomeFacts ==
  ASSUME DataOK, NEW t \in Task, ReadSome(t)
  PROVE  /\ \E n \in 1 .. Len(mem) : /\ taken' = taken \o SubSeq(mem, 1, n)
                                     /\ mem' = SubSeq(mem, n + 1, Len(mem))
                                     /\ amount' = [amount EXCEPT ![t] = @ - n]
                                     /\ n <= amount[t]
         /\ DataOK'
         /\ Stream' = Stream
<1>1. /\ mem \in Seq(Byte) /\ taken \in Seq(Byte) /\ Len(mem) \in Nat /\ amount[t] \in Nat
      /\ DEFAULT_PIPE_SIZE \in Nat /\ Len(mem) <= DEFAULT_PIPE_SIZE
  BY PipeAssumption, LenProperties DEF DataOK
<1>2. PICK n : n = Lesser(Len(mem), amount[t])
  OBVIOUS
<1>3. n \in 1 .. Len(mem) /\ n <= amount[t]
  BY <1>1, <1>2 DEF Lesser, ReadSome
<1>4. /\ taken' = taken \o SubSeq(mem, 1, n) /\ mem' = SubSeq(mem, n + 1, Len(mem))
      /\ amount' = [amount EXCEPT ![t] = @ - n] /\ UNCHANGED <<written, isKbd>>
  BY <1>2 DEF ReadSome
<1>5. PICK u, v : u = SubSeq(mem, 1, n) /\ v = SubSeq(mem, n + 1, Len(mem))
  OBVIOUS
<1>6. u \in Seq(Byte) /\ v \in Seq(Byte) /\ Len(v) = Len(mem) - n /\ u \o v = mem
  <2>1. n \in 0 .. Len(mem)
    BY <1>1, <1>3
  <2> QED
    BY <2>1, <1>1, <1>5, Cut
<1>7. taken' \in Seq(Byte) /\ mem' \in Seq(Byte) /\ Len(mem') <= DEFAULT_PIPE_SIZE
  BY <1>1, <1>3, <1>4, <1>5, <1>6, ConcatProperties
<1>8. Stream' = Stream
  <2>1. Stream' = (taken \o u) \o v
    BY <1>4, <1>5 DEF Stream
  <2>2. (taken \o u) \o v = taken \o (u \o v)
    BY <1>1, <1>6, Regroup
  <2> QED
    BY <2>1, <2>2, <1>6 DEF Stream
<1>9. amount' \in [Task -> Nat] /\ \A w \in Writer : written'[w] + amount'[w] <= MaxBytes
  <2>1. \A u2 \in Task : amount'[u2] \in Nat /\ amount'[u2] <= amount[u2]
    BY <1>1, <1>3, <1>4 DEF DataOK
  <2>2. \A w \in Writer : w \in Task /\ w \in Source /\ written[w] \in Nat /\ amount[w] \in Nat
    BY DEF DataOK, Task, Source
  <2>3. amount' \in [Task -> Nat]
    BY <2>1, <1>4 DEF DataOK
  <2> QED
    <3>1. ASSUME NEW w \in Writer PROVE written'[w] + amount'[w] <= MaxBytes
      <4>1. written'[w] = written[w] /\ written[w] + amount[w] <= MaxBytes
        BY <1>4 DEF DataOK
      <4>2. amount'[w] \in Nat /\ amount'[w] <= amount[w]
        BY <2>1, <2>2
      <4> QED
        BY <4>1, <4>2, <2>2, PipeAssumption
    <3> QED
      BY <3>1, <2>3
<1> QED
  BY <1>3, <1>4, <1>7, <1>8, <1>9 DEF DataOK

\* n more bytes of the writer w at the end of the pipe.
Appended(w, n) ==
  /\ mem' = mem \o [i \in 1 .. n |-> <<w, written[w] + i>>]
  /\ written' = [written EXCEPT ![w] = @ + n]
  /\ taken' = taken

LEMMA AppendFacts ==
  ASSUME DataOK, NEW w \in Source, NEW n \in Nat, Len(mem) + n <= DEFAULT_PIPE_SIZE,
         written[w] + n <= MaxBytes, Appended(w, n)
  PROVE  /\ \E r \in [1 .. n -> Byte] : mem' = mem \o r
         /\ mem' \in Seq(Byte) /\ Len(mem') = Len(mem) + n
         /\ written' \in [Source -> 0 .. MaxBytes]
         /\ InOrder => InOrder'
<1> DEFINE r == [i \in 1 .. n |-> <<w, written[w] + i>>]
<1>1. /\ mem \in Seq(Byte) /\ taken \in Seq(Byte) /\ Len(mem) \in Nat /\ Len(taken) \in Nat
      /\ written[w] \in Nat /\ MaxBytes \in Nat
  BY PipeAssumption, LenProperties DEF DataOK
<1>2. r \in [1 .. n -> Byte] /\ \A i \in 1 .. n : r[i] = <<w, written[w] + i>>
  BY <1>1 DEF Byte
<1>3. mem' = mem \o r /\ taken' = taken
  BY DEF Appended
<1> HIDE DEF r
<1>4. r \in Seq(Byte) /\ Len(r) = n
  BY <1>2, RunIsSeq
<1>5. mem' \in Seq(Byte) /\ Len(mem') = Len(mem) + n
  BY <1>1, <1>3, <1>4, ConcatProperties
<1>6. /\ written' \in [Source -> 0 .. MaxBytes] /\ written'[w] = written[w] + n
      /\ \A v \in Source \ {w} : written'[v] = written[v]
  BY <1>1 DEF DataOK, Appended
<1>7. ASSUME InOrder PROVE InOrder'
  <2>1. PICK s, L : s = Stream /\ L = Len(Stream)
    OBVIOUS
  <2>2. s \in Seq(Byte) /\ L \in Nat /\ DOMAIN s = 1 .. L /\ L = Len(s)
    BY <2>1, <1>1, ConcatProperties, LenProperties DEF Stream
  <2>3. Stream' = s \o r
    <3>1. Stream' = taken \o (mem \o r)
      BY <1>3 DEF Stream
    <3>2. taken \o (mem \o r) = (taken \o mem) \o r
      BY <1>1, <1>4, Regroup
    <3> QED
      BY <3>1, <3>2, <2>1 DEF Stream
  <2>4. PICK z : z = s \o r
    OBVIOUS
  <2>5. /\ z \in Seq(Byte) /\ DOMAIN z = 1 .. L + n
        /\ \A k \in 1 .. L + n : z[k] = IF k <= L THEN s[k] ELSE r[k - L]
    BY <2>2, <2>4, <1>4, ConcatProperties, LenProperties
  <2>6. \A k \in 1 .. L : /\ z[k] = s[k] /\ s[k][1] \in Source /\ s[k][2] \in Nat
                          /\ k \in 1 .. L + n
                          /\ s[k][2] <= written[s[k][1]]
    <3> SUFFICES ASSUME NEW k \in 1 .. L
                 PROVE  /\ z[k] = s[k] /\ s[k][1] \in Source /\ s[k][2] \in Nat
                        /\ k \in 1 .. L + n
                        /\ s[k][2] <= written[s[k][1]]
      OBVIOUS
    <3>1. k \in 1 .. L + n /\ k <= L
      BY <2>2
    <3>2. s[k] \in Byte
      BY <2>2, ElementOfSeq
    <3>3. s[k][2] <= written[s[k][1]]
      BY <1>7, <2>1, <2>2 DEF InOrder
    <3> QED
      BY <3>1, <3>2, <3>3, <2>5 DEF Byte
  <2>7. \A k \in 1 .. L + n : k > L => /\ z[k] = <<w, written[w] + (k - L)>>
                                       /\ k - L \in 1 .. n
    <3> SUFFICES ASSUME NEW k \in 1 .. L + n, k > L
                 PROVE  z[k] = <<w, written[w] + (k - L)>> /\ k - L \in 1 .. n
      OBVIOUS
    <3>1. k - L \in 1 .. n /\ ~(k <= L)
      BY <2>2
    <3> QED
      BY <3>1, <2>5, <1>2
  <2>8. ASSUME NEW k \in 1 .. L + n
        PROVE  z[k][2] <= written'[z[k][1]]
    <3>1. CASE k <= L
      <4>1. z[k] = s[k] /\ s[k][1] \in Source /\ s[k][2] \in Nat /\ s[k][2] <= written[s[k][1]]
        BY <3>1, <2>2, <2>6
      <4>2. written[s[k][1]] \in Nat /\ written'[s[k][1]] \in Nat
            /\ written[s[k][1]] <= written'[s[k][1]]
        <5>1. \A x \in Source : written[x] \in Nat /\ written'[x] \in Nat
          BY <1>1, <1>6 DEF DataOK
        <5>2. \A x \in Source : written[x] <= written'[x]
          BY <5>1, <1>1, <1>6
        <5> QED
          BY <4>1, <5>1, <5>2
      <4> QED
        BY <4>1, <4>2
    <3>2. CASE k > L
      <4>1. z[k] = <<w, written[w] + (k - L)>> /\ k - L \in 1 .. n
        BY <3>2, <2>7
      <4> QED
        BY <4>1, <1>1, <1>6
    <3> QED
      BY <3>1, <3>2, <2>2
  <2>9. ASSUME NEW v \in Source, NEW q \in 1 .. written'[v]
        PROVE  \E k \in 1 .. L + n : z[k] = <<v, q>>
    <3>1. written[v] \in Nat /\ written'[v] \in Nat
      BY <1>6 DEF DataOK
    <3>2. CASE q <= written[v]
      <4>1. q \in 1 .. written[v]
        BY <3>1, <3>2
      <4>2. PICK k \in 1 .. L : s[k] = <<v, q>>
        BY <4>1, <1>7, <2>1, <2>2 DEF InOrder
      <4> QED
        BY <4>2, <2>6
    <3>3. CASE ~(q <= written[v])
      <4>1. v = w
        BY <3>1, <3>3, <1>6
      <4>2. q - written[w] \in 1 .. n
        BY <3>1, <3>3, <4>1, <1>1, <1>6
      <4>3. PICK k : k = L + (q - written[w])
        OBVIOUS
      <4>4. k \in 1 .. L + n /\ k > L /\ written[w] + (k - L) = q
        BY <4>2, <4>3, <2>2, <1>1, <3>1, SMTT(30)
      <4> QED
        BY <4>1, <4>4, <2>7
    <3> QED
      BY <3>2, <3>3
  <2>10. ASSUME NEW k \in 1 .. L + n, NEW l \in 1 .. L + n, k < l, z[k][1] = z[l][1]
         PROVE  z[k][2] < z[l][2]
    <3>1. CASE l <= L
      <4>1. k \in 1 .. L /\ l \in 1 .. L
        BY <3>1, <2>10, <2>2
      <4>2. z[k] = s[k] /\ z[l] = s[l]
        BY <4>1, <2>6
      <4> QED
        BY <4>1, <4>2, <2>10, <1>7, <2>1, <2>2 DEF InOrder
    <3>2. CASE k <= L /\ l > L
      <4>1. z[k] = s[k] /\ s[k][2] \in Nat /\ s[k][2] <= written[s[k][1]]
        BY <3>2, <2>6, <2>2
      <4>2. z[l] = <<w, written[w] + (l - L)>> /\ l - L \in 1 .. n
        BY <3>2, <2>7
      <4>3. s[k][1] = w /\ z[l][2] = written[w] + (l - L)
        BY <4>1, <4>2, <2>10
      <4> QED
        BY <4>1, <4>2, <4>3, <1>1
    <3>3. CASE k > L
      <4>1. l > L
        BY <3>3, <2>10, <2>2
      <4>2. z[k] = <<w, written[w] + (k - L)>> /\ z[l] = <<w, written[w] + (l - L)>>
        BY <3>3, <4>1, <2>7
      <4> QED
        BY <4>2, <2>10, <2>2, <1>1
    <3> QED
      BY <3>1, <3>2, <3>3, <2>2
  <2> QED
    BY <2>3, <2>4, <2>5, <2>8, <2>9, <2>10 DEF InOrder
<1> QED
  BY <1>2, <1>3, <1>5, <1>6, <1>7

-----------------------------------------------------------------------------
(***************************************************************************)
(* One lemma per action: a step keeps PipeOK.                              *)
(***************************************************************************)
LEMMA ControlFrame ==
  ASSUME ControlOK, UNCHANGED <<mutex, rq, wq, blocked, pc, users>>
  PROVE  ControlOK'
BY DEF ControlOK, OneInside, Inside, WaitersOK, Waits, NoneForgotten, OnePair

LEMMA DataFrame ==
  ASSUME DataOK, UNCHANGED <<mem, amount, written, taken, isKbd>>
  PROVE  DataOK'
BY DEF DataOK

\* A call of a task: the amount it asks for is within the bound of a writer.
LEMMA CallStepOK ==
  ASSUME PipeOK, NEW t \in Task \cap users, NEW n \in Amount, Call(t, n),
         t \in Writer => written[t] + n <= MaxBytes
  PROVE  PipeOK'
<1>1. ControlOK /\ DataOK
  BY Parts
<1>2. ControlOK'
  BY <1>1, AcquireControl DEF Call, Awake
<1>3. n \in Nat
  BY PipeAssumption
<1>4. amount' \in [Task -> Nat] /\ \A w \in Writer : written'[w] + amount'[w] <= MaxBytes
  BY <1>1, <1>3 DEF DataOK, Call, Task
<1>5. DataOK'
  BY <1>1, <1>4 DEF DataOK, Call
<1> QED
  BY <1>2, <1>5, PartsAfter

LEMMA ReacquireOK ==
  ASSUME PipeOK, NEW t \in Task, Reacquire(t)
  PROVE  PipeOK'
<1>1. ControlOK /\ DataOK
  BY Parts
<1>2. t \in Task \cap users
  BY <1>1 DEF ControlOK, Reacquire, Awake
<1>3. ControlOK'
  BY <1>1, <1>2, AcquireControl DEF Reacquire, Awake
<1>4. DataOK'
  BY <1>1, DataFrame DEF Reacquire
<1> QED
  BY <1>3, <1>4, PartsAfter

LEMMA ReadSomeOK ==
  ASSUME PipeOK, NEW t \in Task, ReadSome(t)
  PROVE  PipeOK'
<1>1. ControlOK /\ DataOK
  BY Parts
<1>2. ControlOK'
  BY <1>1, ControlFrame DEF ReadSome
<1>3. DataOK'
  BY <1>1, ReadSomeFacts
<1> QED
  BY <1>2, <1>3, PartsAfter

LEMMA ReadWaitOK ==
  ASSUME PipeOK, NEW t \in Task, ReadWait(t)
  PROVE  PipeOK'
<1>1. ControlOK /\ DataOK
  BY Parts
<1>2. t \in Inside /\ t \in Reader /\ pc[t] = "loop"
  BY DEF ReadWait, Awake, Inside
<1>3. ControlOK'
  BY <1>1, <1>2, ReadWaitControl DEF ReadWait
<1>4. DataOK'
  BY <1>1, DataFrame DEF ReadWait
<1> QED
  BY <1>3, <1>4, PartsAfter

LEMMA WriteWaitOK ==
  ASSUME PipeOK, NEW t \in Task, WriteWait(t)
  PROVE  PipeOK'
<1>1. ControlOK /\ DataOK
  BY Parts
<1>2. t \in Inside /\ t \in Writer /\ pc[t] = "loop"
  BY DEF WriteWait, Awake, Inside
<1>3. ControlOK'
  BY <1>1, <1>2, WriteWaitControl DEF WriteWait
<1>4. DataOK'
  BY <1>1, DataFrame DEF WriteWait
<1> QED
  BY <1>3, <1>4, PartsAfter

LEMMA ReadSignalOK ==
  ASSUME PipeOK, NEW t \in Task, ReadSignal(t)
  PROVE  PipeOK'
<1>1. ControlOK /\ DataOK
  BY Parts
<1>2. /\ pc' \in [Task -> {"idle", "loop", "reacquire", "release"}]
      /\ \A u \in Task : \/ pc'[u] = pc[u]
                         \/ pc[u] = "loop" /\ pc'[u] = "release" /\ u \notin blocked
  BY <1>1 DEF ReadSignal, Awake, ControlOK
<1>3. ControlOK'
  BY <1>1, <1>2, SignalWritersControl DEF ReadSignal
<1>4. DataOK'
  BY <1>1, DataFrame DEF ReadSignal
<1> QED
  BY <1>3, <1>4, PartsAfter

LEMMA WriteSignalOK ==
  ASSUME PipeOK, NEW t \in Task, WriteSignal(t)
  PROVE  PipeOK'
<1>1. ControlOK /\ DataOK
  BY Parts
<1>2. /\ pc' \in [Task -> {"idle", "loop", "reacquire", "release"}]
      /\ \A u \in Task : \/ pc'[u] = pc[u]
                         \/ pc[u] = "loop" /\ pc'[u] = "release" /\ u \notin blocked
  BY <1>1 DEF WriteSignal, Awake, ControlOK
<1>3. ControlOK'
  BY <1>1, <1>2, SignalReadersControl DEF WriteSignal
<1>4. DataOK'
  BY <1>1, DataFrame DEF WriteSignal
<1> QED
  BY <1>3, <1>4, PartsAfter

LEMMA ReleaseOK ==
  ASSUME PipeOK, NEW t \in Task, Release(t)
  PROVE  PipeOK'
<1>1. ControlOK /\ DataOK
  BY Parts
<1>2. t \in Inside
  BY DEF Release, Awake, Inside
<1>3. ControlOK'
  BY <1>1, <1>2, ReleaseControl DEF Release
<1>4. DataOK'
  BY <1>1, DataFrame DEF Release
<1> QED
  BY <1>3, <1>4, PartsAfter

\* A turn of vfs_write_pipe() puts no more into the pipe than there is room for
\* and than was asked for.
LEMMA WriteSomeFacts ==
  ASSUME PipeOK, NEW t \in Task, WriteSome(t)
  PROVE  \E n \in Nat \ {0} : /\ t \in Source /\ Len(mem) + n <= DEFAULT_PIPE_SIZE
                              /\ written[t] + n <= MaxBytes /\ Appended(t, n)
                              /\ n <= amount[t] /\ amount' = [amount EXCEPT ![t] = @ - n]
<1>1. ControlOK /\ DataOK
  BY Parts
<1>2. /\ t \in Writer /\ t \in Source /\ Len(mem) \in Nat /\ amount[t] \in Nat
      /\ written[t] \in Nat /\ MaxBytes \in Nat
      /\ DEFAULT_PIPE_SIZE \in Nat /\ Len(mem) <= DEFAULT_PIPE_SIZE
      /\ written[t] + amount[t] <= MaxBytes
  <2>1. t \in Writer /\ t \in Source
    BY DEF WriteSome, Source
  <2> QED
    BY <2>1, <1>1, PipeAssumption, LenProperties DEF DataOK
<1>3. PICK n : n = Lesser(DEFAULT_PIPE_SIZE - Len(mem), amount[t])
  OBVIOUS
<1>4. n \in Nat \ {0} /\ Len(mem) + n <= DEFAULT_PIPE_SIZE /\ n <= amount[t]
  <2>1. n > 0
    BY <1>3 DEF WriteSome
  <2> QED
    BY <2>1, <1>2, <1>3 DEF Lesser
<1>5. written[t] + n <= MaxBytes
  BY <1>2, <1>4
<1>6. Appended(t, n) /\ amount' = [amount EXCEPT ![t] = @ - n]
  BY <1>3 DEF WriteSome, Appended
<1> QED
  BY <1>2, <1>4, <1>5, <1>6

LEMMA WriteSomeOK ==
  ASSUME PipeOK, NEW t \in Task, WriteSome(t)
  PROVE  PipeOK'
<1>1. ControlOK /\ DataOK
  BY Parts
<1>2. PICK n \in Nat \ {0} :
        /\ t \in Source /\ Len(mem) + n <= DEFAULT_PIPE_SIZE
        /\ written[t] + n <= MaxBytes /\ Appended(t, n)
        /\ n <= amount[t] /\ amount' = [amount EXCEPT ![t] = @ - n]
  BY WriteSomeFacts
<1>3. ControlOK'
  BY <1>1, ControlFrame DEF WriteSome
<1>4. mem' \in Seq(Byte) /\ Len(mem') = Len(mem) + n /\ written' \in [Source -> 0 .. MaxBytes]
  BY <1>1, <1>2, AppendFacts
<1>5. amount' \in [Task -> Nat]
  BY <1>1, <1>2 DEF DataOK
<1>6. ASSUME NEW w \in Writer PROVE written'[w] + amount'[w] <= MaxBytes
  <2>1. w \in Task /\ w \in Source /\ written[w] \in Nat /\ amount[w] \in Nat
        /\ written[w] + amount[w] <= MaxBytes
    BY <1>1 DEF DataOK, Task, Source
  <2>2. /\ written'[w] = IF w = t THEN written[w] + n ELSE written[w]
        /\ amount'[w] = IF w = t THEN amount[w] - n ELSE amount[w]
    BY <2>1, <1>1, <1>2 DEF DataOK, Appended
  <2> QED
    BY <2>1, <2>2, PipeAssumption
<1>7. DataOK'
  BY <1>1, <1>2, <1>4, <1>5, <1>6 DEF DataOK, WriteSome
<1> QED
  BY <1>3, <1>7, PartsAfter

\* kbd_flush() cuts off what does not fit.
LEMMA KbdFlushFacts ==
  ASSUME PipeOK, NEW k \in Amount, kbd_flush(k)
  PROVE  \E n \in Nat : /\ Len(mem) + n <= DEFAULT_PIPE_SIZE
                        /\ written["kbd"] + n <= MaxBytes /\ Appended("kbd", n)
<1>1. ControlOK /\ DataOK
  BY Parts
<1>2. /\ k \in Nat /\ Len(mem) \in Nat /\ written["kbd"] \in Nat /\ MaxBytes \in Nat
      /\ DEFAULT_PIPE_SIZE \in Nat /\ Len(mem) <= DEFAULT_PIPE_SIZE
  BY <1>1, PipeAssumption, LenProperties DEF DataOK, Source
<1>3. PICK n : n = IF Len(mem) + k > DEFAULT_PIPE_SIZE THEN DEFAULT_PIPE_SIZE - Len(mem)
                                                       ELSE k
  OBVIOUS
<1>4. n \in Nat /\ Len(mem) + n <= DEFAULT_PIPE_SIZE /\ n <= k
  BY <1>2, <1>3
<1>5. written["kbd"] + k <= MaxBytes
  BY DEF kbd_flush
<1>6. Appended("kbd", n)
  BY <1>3 DEF kbd_flush, Appended
<1> QED
  BY <1>2, <1>4, <1>5, <1>6

LEMMA KbdFlushOK ==
  ASSUME PipeOK, NEW k \in Amount, kbd_flush(k)
  PROVE  PipeOK'
<1>1. ControlOK /\ DataOK
  BY Parts
<1>2. PICK n \in Nat : /\ Len(mem) + n <= DEFAULT_PIPE_SIZE
                       /\ written["kbd"] + n <= MaxBytes /\ Appended("kbd", n)
  BY KbdFlushFacts
<1>3. "kbd" \in Source
  BY DEF Source
<1>4. ControlOK'
  <2>1. pc' = pc
    BY DEF kbd_flush
  <2> QED
    BY <2>1, <1>1, SignalReadersControl DEF kbd_flush, ControlOK
<1>5. mem' \in Seq(Byte) /\ Len(mem') = Len(mem) + n /\ written' \in [Source -> 0 .. MaxBytes]
  BY <1>1, <1>2, <1>3, AppendFacts
<1>6. ASSUME NEW w \in Writer PROVE written'[w] + amount'[w] <= MaxBytes
  <2>1. w \in Source /\ w # "kbd" /\ written[w] + amount[w] <= MaxBytes
    BY <1>1, PipeAssumption DEF DataOK, Source
  <2>2. written'[w] = written[w] /\ amount' = amount
    BY <2>1, <1>1, <1>2 DEF DataOK, Appended, kbd_flush
  <2> QED
    BY <2>1, <2>2
<1>7. DataOK'
  BY <1>1, <1>2, <1>5, <1>6 DEF DataOK, kbd_flush
<1> QED
  BY <1>4, <1>7, PartsAfter

LEMMA InitOK == Init => PipeOK
<1> SUFFICES ASSUME Init PROVE PipeOK
  OBVIOUS
<1> USE DEF Init
<1>1. TypeOK
  BY PipeAssumption DEF TypeOK, QueueState, TaskOrNull
<1>2. OneInside
  BY DEF OneInside, Inside
<1>3. WaitersOK /\ NoneForgotten
  BY DEF WaitersOK, NoneForgotten, Waits
<1>4. UsersOK
  BY PipeAssumption DEF UsersOK, Source, Task
<1> QED
  BY <1>1, <1>2, <1>3, <1>4 DEF PipeOK

LEMMA StutterOK == ASSUME PipeOK, UNCHANGED vars PROVE PipeOK'
<1>1. ControlOK /\ DataOK
  BY Parts
<1> QED
  BY <1>1, ControlFrame, DataFrame, PartsAfter DEF vars

LEMMA NextOK == PipeOK /\ [Next]_vars => PipeOK'
<1> SUFFICES ASSUME PipeOK, [Next]_vars PROVE PipeOK'
  OBVIOUS
<1>1. ASSUME NEW t \in Task, NEW n \in Amount, read(t, n) \/ write(t, n) PROVE PipeOK'
  <2>1. t \in Task \cap users /\ Call(t, n) /\ (t \in Writer => written[t] + n <= MaxBytes)
    BY <1>1, PipeAssumption DEF read, write
  <2> QED
    BY <2>1, CallStepOK
<1>2. ASSUME NEW t \in Task, CallStep(t) PROVE PipeOK'
  BY <1>2, ReadSomeOK, ReadWaitOK, ReadSignalOK, WriteSomeOK, WriteWaitOK, WriteSignalOK,
     ReacquireOK, ReleaseOK DEF CallStep, ReadStep, WriteStep
<1>3. ASSUME NEW n \in Amount, kbd_flush(n) PROVE PipeOK'
  BY <1>3, KbdFlushOK
<1>4. CASE UNCHANGED vars
  BY <1>4, StutterOK
<1> QED
  BY <1>1, <1>2, <1>3, <1>4 DEF Next

(***************************************************************************)
(* The pipe holds no more than its memory, the mutex is taken exactly      *)
(* while a task is inside vfs_read_pipe() or vfs_write_pipe(), and the     *)
(* first task of each waiting list is asleep where its wake-up finds it:   *)
(* with any number of readers and writers, and with the keyboard driver    *)
(* writing past the mutex.                                                 *)
(***************************************************************************)
THEOREM PipeCorrect == Spec => []PipeOK
<1>1. Init => PipeOK
  BY InitOK
<1>2. PipeOK /\ [Next]_vars => PipeOK'
  BY NextOK
<1> QED
  BY <1>1, <1>2, PTL DEF Spec

-----------------------------------------------------------------------------
(***************************************************************************)
(* The order of the bytes.                                                 *)
(***************************************************************************)
LEMMA InOrderInit == Init => InOrder
<1> SUFFICES ASSUME Init PROVE InOrder
  OBVIOUS
<1>1. Stream = <<>>
  BY DEF Init, Stream
<1>2. DOMAIN Stream = {}
  BY <1>1
<1>3. \A w \in Source : 1 .. written[w] = {}
  BY DEF Init
<1> QED
  BY <1>2, <1>3 DEF InOrder

LEMMA InOrderFrame ==
  ASSUME InOrder, Stream' = Stream, written' = written
  PROVE  InOrder'
BY DEF InOrder

LEMMA InOrderNext == PipeOK /\ InOrder /\ [Next]_vars => InOrder'
<1> SUFFICES ASSUME PipeOK, InOrder, [Next]_vars PROVE InOrder'
  OBVIOUS
<1>1. DataOK
  BY Parts
<1>2. ASSUME NEW t \in Task, ReadSome(t) PROVE InOrder'
  <2>1. Stream' = Stream
    BY <1>1, <1>2, ReadSomeFacts
  <2> QED
    BY <2>1, <1>2, InOrderFrame DEF ReadSome
<1>3. ASSUME NEW t \in Task, WriteSome(t) PROVE InOrder'
  <2>1. PICK n \in Nat \ {0} : /\ t \in Source /\ Len(mem) + n <= DEFAULT_PIPE_SIZE
                               /\ written[t] + n <= MaxBytes /\ Appended(t, n)
    BY <1>3, WriteSomeFacts
  <2> QED
    BY <2>1, <1>1, AppendFacts
<1>4. ASSUME NEW k \in Amount, kbd_flush(k) PROVE InOrder'
  <2>1. PICK n \in Nat : /\ Len(mem) + n <= DEFAULT_PIPE_SIZE
                         /\ written["kbd"] + n <= MaxBytes /\ Appended("kbd", n)
    BY <1>4, KbdFlushFacts
  <2>2. "kbd" \in Source
    BY DEF Source
  <2> QED
    BY <2>1, <2>2, <1>1, AppendFacts
<1>5. CASE UNCHANGED <<mem, written, taken>>
  BY <1>5, InOrderFrame DEF Stream
<1>6. ASSUME NEW t \in Task, NEW n \in Amount, read(t, n) \/ write(t, n)
      PROVE  UNCHANGED <<mem, written, taken>>
  BY <1>6 DEF read, write, Call
<1>7. ASSUME NEW t \in Task, CallStep(t), ~ReadSome(t), ~WriteSome(t)
      PROVE  UNCHANGED <<mem, written, taken>>
  BY <1>7 DEF CallStep, ReadStep, WriteStep, ReadWait, ReadSignal, WriteWait, WriteSignal,
              Reacquire, Release
<1>8. UNCHANGED vars => UNCHANGED <<mem, written, taken>>
  BY DEF vars
<1> QED
  BY <1>2, <1>3, <1>4, <1>5, <1>6, <1>7, <1>8 DEF Next

(***************************************************************************)
(* The bytes of each writer arrive complete, once and in order, however    *)
(* the turns of the calls of several writers and readers interleave and    *)
(* however often vfs_read_pipe() moves the rest to the start of the        *)
(* memory.                                                                 *)
(***************************************************************************)
THEOREM BytesInOrder == Spec => []InOrder
<1>1. Init => InOrder
  BY InOrderInit
<1>2. PipeOK /\ InOrder /\ [Next]_vars => InOrder'
  BY InOrderNext
<1> QED
  BY <1>1, <1>2, PipeCorrect, PTL DEF Spec

-----------------------------------------------------------------------------
(***************************************************************************)
(* The pipe as a channel: a turn of a write is a Put, a turn of a read is  *)
(* a Take, and every other step leaves the bytes alone.                    *)
(***************************************************************************)
LEMMA AppendIsPut ==
  ASSUME DataOK, NEW w \in Source, NEW n \in Nat, Len(mem) + n <= DEFAULT_PIPE_SIZE,
         written[w] + n <= MaxBytes, Appended(w, n)
  PROVE  [Channel!Next]_<<mem, taken>>
<1>1. PICK r \in [1 .. n -> Byte] : mem' = mem \o r
  BY AppendFacts
<1>2. Len(mem') = Len(mem) + n
  BY AppendFacts
<1>3. taken' = taken
  BY DEF Appended
<1>4. Len(mem) \in Nat /\ mem \in Seq(Byte) /\ DEFAULT_PIPE_SIZE \in Nat
  BY PipeAssumption, LenProperties DEF DataOK
<1>5. CASE n = 0
  <2>1. r \in Seq(Byte) /\ Len(r) = 0
    BY <1>5, RunIsSeq
  <2>2. mem' = mem
    BY <2>1, <1>1, <1>4
  <2> QED
    BY <2>2, <1>3
<1>6. CASE n # 0
  <2>1. n \in 1 .. DEFAULT_PIPE_SIZE
    BY <1>4, <1>6
  <2>2. r \in Channel!Run
    BY <2>1 DEF Channel!Run
  <2>3. Channel!Put
    BY <2>2, <1>1, <1>2, <1>3 DEF Channel!Put
  <2> QED
    BY <2>3 DEF Channel!Next
<1> QED
  BY <1>5, <1>6

LEMMA ChannelStep == PipeOK /\ [Next]_vars => [Channel!Next]_<<mem, taken>>
<1> SUFFICES ASSUME PipeOK, [Next]_vars PROVE [Channel!Next]_<<mem, taken>>
  OBVIOUS
<1>1. DataOK
  BY Parts
<1>2. ASSUME NEW t \in Task, ReadSome(t) PROVE [Channel!Next]_<<mem, taken>>
  <2>1. PICK n \in 1 .. Len(mem) : /\ taken' = taken \o SubSeq(mem, 1, n)
                                   /\ mem' = SubSeq(mem, n + 1, Len(mem))
    BY <1>1, <1>2, ReadSomeFacts
  <2> QED
    BY <2>1 DEF Channel!Next, Channel!Take
<1>3. ASSUME NEW t \in Task, WriteSome(t) PROVE [Channel!Next]_<<mem, taken>>
  <2>1. PICK n \in Nat \ {0} : /\ t \in Source /\ Len(mem) + n <= DEFAULT_PIPE_SIZE
                               /\ written[t] + n <= MaxBytes /\ Appended(t, n)
    BY <1>3, WriteSomeFacts
  <2> QED
    BY <2>1, <1>1, AppendIsPut
<1>4. ASSUME NEW k \in Amount, kbd_flush(k) PROVE [Channel!Next]_<<mem, taken>>
  <2>1. PICK n \in Nat : /\ Len(mem) + n <= DEFAULT_PIPE_SIZE
                         /\ written["kbd"] + n <= MaxBytes /\ Appended("kbd", n)
    BY <1>4, KbdFlushFacts
  <2>2. "kbd" \in Source
    BY DEF Source
  <2> QED
    BY <2>1, <2>2, <1>1, AppendIsPut
<1>6. ASSUME NEW t \in Task, NEW n \in Amount, read(t, n) \/ write(t, n)
      PROVE  UNCHANGED <<mem, taken>>
  BY <1>6 DEF read, write, Call
<1>7. ASSUME NEW t \in Task, CallStep(t), ~ReadSome(t), ~WriteSome(t)
      PROVE  UNCHANGED <<mem, taken>>
  BY <1>7 DEF CallStep, ReadStep, WriteStep, ReadWait, ReadSignal, WriteWait, WriteSignal,
              Reacquire, Release
<1>8. UNCHANGED vars => UNCHANGED <<mem, taken>>
  BY DEF vars
<1> QED
  BY <1>2, <1>3, <1>4, <1>6, <1>7, <1>8 DEF Next

\* vfs_read_pipe(), vfs_write_pipe() and kbd_flush() together implement a bounded
\* first-in first-out channel.
THEOREM PipeRefinesChannel == Spec => PipeIsChannel
<1>1. Init => Channel!Init
  BY DEF Init, Channel!Init
<1>2. PipeOK /\ [Next]_vars => [Channel!Next]_<<mem, taken>>
  BY ChannelStep
<1> QED
  BY <1>1, <1>2, PipeCorrect, PTL DEF Spec, PipeIsChannel, Channel!Spec

-----------------------------------------------------------------------------
(***************************************************************************)
(* No wake-up is lost.                                                     *)
(***************************************************************************)

\* Who sleeps on a queue is its first task, and so is woken by the signal.
LEMMA SleeperIsFirst ==
  ASSUME PipeOK, OnePair
  PROVE  /\ \A r \in Reader : Waits(r, "reacquire") => r \in Signalled(rq)
         /\ \A w \in Writer : Waits(w, "reacquire") => w \in Signalled(wq)
<1>1. /\ WaitersOK /\ NoneForgotten /\ rq \in QueueState /\ wq \in QueueState
  BY DEF PipeOK, TypeOK
<1>2. /\ rq.first_task # NULL => rq.first_task \in Reader /\ rq.first_task \in Signalled(rq)
      /\ wq.first_task # NULL => wq.first_task \in Writer /\ wq.first_task \in Signalled(wq)
  BY <1>1, SignalFacts DEF WaitersOK
<1>3. \A t \in Task : t # NULL /\ (Waits(t, "reacquire") => t \in {rq.first_task, wq.first_task})
  BY <1>1, PipeAssumption DEF NoneForgotten, Task
<1> QED
  BY <1>2, <1>3, PipeAssumption DEF Task

\* Two tasks are never both inside.
LEMMA NotBothInside ==
  ASSUME PipeOK, NEW t \in Task, NEW u \in Task, t \notin blocked, u \notin blocked,
         pc[t] = "loop", pc[u] = "loop"
  PROVE  t = u
<1>1. t \in Inside /\ u \in Inside
  BY DEF Inside
<1>2. mutex.current_count \in {0, 1}
  BY DEF PipeOK, TypeOK
<1> QED
  BY <1>1, <1>2 DEF PipeOK, OneInside

ReaderWoken ==
  \A r \in Reader : Waits(r, "reacquire")
    => \/ mem = <<>>
       \/ \E w \in Writer : pc[w] = "loop" /\ w \notin blocked

WriterWoken ==
  \A w \in Writer : Waits(w, "reacquire")
    => \/ Len(mem) = DEFAULT_PIPE_SIZE
       \/ \E r \in Reader : pc[r] = "loop" /\ r \notin blocked

LEMMA NoLostWakeupParts == NoLostWakeup <=> (OnePair => ReaderWoken /\ WriterWoken)
BY DEF NoLostWakeup, ReaderWoken, WriterWoken

\* A step that puts nobody to sleep on a queue, takes nobody out of the loop and
\* leaves the bytes alone cannot lose a wake-up.
LEMMA WakeupFrame ==
  ASSUME \A u \in Task : Waits(u, "reacquire")' => Waits(u, "reacquire"),
         \A u \in Task : pc[u] = "loop" /\ u \notin blocked => pc'[u] = "loop" /\ u \notin blocked',
         mem' = mem
  PROVE  (ReaderWoken => ReaderWoken') /\ (WriterWoken => WriterWoken')
BY DEF ReaderWoken, WriterWoken, Task

LEMMA NoLostWakeupNext == PipeOK /\ NoLostWakeup /\ [Next]_vars => NoLostWakeup'
<1> SUFFICES ASSUME PipeOK, NoLostWakeup, [Next]_vars, OnePair'
             PROVE  ReaderWoken' /\ WriterWoken'
  BY DEF NoLostWakeup, ReaderWoken, WriterWoken
<1>1. users' = users
  BY DEF Next, read, write, Call, CallStep, ReadStep, WriteStep, ReadSome, ReadWait, ReadSignal,
         WriteSome, WriteWait, WriteSignal, Reacquire, Release, kbd_flush, vars
<1>2. OnePair /\ ReaderWoken /\ WriterWoken
  <2>1. OnePair
    BY <1>1 DEF OnePair
  <2> QED
    BY <2>1, NoLostWakeupParts
<1>3. /\ pc \in [Task -> {"idle", "loop", "reacquire", "release"}]
      /\ Reader \subseteq Task /\ Writer \subseteq Task /\ Reader \cap Writer = {}
      /\ mem \in Seq(Byte) /\ Len(mem) \in Nat /\ DEFAULT_PIPE_SIZE \in Nat
      /\ Len(mem) <= DEFAULT_PIPE_SIZE
  BY PipeAssumption, LenProperties DEF PipeOK, TypeOK, Task
<1>4. /\ \A r \in Reader : Waits(r, "reacquire") => r \in Signalled(rq)
      /\ \A w \in Writer : Waits(w, "reacquire") => w \in Signalled(wq)
  BY <1>2, SleeperIsFirst
<1>5. ASSUME NEW t \in Task, Awake(t, "idle") \/ Awake(t, "reacquire"),
             acquire_semaphore(t), pc' = [pc EXCEPT ![t] = "loop"], mem' = mem
      PROVE  ReaderWoken' /\ WriterWoken'
  <2>1. \A u \in Task : u # t => pc'[u] = pc[u] /\ (u \in blocked' <=> u \in blocked)
    BY <1>3, <1>5 DEF acquire_semaphore
  <2>2. pc'[t] = "loop" /\ pc[t] # "loop"
    BY <1>3, <1>5 DEF Awake
  <2>3. \A u \in Task : Waits(u, "reacquire")' => Waits(u, "reacquire")
    BY <2>1, <2>2 DEF Waits
  <2>4. \A u \in Task : pc[u] = "loop" /\ u \notin blocked => pc'[u] = "loop" /\ u \notin blocked'
    BY <2>1, <2>2
  <2> QED
    BY <2>3, <2>4, <1>2, <1>5, WakeupFrame
<1>6. ASSUME NEW t \in Task, NEW n \in Amount, read(t, n) \/ write(t, n)
      PROVE  ReaderWoken' /\ WriterWoken'
  BY <1>5, <1>6 DEF read, write, Call
<1>7. ASSUME NEW t \in Task, Reacquire(t) PROVE ReaderWoken' /\ WriterWoken'
  BY <1>5, <1>7 DEF Reacquire
<1>8. ASSUME NEW t \in Task, Release(t) PROVE ReaderWoken' /\ WriterWoken'
  <2>1. \A u \in Task : Waits(u, "reacquire")' => Waits(u, "reacquire")
    BY <1>3, <1>8 DEF Release, Waits
  <2>2. \A u \in Task : pc[u] = "loop" /\ u \notin blocked => pc'[u] = "loop" /\ u \notin blocked'
    BY <1>3, <1>8 DEF Release, Awake
  <2> QED
    BY <2>1, <2>2, <1>2, <1>8, WakeupFrame DEF Release
<1>9. ASSUME NEW t \in Task, ReadSome(t) PROVE ReaderWoken' /\ WriterWoken'
  <2>1. /\ t \in Reader /\ t \notin blocked /\ pc[t] = "loop" /\ pc' = pc /\ blocked' = blocked
        /\ Len(mem) # 0
    BY <1>3, <1>9 DEF ReadSome, Awake, Lesser, PipeOK, TypeOK
  <2>2. mem # <<>>
    BY <2>1, EmptySeq
  <2>3. ~\E w \in Writer : pc[w] = "loop" /\ w \notin blocked
    BY <2>1, <1>3, NotBothInside
  <2> QED
    BY <2>1, <2>2, <2>3, <1>2 DEF ReaderWoken, WriterWoken, Waits
<1>10. ASSUME NEW t \in Task, WriteSome(t) PROVE ReaderWoken' /\ WriterWoken'
  <2>1. /\ t \in Writer /\ t \notin blocked /\ pc[t] = "loop" /\ pc' = pc /\ blocked' = blocked
        /\ Len(mem) # DEFAULT_PIPE_SIZE
    BY <1>3, <1>10 DEF WriteSome, Awake, Lesser, PipeOK, TypeOK
  <2>2. ~\E r \in Reader : pc[r] = "loop" /\ r \notin blocked
    BY <2>1, <1>3, NotBothInside
  <2> QED
    BY <2>1, <2>2, <1>2 DEF ReaderWoken, WriterWoken, Waits
<1>11. ASSUME NEW t \in Task, ReadWait(t) PROVE ReaderWoken' /\ WriterWoken'
  <2>1. mem = <<>> /\ mem' = mem /\ t \notin Writer
    BY <1>3, <1>11, EmptySeq DEF ReadWait
  <2>2. ASSUME NEW w \in Writer, Waits(w, "reacquire")' PROVE FALSE
    <3>1. w # t /\ Waits(w, "reacquire")
      BY <2>1, <2>2, <1>3, <1>11 DEF ReadWait, Waits
    <3> QED
      BY <3>1, <2>2, <1>4, <1>11 DEF ReadWait, Waits
  <2> QED
    BY <2>1, <2>2 DEF ReaderWoken, WriterWoken
<1>12. ASSUME NEW t \in Task, WriteWait(t) PROVE ReaderWoken' /\ WriterWoken'
  <2>1. Len(mem') = DEFAULT_PIPE_SIZE /\ t \notin Reader
    BY <1>3, <1>12 DEF WriteWait
  <2>2. ASSUME NEW r \in Reader, Waits(r, "reacquire")' PROVE FALSE
    <3>1. r # t /\ Waits(r, "reacquire")
      BY <2>1, <2>2, <1>3, <1>12 DEF WriteWait, Waits
    <3> QED
      BY <3>1, <2>2, <1>4, <1>12 DEF WriteWait, Waits
  <2> QED
    BY <2>1, <2>2 DEF ReaderWoken, WriterWoken
<1>13. ASSUME NEW t \in Task, ReadSignal(t) PROVE ReaderWoken' /\ WriterWoken'
  <2>1. /\ t \in Reader /\ mem' = mem /\ blocked' = blocked \ Signalled(wq)
        /\ \A u \in Task : pc'[u] = IF u = t THEN "release" ELSE pc[u]
    BY <1>3, <1>13 DEF ReadSignal
  <2>2. \A u \in Task : Waits(u, "reacquire")' => Waits(u, "reacquire")
    BY <2>1 DEF Waits
  <2>3. WriterWoken'
    BY <2>1, <2>2, <1>3, <1>4 DEF WriterWoken, Waits
  <2>4. ReaderWoken'
    BY <2>1, <2>2, <1>2, <1>3 DEF ReaderWoken
  <2> QED
    BY <2>3, <2>4
<1>14. ASSUME NEW t \in Task, WriteSignal(t) PROVE ReaderWoken' /\ WriterWoken'
  <2>1. /\ t \in Writer /\ mem' = mem /\ blocked' = blocked \ Signalled(rq)
        /\ \A u \in Task : pc'[u] = IF u = t THEN "release" ELSE pc[u]
    BY <1>3, <1>14 DEF WriteSignal
  <2>2. \A u \in Task : Waits(u, "reacquire")' => Waits(u, "reacquire")
    BY <2>1 DEF Waits
  <2>3. ReaderWoken'
    BY <2>1, <2>2, <1>3, <1>4 DEF ReaderWoken, Waits
  <2>4. WriterWoken'
    BY <2>1, <2>2, <1>2, <1>3 DEF WriterWoken
  <2> QED
    BY <2>3, <2>4
<1>15. ASSUME NEW k \in Amount, kbd_flush(k) PROVE ReaderWoken' /\ WriterWoken'
  <2>1. pc' = pc /\ blocked' = blocked \ Signalled(rq)
    BY <1>15 DEF kbd_flush
  <2>2. \A u \in Task : Waits(u, "reacquire")' => Waits(u, "reacquire")
    BY <2>1 DEF Waits
  <2>3. ReaderWoken'
    BY <2>1, <2>2, <1>3, <1>4 DEF ReaderWoken, Waits
  <2>4. Len(mem) = DEFAULT_PIPE_SIZE => Len(mem') = DEFAULT_PIPE_SIZE
    <3>1. PICK n \in Nat : /\ Len(mem) + n <= DEFAULT_PIPE_SIZE
                           /\ written["kbd"] + n <= MaxBytes /\ Appended("kbd", n)
      BY <1>15, KbdFlushFacts
    <3>2. "kbd" \in Source /\ DataOK
      BY Parts DEF Source
    <3>3. Len(mem') = Len(mem) + n
      BY <3>1, <3>2, AppendFacts
    <3> QED
      BY <3>1, <3>3, <1>3
  <2>5. WriterWoken'
    BY <2>1, <2>2, <2>4, <1>2, <1>3 DEF WriterWoken
  <2> QED
    BY <2>3, <2>5
<1>16. CASE UNCHANGED vars
  BY <1>2, <1>16 DEF vars, ReaderWoken, WriterWoken, Waits
<1>17. ASSUME NEW t \in Task, CallStep(t) PROVE ReaderWoken' /\ WriterWoken'
  BY <1>7, <1>8, <1>9, <1>10, <1>11, <1>12, <1>13, <1>14, <1>17
     DEF CallStep, ReadStep, WriteStep
<1> QED
  BY <1>6, <1>15, <1>16, <1>17 DEF Next

(***************************************************************************)
(* Between one reader and one writer no wake-up is lost: the wait_queue(), *)
(* release_semaphore() and signal_queue() before a block, and the signal   *)
(* at the end of a call, leave no one asleep who could go on.              *)
(***************************************************************************)
THEOREM WakeupsArrive == Spec => []NoLostWakeup
<1>1. Init => NoLostWakeup
  BY DEF Init, NoLostWakeup, Waits
<1>2. PipeOK /\ NoLostWakeup /\ [Next]_vars => NoLostWakeup'
  BY NoLostWakeupNext
<1> QED
  BY <1>1, <1>2, PipeCorrect, PTL DEF Spec

=============================================================================
