---------------------------- MODULE SchedProofs ----------------------------
(***************************************************************************)
(* Proofs about Sched, for every set of tasks, semaphores and queues and   *)
(* every time slice.                                                       *)
(***************************************************************************)
EXTENDS Sched, FiniteSetTheorems, TLAPS

-----------------------------------------------------------------------------
(***************************************************************************)
(* The ready list as a data structure.                                     *)
(***************************************************************************)

\* The ready tasks are finitely many, so the list has a length.
LEMMA ReadyFinite ==
  ASSUME NEW kk
  PROVE  /\ IsFiniteSet(Ready(kk))
         /\ Cardinality(Ready(kk)) \in Nat
         /\ Cardinality(Ready(kk)) = 0 <=> Ready(kk) = {}
<1>1. Ready(kk) \in SUBSET Task
  BY DEF Ready
<1>2. IsFiniteSet(Ready(kk))
  BY <1>1, FS_Subset, TaskOpsAssumption
<1> QED
  BY <1>2, FS_CardinalityType, FS_EmptySet

\* A list that is not empty has its ends among the ready tasks, and one that
\* is empty has neither (task.c tests either pointer to see which it is).
LEMMA ListEnds ==
  ASSUME NEW kk, RunQueueIn(kk)
  PROVE  /\ kk.first_task = NULL <=> Ready(kk) = {}
         /\ kk.last_task = NULL <=> Ready(kk) = {}
         /\ kk.first_task # NULL => kk.first_task \in Ready(kk)
         /\ kk.last_task # NULL => kk.last_task \in Ready(kk)
<1> DEFINE n == Cardinality(Ready(kk))
<1>1. PICK rq \in Bijection(1 .. n, Ready(kk)) : ListsReady(kk, rq)
  BY DEF RunQueueIn
<1>2. rq \in [1 .. n -> Ready(kk)]
  BY DEF Bijection, Injection
<1>3. n \in Nat /\ (n = 0 <=> Ready(kk) = {})
  BY ReadyFinite
<1>4. Ready(kk) \subseteq Task /\ NULL \notin Task
  BY TaskOpsAssumption DEF Ready
<1>5. CASE n = 0
  BY <1>1, <1>3, <1>5 DEF ListsReady
<1>6. CASE n # 0
  <2>1. 1 \in 1 .. n /\ n \in 1 .. n
    BY <1>3, <1>6
  <2>2. rq[1] \in Ready(kk) /\ rq[n] \in Ready(kk)
    BY <2>1, <1>2
  <2>3. kk.first_task = rq[1] /\ kk.last_task = rq[n]
    BY <1>1, <1>6 DEF ListsReady
  <2> QED
    BY <2>2, <2>3, <1>3, <1>4, <1>6
<1> QED
  BY <1>5, <1>6

\* What the list is made of, spelled out.
LEMMA Bij ==
  ASSUME NEW n, NEW R, NEW f
  PROVE  f \in Bijection(1 .. n, R) <=>
           /\ f \in [1 .. n -> R]
           /\ \A i, j \in 1 .. n : f[i] = f[j] => i = j
           /\ \A t \in R : \E i \in 1 .. n : f[i] = t
BY DEF Bijection, Injection, Surjection, IsInjective

\* Changing the link of tasks that are not on the list leaves it as it is.
LEMMA ListFrame ==
  ASSUME NEW k1, NEW k2, RunQueueIn(k1), Ready(k2) = Ready(k1),
         k2.first_task = k1.first_task, k2.last_task = k1.last_task,
         \A t \in Ready(k1) : k2.next[t] = k1.next[t]
  PROVE  RunQueueIn(k2)
<1>1. PICK rq \in Bijection(1 .. Cardinality(Ready(k1)), Ready(k1)) : ListsReady(k1, rq)
  BY DEF RunQueueIn
<1>2. rq \in [1 .. Cardinality(Ready(k1)) -> Ready(k1)]
  BY Bij
<1>3. ListsReady(k2, rq)
  BY <1>1, <1>2 DEF ListsReady
<1> QED
  BY <1>1, <1>3 DEF RunQueueIn

\* Linking a task behind the last one.
LEMMA ListAppend ==
  ASSUME NEW k1, NEW k2, NEW t, RunQueueIn(k1), t \notin Ready(k1),
         Ready(k2) = Ready(k1) \cup {t},
         k2.first_task = IF k1.first_task = NULL THEN t ELSE k1.first_task,
         k2.last_task = t,
         k2.next[t] = NULL,
         k1.last_task # NULL => k2.next[k1.last_task] = t,
         \A u \in Ready(k1) \ {k1.last_task} : k2.next[u] = k1.next[u]
  PROVE  RunQueueIn(k2)
<1> DEFINE n == Cardinality(Ready(k1))
           R == Ready(k1)
<1>1. PICK rq \in Bijection(1 .. n, R) : ListsReady(k1, rq)
  BY DEF RunQueueIn
<1>2. /\ rq \in [1 .. n -> R]
      /\ \A i, j \in 1 .. n : rq[i] = rq[j] => i = j
      /\ \A u \in R : \E i \in 1 .. n : rq[i] = u
  BY <1>1, Bij
<1>3. n \in Nat /\ Cardinality(Ready(k2)) = n + 1
  BY ReadyFinite, FS_AddElement, ZenonT(30)
<1> DEFINE rr == [i \in 1 .. n + 1 |-> IF i = n + 1 THEN t ELSE rq[i]]
<1>4. rr \in Bijection(1 .. n + 1, Ready(k2))
  <2>1. rr \in [1 .. n + 1 -> Ready(k2)]
    BY <1>2, <1>3
  <2>2. ASSUME NEW i \in 1 .. n + 1, NEW j \in 1 .. n + 1, rr[i] = rr[j]
        PROVE  i = j
    <3>1. CASE i = n + 1 /\ j = n + 1
      BY <3>1
    <3>2. CASE i = n + 1 /\ j # n + 1
      <4>1. j \in 1 .. n
        BY <3>2, <1>3
      <4> QED
        BY <3>2, <4>1, <2>2, <1>2
    <3>3. CASE i # n + 1 /\ j = n + 1
      <4>1. i \in 1 .. n
        BY <3>3, <1>3
      <4> QED
        BY <3>3, <4>1, <2>2, <1>2
    <3>4. CASE i # n + 1 /\ j # n + 1
      <4>1. i \in 1 .. n /\ j \in 1 .. n
        BY <3>4, <1>3
      <4> QED
        BY <3>4, <4>1, <2>2, <1>2
    <3> QED
      BY <3>1, <3>2, <3>3, <3>4
  <2>3. ASSUME NEW u \in Ready(k2)
        PROVE  \E i \in 1 .. n + 1 : rr[i] = u
    <3>1. CASE u = t
      BY <3>1, <1>3
    <3>2. CASE u \in R
      <4>1. PICK i \in 1 .. n : rq[i] = u
        BY <3>2, <1>2
      <4>2. i \in 1 .. n + 1 /\ i # n + 1
        BY <1>3
      <4> QED
        BY <4>1, <4>2
    <3> QED
      BY <3>1, <3>2
  <2> QED
    BY <2>1, <2>2, <2>3, Bij
<1>5. ListsReady(k2, rr)
  <2>1. k2.first_task = rr[1]
    <3>1. CASE n = 0
      BY <3>1, <1>1 DEF ListsReady
    <3>2. CASE n # 0
      <4>1. 1 \in 1 .. n /\ rq[1] \in R
        BY <3>2, <1>2, <1>3
      <4>2. rq[1] # NULL
        BY <4>1, TaskOpsAssumption DEF Ready
      <4> QED
        BY <3>2, <4>1, <4>2, <1>1, <1>3 DEF ListsReady
    <3> QED
      BY <3>1, <3>2
  <2>2. k2.last_task = rr[n + 1]
    BY <1>3
  <2>3. ASSUME NEW i \in 1 .. n + 1
        PROVE  k2.next[rr[i]] = IF i = n + 1 THEN NULL ELSE rr[i + 1]
    <3>1. CASE i = n + 1
      BY <3>1
    <3>2. CASE i = n /\ i # n + 1
      <4>1. n \in 1 .. n /\ rq[n] \in R /\ n # 0
        BY <3>2, <1>2, <1>3
      <4>2. k1.last_task = rq[n] /\ rq[n] # NULL
        BY <4>1, <1>1, TaskOpsAssumption DEF ListsReady, Ready
      <4> QED
        BY <3>2, <4>1, <4>2, <1>3
    <3>3. CASE i # n /\ i # n + 1
      <4>1. i \in 1 .. n /\ i + 1 \in 1 .. n /\ n \in 1 .. n /\ n # 0
        BY <3>3, <1>3
      <4>2. k1.last_task = rq[n] /\ rq[i] # rq[n] /\ rq[i] \in R
        BY <3>3, <4>1, <1>1, <1>2 DEF ListsReady
      <4>3. k2.next[rq[i]] = rq[i + 1]
        BY <3>3, <4>1, <4>2, <1>1 DEF ListsReady
      <4> QED
        BY <3>3, <4>1, <4>3, <1>3
    <3> QED
      BY <3>1, <3>2, <3>3
  <2>4. Cardinality(Ready(k2)) = n + 1 /\ n + 1 # 0
    BY <1>3
  <2> HIDE DEF rr, n
  <2> QED
    BY <2>1, <2>2, <2>3, <2>4 DEF ListsReady
<1> QED
  BY <1>3, <1>4, <1>5 DEF RunQueueIn

\* Linking a task before the first one, as only create_task() does.
LEMMA ListPrepend ==
  ASSUME NEW k1, NEW k2, NEW t, RunQueueIn(k1), t \notin Ready(k1),
         Ready(k2) = Ready(k1) \cup {t},
         k2.first_task = t,
         k2.last_task = IF k1.first_task = NULL THEN t ELSE k1.last_task,
         k2.next[t] = k1.first_task,
         \A u \in Ready(k1) : k2.next[u] = k1.next[u]
  PROVE  RunQueueIn(k2)
<1> DEFINE n == Cardinality(Ready(k1))
           R == Ready(k1)
<1>1. PICK rq \in Bijection(1 .. n, R) : ListsReady(k1, rq)
  BY DEF RunQueueIn
<1>2. /\ rq \in [1 .. n -> R]
      /\ \A i, j \in 1 .. n : rq[i] = rq[j] => i = j
      /\ \A u \in R : \E i \in 1 .. n : rq[i] = u
  BY <1>1, Bij
<1>3. n \in Nat /\ Cardinality(Ready(k2)) = n + 1
  BY ReadyFinite, FS_AddElement
<1>4. k1.first_task = NULL <=> n = 0
  BY ListEnds, ReadyFinite
<1> DEFINE rr == [i \in 1 .. n + 1 |-> IF i = 1 THEN t ELSE rq[i - 1]]
<1>5. \A i \in 1 .. n + 1 : i # 1 => i - 1 \in 1 .. n
  BY <1>3
<1>6. rr \in Bijection(1 .. n + 1, Ready(k2))
  <2>1. rr \in [1 .. n + 1 -> Ready(k2)]
    BY <1>2, <1>3, <1>5
  <2>2. ASSUME NEW i \in 1 .. n + 1, NEW j \in 1 .. n + 1, rr[i] = rr[j]
        PROVE  i = j
    <3>1. CASE i = 1 \/ j = 1
      BY <3>1, <2>2, <1>2, <1>5
    <3>2. CASE i # 1 /\ j # 1
      <4>1. i - 1 = j - 1
        BY <3>2, <2>2, <1>2, <1>5
      <4> QED
        BY <4>1, <1>3
    <3> QED
      BY <3>1, <3>2
  <2>3. ASSUME NEW u \in Ready(k2)
        PROVE  \E i \in 1 .. n + 1 : rr[i] = u
    <3>1. CASE u = t
      BY <3>1, <1>3
    <3>2. CASE u \in R
      <4>1. PICK i \in 1 .. n : rq[i] = u
        BY <3>2, <1>2
      <4>2. i + 1 \in 1 .. n + 1 /\ i + 1 # 1 /\ (i + 1) - 1 = i
        BY <1>3
      <4> QED
        BY <4>1, <4>2
    <3> QED
      BY <3>1, <3>2
  <2> QED
    BY <2>1, <2>2, <2>3, Bij
<1>7. ListsReady(k2, rr)
  <2>1. k2.first_task = rr[1]
    BY <1>3
  <2>2. k2.last_task = rr[n + 1]
    <3>1. CASE n = 0
      BY <3>1, <1>4
    <3>2. CASE n # 0
      <4>1. n + 1 # 1 /\ (n + 1) - 1 = n /\ n + 1 \in 1 .. n + 1
        BY <3>2, <1>3
      <4> QED
        BY <3>2, <4>1, <1>1, <1>4 DEF ListsReady
    <3> QED
      BY <3>1, <3>2
  <2>3. ASSUME NEW i \in 1 .. n + 1
        PROVE  k2.next[rr[i]] = IF i = n + 1 THEN NULL ELSE rr[i + 1]
    <3>1. CASE i = 1
      <4>1. n # 0 => 2 \in 1 .. n + 1 /\ k1.first_task = rq[1]
        BY <1>1, <1>3 DEF ListsReady
      <4> QED
        BY <3>1, <4>1, <1>3, <1>4
    <3>2. CASE i # 1
      <4>1. /\ i - 1 \in 1 .. n
            /\ rq[i - 1] \in R
            /\ i - 1 = n <=> i = n + 1
            /\ i # n + 1 => /\ i + 1 \in 1 .. n + 1
                            /\ i + 1 # 1
                            /\ (i + 1) - 1 = (i - 1) + 1
        BY <3>2, <1>2, <1>3, <1>5
      <4>2. k1.next[rq[i - 1]] = IF i - 1 = n THEN NULL ELSE rq[(i - 1) + 1]
        BY <4>1, <1>1 DEF ListsReady
      <4> QED
        BY <3>2, <4>1, <4>2
    <3> QED
      BY <3>1, <3>2
  <2>4. Cardinality(Ready(k2)) = n + 1 /\ n + 1 # 0
    BY <1>3
  <2> HIDE DEF rr, n
  <2> QED
    BY <2>1, <2>2, <2>3, <2>4 DEF ListsReady
<1> QED
  BY <1>3, <1>6, <1>7 DEF RunQueueIn

\* Unlinking the first task.
LEMMA ListPop ==
  ASSUME NEW k1, NEW k2, RunQueueIn(k1), k1.first_task # NULL,
         Ready(k2) = Ready(k1) \ {k1.first_task},
         k2.first_task = IF k1.first_task = k1.last_task THEN NULL
                         ELSE k1.next[k1.first_task],
         k2.last_task = IF k1.first_task = k1.last_task THEN NULL
                        ELSE k1.last_task,
         \A u \in Ready(k2) : k2.next[u] = k1.next[u]
  PROVE  RunQueueIn(k2)
<1> DEFINE n == Cardinality(Ready(k1))
           R == Ready(k1)
           t == k1.first_task
<1>1. PICK rq \in Bijection(1 .. n, R) : ListsReady(k1, rq)
  BY DEF RunQueueIn
<1>2. /\ rq \in [1 .. n -> R]
      /\ \A i, j \in 1 .. n : rq[i] = rq[j] => i = j
      /\ \A u \in R : \E i \in 1 .. n : rq[i] = u
  BY <1>1, Bij
<1>3. t \in R /\ n \in Nat /\ n # 0 /\ Cardinality(Ready(k2)) = n - 1
  BY ReadyFinite, ListEnds, FS_RemoveElement
<1>4. /\ t = rq[1] /\ k1.last_task = rq[n]
      /\ \A i \in 1 .. n : k1.next[rq[i]] = IF i = n THEN NULL ELSE rq[i + 1]
  BY <1>1, <1>3 DEF ListsReady
<1>5. t = k1.last_task <=> n = 1
  BY <1>2, <1>3, <1>4
<1> DEFINE rr == [i \in 1 .. n - 1 |-> rq[i + 1]]
<1>6. \A i \in 1 .. n - 1 : i + 1 \in 1 .. n /\ i + 1 # 1
  BY <1>3
<1>7. \A i \in 1 .. n - 1 : rq[i + 1] \in Ready(k2)
  <2> TAKE i \in 1 .. n - 1
  <2>1. rq[i + 1] \in R /\ rq[i + 1] # rq[1]
    BY <1>2, <1>3, <1>6
  <2> QED
    BY <2>1, <1>4
<1>8. rr \in Bijection(1 .. n - 1, Ready(k2))
  <2>1. rr \in [1 .. n - 1 -> Ready(k2)]
    BY <1>7
  <2>2. ASSUME NEW i \in 1 .. n - 1, NEW j \in 1 .. n - 1, rr[i] = rr[j]
        PROVE  i = j
    <3>1. i + 1 = j + 1
      BY <2>2, <1>2, <1>6
    <3> QED
      BY <3>1, <1>3
  <2>3. ASSUME NEW u \in Ready(k2)
        PROVE  \E i \in 1 .. n - 1 : rr[i] = u
    <3>1. PICK i \in 1 .. n : rq[i] = u
      BY <1>2
    <3>2. i - 1 \in 1 .. n - 1 /\ (i - 1) + 1 = i
      BY <3>1, <1>3, <1>4
    <3> QED
      BY <3>1, <3>2
  <2> QED
    BY <2>1, <2>2, <2>3, Bij
<1>9. ListsReady(k2, rr)
  <2>1. k2.first_task = IF n - 1 = 0 THEN NULL ELSE rr[1]
    BY <1>3, <1>4, <1>5
  <2>2. k2.last_task = IF n - 1 = 0 THEN NULL ELSE rr[n - 1]
    <3>1. n # 1 => n - 1 \in 1 .. n - 1 /\ (n - 1) + 1 = n
      BY <1>3
    <3> QED
      BY <3>1, <1>3, <1>4, <1>5
  <2>3. ASSUME NEW i \in 1 .. n - 1
        PROVE  k2.next[rr[i]] = IF i = n - 1 THEN NULL ELSE rr[i + 1]
    <3>1. /\ i + 1 \in 1 .. n
          /\ i + 1 = n <=> i = n - 1
          /\ i # n - 1 => i + 1 \in 1 .. n - 1
      BY <1>3
    <3>2. k2.next[rq[i + 1]] = k1.next[rq[i + 1]]
      BY <1>7
    <3> QED
      BY <3>1, <3>2, <1>4
  <2> HIDE DEF rr, n
  <2> QED
    BY <2>1, <2>2, <2>3, <1>3 DEF ListsReady
<1> QED
  BY <1>3, <1>8, <1>9 DEF RunQueueIn

-----------------------------------------------------------------------------
(***************************************************************************)
(* What the operations do to a well-formed kernel state.                   *)
(***************************************************************************)

\* unblock_task() makes a task that was not ready the last of the list, and
\* clears its link: this is why release_semaphore() finds no second waiter.
LEMMA UnblockTask ==
  ASSUME NEW kk \in KernelState, RunQueueIn(kk),
         NEW t \in Task, t \notin Ready(kk)
  PROVE  LET u == unblock_task(kk, t) IN
         /\ u \in KernelState
         /\ RunQueueIn(u)
         /\ u.state = [kk.state EXCEPT ![t] = TASK_STATE_READY]
         /\ u.next[t] = NULL
         /\ u.current = kk.current
         /\ u.task_switch_lock = kk.task_switch_lock
         /\ u.postponed = kk.postponed
         /\ u.sem = kk.sem
         /\ u.queue = kk.queue
<1> DEFINE u == unblock_task(kk, t)
<1>1. /\ kk.last_task # t
      /\ kk.last_task \in TaskOrNull
      /\ kk.last_task # NULL => kk.last_task \in Task
      /\ kk.first_task = NULL <=> kk.last_task = NULL
      /\ t # NULL
  BY ListEnds, TaskOpsAssumption DEF KernelState, TaskOrNull
<1>2. /\ u \in KernelState
      /\ u.state = [kk.state EXCEPT ![t] = TASK_STATE_READY]
      /\ u.next[t] = NULL
      /\ u.current = kk.current
      /\ u.task_switch_lock = kk.task_switch_lock
      /\ u.postponed = kk.postponed
      /\ u.sem = kk.sem
      /\ u.queue = kk.queue
  BY <1>1 DEF unblock_task, LinkLast, KernelState, TaskOrNull, TaskState
<1>3. Ready(u) = Ready(kk) \cup {t}
  BY <1>2 DEF Ready, KernelState, TaskState, TASK_STATE_READY, TASK_STATE_ZERO
<1>4. RunQueueIn(u)
  <2>1. u.last_task = t /\ u.first_task = IF kk.first_task = NULL THEN t ELSE kk.first_task
    BY <1>1 DEF unblock_task, LinkLast, KernelState
  <2>2. kk.last_task # NULL => u.next[kk.last_task] = t
    BY <1>1 DEF unblock_task, LinkLast, KernelState
  <2>3. \A v \in Ready(kk) \ {kk.last_task} : u.next[v] = kk.next[v]
    BY <1>1 DEF unblock_task, LinkLast, KernelState, Ready
  <2> HIDE DEF u
  <2> QED
    BY <1>2, <1>3, <2>1, <2>2, <2>3, ListAppend
<1> QED
  BY <1>2, <1>4

\* The same for a forked task, and for a created one at the other end.
LEMMA CopyTask ==
  ASSUME NEW kk \in KernelState, RunQueueIn(kk),
         NEW t \in Task, t \notin Ready(kk)
  PROVE  LET u == copy_task(kk, t) IN
         /\ u \in KernelState
         /\ RunQueueIn(u)
         /\ u.state = [kk.state EXCEPT ![t] = TASK_STATE_READY]
         /\ u.current = kk.current
         /\ u.task_switch_lock = kk.task_switch_lock
         /\ u.postponed = kk.postponed
         /\ u.sem = kk.sem
         /\ u.queue = kk.queue
<1>1. copy_task(kk, t) = unblock_task(kk, t)
  BY DEF copy_task, unblock_task
<1> QED
  BY <1>1, UnblockTask

\* create_task() puts the new task in front of the ready list.
LEMMA CreateTask ==
  ASSUME NEW kk \in KernelState, RunQueueIn(kk),
         NEW t \in Task, t \notin Ready(kk)
  PROVE  LET u == create_task(kk, t) IN
         /\ u \in KernelState
         /\ RunQueueIn(u)
         /\ u.state = [kk.state EXCEPT ![t] = TASK_STATE_ZERO]
         /\ u.current = kk.current
         /\ u.task_switch_lock = kk.task_switch_lock
         /\ u.postponed = kk.postponed
         /\ u.sem = kk.sem
         /\ u.queue = kk.queue
<1> DEFINE u == create_task(kk, t)
<1>1. /\ kk.first_task \in TaskOrNull
      /\ kk.first_task = NULL <=> kk.last_task = NULL
      /\ t # NULL
  BY ListEnds, TaskOpsAssumption DEF KernelState
<1>2. /\ u \in KernelState
      /\ u.state = [kk.state EXCEPT ![t] = TASK_STATE_ZERO]
      /\ u.current = kk.current
      /\ u.task_switch_lock = kk.task_switch_lock
      /\ u.postponed = kk.postponed
      /\ u.sem = kk.sem
      /\ u.queue = kk.queue
  BY <1>1 DEF create_task, LinkFirst, KernelState, TaskOrNull, TaskState
<1>3. Ready(u) = Ready(kk) \cup {t}
  BY <1>2 DEF Ready, KernelState, TaskState, TASK_STATE_READY, TASK_STATE_ZERO
<1>4. RunQueueIn(u)
  <2>1. /\ u.first_task = t
        /\ u.last_task = IF kk.first_task = NULL THEN t ELSE kk.last_task
        /\ u.next[t] = kk.first_task
        /\ \A v \in Ready(kk) : u.next[v] = kk.next[v]
    BY <1>1 DEF create_task, LinkFirst, KernelState, Ready
  <2> HIDE DEF u
  <2> QED
    BY <1>3, <2>1, ListPrepend
<1> QED
  BY <1>2, <1>4

\* yield() keeps the kernel state well formed, blocks and unblocks nobody, and,
\* when switches are not locked, leaves a task on the CPU that is running.
LEMMA Yield ==
  ASSUME NEW kk \in KernelState, KernelOK(kk)
  PROVE  LET y == yield(kk) IN
         /\ y \in KernelState
         /\ KernelOK(y)
         /\ \A t \in Task : /\ y.state[t] = TASK_STATE_BLOCK <=> kk.state[t] = TASK_STATE_BLOCK
                            /\ y.state[t] = TASK_STATE_NONE <=> kk.state[t] = TASK_STATE_NONE
         /\ y.task_switch_lock = kk.task_switch_lock
         /\ y.sem = kk.sem
         /\ y.queue = kk.queue
         /\ kk.task_switch_lock = 0 => y.state[y.current] = TASK_STATE_RUNNING
         /\ kk.task_switch_lock > 0 => /\ y.current = kk.current
                                       /\ y.state = kk.state
                                       /\ y.postponed
<1> DEFINE y == yield(kk)
<1> USE DEF TASK_STATE_NONE, TASK_STATE_ZERO, TASK_STATE_RUNNING, TASK_STATE_READY,
            TASK_STATE_BLOCK
<1>1. CASE kk.task_switch_lock > 0
  <2>1. y = [kk EXCEPT !.postponed = TRUE]
    BY <1>1 DEF yield
  <2>2. y \in KernelState
    BY <2>1 DEF KernelState
  <2>3. /\ Ready(y) = Ready(kk)
        /\ y.state = kk.state /\ y.current = kk.current
        /\ y.first_task = kk.first_task /\ y.last_task = kk.last_task
        /\ y.next = kk.next
        /\ y.task_switch_lock = kk.task_switch_lock
        /\ y.sem = kk.sem /\ y.queue = kk.queue
        /\ y.postponed
    BY <2>1 DEF KernelState, Ready
  <2>4. KernelOK(y)
    <3> HIDE DEF y
    <3>1. RunQueueIn(y)
      BY <2>3, ListFrame DEF KernelOK
    <3> QED
      BY <2>3, <3>1 DEF KernelOK
  <2> QED
    BY <1>1, <2>2, <2>3, <2>4 DEF KernelState
<1>2. CASE kk.task_switch_lock = 0 /\ kk.first_task = NULL
  <2>1. y = kk
    BY <1>2 DEF yield
  <2>2. Ready(kk) = {}
    BY <1>2, ListEnds DEF KernelOK
  <2>3. kk.state[kk.current] = TASK_STATE_RUNNING
    BY <2>2 DEF KernelOK
  <2> QED
    BY <1>2, <2>1, <2>3
<1>3. CASE kk.task_switch_lock = 0 /\ kk.first_task # NULL
  <2> DEFINE r == Requeue(kk)
  <2>1. /\ kk.last_task # NULL
        /\ kk.first_task \in Ready(kk) /\ kk.last_task \in Ready(kk)
        /\ kk.first_task \in Task /\ kk.last_task \in Task
        /\ kk.current \in Task
    BY <1>3, ListEnds DEF KernelOK, Ready, KernelState
  <2>2. y = PopFirst(r)
    BY <1>3, <2>1 DEF yield
  <2>3. /\ r \in KernelState
        /\ RunQueueIn(r)
        /\ r.first_task = kk.first_task
        /\ r.first_task \in Ready(r)
        /\ r.last_task # NULL
        /\ \A t \in Task : r.state[t] # TASK_STATE_RUNNING
        /\ \A t \in Task : /\ r.state[t] = TASK_STATE_BLOCK <=> kk.state[t] = TASK_STATE_BLOCK
                           /\ r.state[t] = TASK_STATE_NONE <=> kk.state[t] = TASK_STATE_NONE
        /\ Idle \in Ready(r)
        /\ r.task_switch_lock = kk.task_switch_lock
        /\ r.sem = kk.sem /\ r.queue = kk.queue
    <3>1. CASE kk.state[kk.current] = TASK_STATE_RUNNING
      <4>1. kk.current \notin Ready(kk) /\ kk.current # kk.last_task
        BY <3>1, <2>1 DEF Ready
      <4>2. r = [kk EXCEPT !.next = [@ EXCEPT ![kk.current] = NULL,
                                             ![kk.last_task] = kk.current],
                           !.state[kk.current] = TASK_STATE_READY,
                           !.last_task = kk.current]
        BY <3>1 DEF Requeue
      <4>3. r \in KernelState
        <5>1. [kk.next EXCEPT ![kk.current] = NULL, ![kk.last_task] = kk.current]
                \in [Task -> TaskOrNull]
          BY <2>1 DEF KernelState, TaskOrNull
        <5>2. [kk.state EXCEPT ![kk.current] = TASK_STATE_READY] \in [Task -> TaskState]
          BY <2>1 DEF KernelState, TaskState
        <5>3. kk.current \in TaskOrNull
          BY <2>1 DEF TaskOrNull
        <5> QED
          BY <4>2, <5>1, <5>2, <5>3 DEF KernelState
      <4>4. /\ r.state = [kk.state EXCEPT ![kk.current] = TASK_STATE_READY]
            /\ r.first_task = kk.first_task
            /\ r.last_task = kk.current
            /\ r.next[kk.current] = NULL
            /\ r.next[kk.last_task] = kk.current
            /\ \A v \in Ready(kk) \ {kk.last_task} : r.next[v] = kk.next[v]
            /\ r.task_switch_lock = kk.task_switch_lock
            /\ r.sem = kk.sem /\ r.queue = kk.queue
        BY <4>1, <4>2, <2>1 DEF KernelState, Ready
      <4> HIDE DEF r
      <4>5. Ready(r) = Ready(kk) \cup {kk.current}
        BY <4>4 DEF Ready, KernelState
      <4>6. RunQueueIn(r)
        BY <4>1, <4>4, <4>5, <1>3, ListAppend DEF KernelOK
      <4>7. Idle \in Ready(r)
        BY <4>5 DEF KernelOK
      <4>8. kk.current # NULL
        BY <2>1, TaskOpsAssumption
      <4> QED
        BY <4>3, <4>4, <4>5, <4>6, <4>7, <4>8, <2>1, <3>1 DEF KernelOK, KernelState
    <3>2. CASE kk.state[kk.current] # TASK_STATE_RUNNING
      <4>1. r = kk
        BY <3>2 DEF Requeue
      <4>2. Idle \in Ready(kk)
        BY <3>2 DEF KernelOK
      <4> QED
        BY <4>1, <4>2, <2>1, <3>2 DEF KernelOK
    <3> QED
      BY <3>1, <3>2
  <2> HIDE DEF r
  <2> DEFINE p == PopFirst(r)
  <2>4. r.first_task \in Task /\ r.next \in [Task -> TaskOrNull] /\ r.state \in [Task -> TaskState]
    BY <2>3 DEF Ready, KernelState
  <2>5. p \in KernelState
    BY <2>3, <2>4, TaskOpsAssumption, ZenonT(30) DEF PopFirst, KernelState, TaskOrNull, TaskState
  <2>6. /\ p.current = r.first_task
        /\ p.state = [r.state EXCEPT ![r.first_task] = TASK_STATE_RUNNING]
        /\ p.first_task = IF r.first_task = r.last_task THEN NULL ELSE r.next[r.first_task]
        /\ p.last_task = IF r.first_task = r.last_task THEN NULL ELSE r.last_task
        /\ p.next = [r.next EXCEPT ![r.first_task] = NULL]
        /\ p.task_switch_lock = r.task_switch_lock
        /\ p.sem = r.sem /\ p.queue = r.queue
    BY <2>3 DEF PopFirst, KernelState
  <2> HIDE DEF p
  <2>7. Ready(p) = Ready(r) \ {r.first_task}
    BY <2>4, <2>6 DEF Ready
  <2>8. RunQueueIn(p)
    <3>1. r.first_task # NULL
      BY <1>3, <2>3
    <3>2. \A v \in Ready(p) : p.next[v] = r.next[v]
      BY <2>4, <2>6, <2>7 DEF Ready
    <3> QED
      BY <3>1, <3>2, <2>3, <2>6, <2>7, ListPop
  <2>9. KernelOK(p)
    BY <2>3, <2>4, <2>6, <2>7, <2>8 DEF KernelOK
  <2>10. /\ p.state[p.current] = TASK_STATE_RUNNING
         /\ \A t \in Task : /\ p.state[t] = TASK_STATE_BLOCK <=> kk.state[t] = TASK_STATE_BLOCK
                            /\ p.state[t] = TASK_STATE_NONE <=> kk.state[t] = TASK_STATE_NONE
    BY <2>3, <2>4, <2>6 DEF Ready
  <2> QED
    BY <2>2, <2>3, <2>5, <2>6, <2>9, <2>10, <1>3 DEF p
<1>4. kk.task_switch_lock \in Nat
  BY DEF KernelState
<1> QED
  BY <1>1, <1>2, <1>3, <1>4

\* KernelOK reads the ready list, the states and the current task only.
LEMMA KernelFrame ==
  ASSUME NEW k1, NEW k2, KernelOK(k1),
         k2.current = k1.current, k2.state = k1.state,
         k2.first_task = k1.first_task, k2.last_task = k1.last_task,
         \A t \in Ready(k1) : k2.next[t] = k1.next[t]
  PROVE  KernelOK(k2)
<1>1. Ready(k2) = Ready(k1)
  BY DEF Ready
<1>2. RunQueueIn(k2)
  BY <1>1, ListFrame DEF KernelOK
<1> QED
  BY <1>1, <1>2 DEF KernelOK

\* The two locks are counters beside the task structures.
LEMMA Locks ==
  ASSUME NEW kk \in KernelState, KernelOK(kk)
  PROVE  /\ lock_scheduler(kk) \in KernelState /\ KernelOK(lock_scheduler(kk))
         /\ unlock_scheduler(kk) \in KernelState /\ KernelOK(unlock_scheduler(kk))
         /\ lock_task_switches(kk) \in KernelState /\ KernelOK(lock_task_switches(kk))
<1>1. /\ lock_scheduler(kk) \in KernelState
      /\ unlock_scheduler(kk) \in KernelState
      /\ lock_task_switches(kk) \in KernelState
  BY DEF lock_scheduler, unlock_scheduler, lock_task_switches, KernelState
<1>2. ASSUME NEW n, NEW m
      PROVE  KernelOK([kk EXCEPT !.sched_lock = n]) /\ KernelOK([kk EXCEPT !.task_switch_lock = m])
  BY KernelFrame DEF KernelState
<1> QED
  BY <1>1, <1>2 DEF lock_scheduler, unlock_scheduler, lock_task_switches

\* signal_queue() makes the first waiter ready and leaves the queue without
\* a first task, whoever else waits.
LEMMA Signal ==
  ASSUME NEW kk \in KernelState, KernelOK(kk), NEW q \in Queue,
         kk.queue[q].first_task # NULL =>
           /\ kk.state[kk.queue[q].first_task] = TASK_STATE_BLOCK
           /\ kk.queue[q].amount_waiting > 0
  PROVE  LET u == SignalBody(kk, q)
             w == kk.queue[q].first_task
         IN  /\ u \in KernelState
             /\ KernelOK(u)
             /\ u.current = kk.current
             /\ u.task_switch_lock = kk.task_switch_lock
             /\ u.postponed = kk.postponed
             /\ u.sem = kk.sem
             /\ w = NULL => u = kk
             /\ w # NULL => /\ u.state = [kk.state EXCEPT ![w] = TASK_STATE_READY]
                            /\ u.queue = [kk.queue EXCEPT ![q].first_task = NULL,
                                                          ![q].last_task = NULL,
                                                          ![q].amount_waiting = @ - 1]
<1> DEFINE u == SignalBody(kk, q)
           w == kk.queue[q].first_task
<1>1. CASE w = NULL
  BY <1>1 DEF SignalBody
<1>2. CASE w # NULL
  <2> DEFINE b == unblock_task(kk, w)
  <2>1. w \in Task /\ kk.queue[q] \in ResourceQueue
    BY <1>2 DEF KernelState, ResourceQueue, TaskOrNull
  <2>2. w \notin Ready(kk) /\ w # Idle
    BY <1>2 DEF KernelOK, Ready, TASK_STATE_BLOCK, TASK_STATE_ZERO, TASK_STATE_READY,
                TASK_STATE_RUNNING
  <2>3. /\ b \in KernelState
        /\ RunQueueIn(b)
        /\ b.state = [kk.state EXCEPT ![w] = TASK_STATE_READY]
        /\ b.next[w] = NULL
        /\ b.current = kk.current
        /\ b.task_switch_lock = kk.task_switch_lock
        /\ b.postponed = kk.postponed
        /\ b.sem = kk.sem
        /\ b.queue = kk.queue
    BY <2>1, <2>2, UnblockTask DEF KernelOK
  <2>4. KernelOK(b)
    BY <2>1, <2>2, <2>3 DEF KernelOK, KernelState, Ready, TASK_STATE_READY,
         TASK_STATE_RUNNING, TASK_STATE_ZERO
  <2>5. u = UnlinkFirstQueued(b, q)
    BY <1>2 DEF SignalBody
  <2> HIDE DEF b
  <2>6. /\ u.queue = [kk.queue EXCEPT ![q].first_task = NULL,
                                      ![q].last_task = NULL,
                                      ![q].amount_waiting = @ - 1]
        /\ u.current = b.current /\ u.state = b.state /\ u.next = b.next
        /\ u.first_task = b.first_task /\ u.last_task = b.last_task
        /\ u.task_switch_lock = b.task_switch_lock
        /\ u.postponed = b.postponed
        /\ u.sem = b.sem
        /\ u = [b EXCEPT !.queue = u.queue]
    BY <2>3, <2>5 DEF UnlinkFirstQueued, KernelState, ResourceQueue
  <2>7. u.queue \in [Queue -> ResourceQueue]
    <3>1. kk.queue[q].amount_waiting - 1 \in Nat
      BY <1>2, <2>1 DEF ResourceQueue
    <3>2. kk.queue \in [Queue -> ResourceQueue]
      BY DEF KernelState
    <3> QED
      BY <2>6, <3>1, <3>2 DEF ResourceQueue, TaskOrNull
  <2> HIDE DEF u
  <2>8. u \in KernelState
    BY <2>3, <2>6, <2>7 DEF KernelState
  <2>9. KernelOK(u)
    BY <2>4, <2>6, KernelFrame
  <2> QED
    BY <1>2, <2>3, <2>6, <2>8, <2>9 DEF u
<1> QED
  BY <1>1, <1>2

\* release_semaphore() gives the unit back, or to the first waiter; then it
\* leaves the semaphore without a first waiter, whoever else waits.
LEMMA Release ==
  ASSUME NEW kk \in KernelState, KernelOK(kk), NEW s \in Sem,
         kk.sem[s].first_waiting_task # NULL =>
           kk.state[kk.sem[s].first_waiting_task] = TASK_STATE_BLOCK
  PROVE  LET u == ReleaseBody(kk, s)
             w == kk.sem[s].first_waiting_task
         IN  /\ u \in KernelState
             /\ KernelOK(u)
             /\ u.current = kk.current
             /\ u.task_switch_lock = kk.task_switch_lock
             /\ u.postponed = kk.postponed
             /\ u.queue = kk.queue
             /\ w = NULL => /\ u.state = kk.state
                            /\ u.sem = [kk.sem EXCEPT ![s].current_count = @ - 1]
             /\ w # NULL => /\ u.state = [kk.state EXCEPT ![w] = TASK_STATE_READY]
                            /\ u.sem = [kk.sem EXCEPT ![s].first_waiting_task = NULL,
                                                      ![s].last_waiting_task = NULL]
<1> DEFINE u == ReleaseBody(kk, s)
           w == kk.sem[s].first_waiting_task
<1>0. kk.sem \in [Sem -> Semaphore] /\ kk.sem[s] \in Semaphore
  BY DEF KernelState
<1>1. CASE w = NULL
  <2>1. u = [kk EXCEPT !.sem[s].current_count = @ - 1]
    BY <1>1 DEF ReleaseBody
  <2>2. [kk.sem EXCEPT ![s].current_count = @ - 1] \in [Sem -> Semaphore]
    BY <1>0 DEF Semaphore
  <2>3. /\ u.sem = [kk.sem EXCEPT ![s].current_count = @ - 1]
        /\ u.current = kk.current /\ u.state = kk.state /\ u.next = kk.next
        /\ u.first_task = kk.first_task /\ u.last_task = kk.last_task
        /\ u.task_switch_lock = kk.task_switch_lock
        /\ u.postponed = kk.postponed
        /\ u.queue = kk.queue
        /\ u = [kk EXCEPT !.sem = u.sem]
    BY <2>1 DEF KernelState
  <2> HIDE DEF u
  <2>4. u \in KernelState
    BY <2>2, <2>3 DEF KernelState
  <2>5. KernelOK(u)
    BY <2>3, KernelFrame
  <2> QED
    BY <1>1, <2>3, <2>4, <2>5 DEF u
<1>2. CASE w # NULL
  <2> DEFINE b == unblock_task(kk, w)
  <2>1. w \in Task
    BY <1>0, <1>2 DEF Semaphore, TaskOrNull
  <2>2. w \notin Ready(kk) /\ w # Idle
    BY <1>2 DEF KernelOK, Ready, TASK_STATE_BLOCK, TASK_STATE_ZERO, TASK_STATE_READY,
                TASK_STATE_RUNNING
  <2>3. /\ b \in KernelState
        /\ RunQueueIn(b)
        /\ b.state = [kk.state EXCEPT ![w] = TASK_STATE_READY]
        /\ b.next[w] = NULL
        /\ b.current = kk.current
        /\ b.task_switch_lock = kk.task_switch_lock
        /\ b.postponed = kk.postponed
        /\ b.sem = kk.sem
        /\ b.queue = kk.queue
    BY <2>1, <2>2, UnblockTask DEF KernelOK
  <2>4. KernelOK(b)
    BY <2>1, <2>2, <2>3 DEF KernelOK, KernelState, Ready, TASK_STATE_READY,
         TASK_STATE_RUNNING, TASK_STATE_ZERO
  <2>5. u = UnlinkFirstWaiter(b, s)
    BY <1>2 DEF ReleaseBody
  <2> HIDE DEF b
  <2>6. /\ u.sem = [kk.sem EXCEPT ![s].first_waiting_task = NULL,
                                  ![s].last_waiting_task = NULL]
        /\ u.current = b.current /\ u.state = b.state /\ u.next = b.next
        /\ u.first_task = b.first_task /\ u.last_task = b.last_task
        /\ u.task_switch_lock = b.task_switch_lock
        /\ u.postponed = b.postponed
        /\ u.queue = b.queue
        /\ u = [b EXCEPT !.sem = u.sem]
    BY <2>3, <2>5 DEF UnlinkFirstWaiter, KernelState, Semaphore
  <2>7. u.sem \in [Sem -> Semaphore]
    BY <1>0, <2>6 DEF Semaphore, TaskOrNull
  <2> HIDE DEF u
  <2>8. u \in KernelState
    BY <2>3, <2>6, <2>7 DEF KernelState
  <2>9. KernelOK(u)
    BY <2>4, <2>6, KernelFrame
  <2> QED
    BY <1>2, <2>3, <2>6, <2>8, <2>9 DEF u
<1> QED
  BY <1>1, <1>2

\* block_task() with task switches locked: the state changes, the switch waits.
LEMMA Block ==
  ASSUME NEW kk \in KernelState, KernelOK(kk), kk.task_switch_lock > 0,
         kk.current # Idle, kk.state[kk.current] = TASK_STATE_RUNNING
  PROVE  LET u == block_task(kk) IN
         /\ u \in KernelState
         /\ KernelOK(u)
         /\ u.state = [kk.state EXCEPT ![kk.current] = TASK_STATE_BLOCK]
         /\ u.postponed
         /\ u.current = kk.current
         /\ u.task_switch_lock = kk.task_switch_lock
         /\ u.sem = kk.sem
         /\ u.queue = kk.queue
<1> DEFINE u == block_task(kk)
<1>1. kk.current \in Task /\ kk.state \in [Task -> TaskState]
  BY DEF KernelState
<1>2. u = [kk EXCEPT !.state[kk.current] = TASK_STATE_BLOCK, !.postponed = TRUE]
  BY DEF block_task, yield, KernelState
<1>3. [kk.state EXCEPT ![kk.current] = TASK_STATE_BLOCK] \in [Task -> TaskState]
  BY <1>1 DEF TaskState
<1>4. u \in KernelState
  BY <1>2, <1>3 DEF KernelState
<1>5. /\ u.state = [kk.state EXCEPT ![kk.current] = TASK_STATE_BLOCK]
      /\ u.postponed
      /\ u.current = kk.current
      /\ u.first_task = kk.first_task /\ u.last_task = kk.last_task
      /\ u.next = kk.next
      /\ u.task_switch_lock = kk.task_switch_lock
      /\ u.sem = kk.sem
      /\ u.queue = kk.queue
  BY <1>2 DEF KernelState
<1> HIDE DEF u
<1>6. Ready(u) = Ready(kk)
  BY <1>1, <1>5 DEF Ready, TASK_STATE_BLOCK, TASK_STATE_RUNNING, TASK_STATE_READY,
       TASK_STATE_ZERO
<1>7. RunQueueIn(u)
  BY <1>5, <1>6, ListFrame DEF KernelOK
<1>8. KernelOK(u)
  BY <1>1, <1>5, <1>6, <1>7 DEF KernelOK, TASK_STATE_BLOCK, TASK_STATE_RUNNING
<1> QED
  BY <1>4, <1>5, <1>8 DEF u

\* Assignments to the fields of a structure in a table keep its type, and two
\* groups of them in a row are one.
SemSet(f, s, x, y, g) == g = [f EXCEPT ![s].first_waiting_task = x, ![s].last_waiting_task = y]
FirstSet(f, q, x, g) == g = [f EXCEPT ![q].first_task = x]
LastSet(g, q, y, h) == h = [g EXCEPT ![q].last_task = y, ![q].amount_waiting = @ + 1]
WaiterSet(f, q, x, y, h) ==
  h = [f EXCEPT ![q].first_task = x, ![q].last_task = y, ![q].amount_waiting = @ + 1]

LEMMA SemPut ==
  ASSUME NEW f \in [Sem -> Semaphore], NEW s \in Sem,
         NEW x \in TaskOrNull, NEW y \in TaskOrNull, NEW g, SemSet(f, s, x, y, g)
  PROVE  g \in [Sem -> Semaphore]
<1>1. f[s] \in Semaphore
  OBVIOUS
<1>2. PICK r : r = [[f[s] EXCEPT !.first_waiting_task = x] EXCEPT !.last_waiting_task = y]
  OBVIOUS
<1>3. r \in Semaphore
  BY <1>1, <1>2 DEF Semaphore
<1>4. g = [f EXCEPT ![s] = r]
  BY <1>2 DEF SemSet
<1> QED
  BY <1>3, <1>4

LEMMA QueuePut ==
  ASSUME NEW f \in [Queue -> ResourceQueue], NEW q \in Queue, NEW x, NEW y, NEW g, NEW h,
         FirstSet(f, q, x, g), LastSet(g, q, y, h)
  PROVE  WaiterSet(f, q, x, y, h)
BY DEF FirstSet, LastSet, WaiterSet

\* acquire_semaphore() takes a unit, or makes the task the last waiter.
LEMMA Acquire ==
  ASSUME NEW kk \in KernelState, KernelOK(kk), kk.task_switch_lock > 0, NEW s \in Sem,
         kk.current # Idle, kk.state[kk.current] = TASK_STATE_RUNNING,
         kk.sem[s].first_waiting_task = NULL <=> kk.sem[s].last_waiting_task = NULL,
         kk.sem[s].last_waiting_task # NULL =>
           kk.state[kk.sem[s].last_waiting_task] = TASK_STATE_BLOCK
  PROVE  LET u == AcquireBody(kk, s)
             free == kk.sem[s].current_count < kk.sem[s].max_count
             w == kk.sem[s].first_waiting_task
         IN  /\ u \in KernelState
             /\ KernelOK(u)
             /\ u.current = kk.current
             /\ u.task_switch_lock = kk.task_switch_lock
             /\ u.queue = kk.queue
             /\ free => /\ u.state = kk.state
                        /\ u.postponed = kk.postponed
                        /\ u.sem = [kk.sem EXCEPT ![s].current_count = @ + 1]
             /\ ~free => /\ u.state = [kk.state EXCEPT ![kk.current] = TASK_STATE_BLOCK]
                         /\ u.postponed
                         /\ u.sem = [kk.sem EXCEPT
                              ![s].first_waiting_task = IF w = NULL THEN kk.current ELSE w,
                              ![s].last_waiting_task = kk.current]
<1> DEFINE u == AcquireBody(kk, s)
           w == kk.sem[s].first_waiting_task
           l == kk.sem[s].last_waiting_task
           c == kk.current
<1>0. /\ kk.sem \in [Sem -> Semaphore] /\ kk.sem[s] \in Semaphore
      /\ kk.sem[s].current_count \in Int /\ kk.sem[s].max_count \in Int
      /\ c \in Task /\ l \in TaskOrNull
  BY DEF KernelState, Semaphore
<1>1. CASE kk.sem[s].current_count < kk.sem[s].max_count
  <2>1. u = [kk EXCEPT !.sem[s].current_count = @ + 1]
    BY <1>0, <1>1 DEF AcquireBody
  <2>2. [kk.sem EXCEPT ![s].current_count = @ + 1] \in [Sem -> Semaphore]
    BY <1>0 DEF Semaphore
  <2>3. /\ u.sem = [kk.sem EXCEPT ![s].current_count = @ + 1]
        /\ u.current = kk.current /\ u.state = kk.state /\ u.next = kk.next
        /\ u.first_task = kk.first_task /\ u.last_task = kk.last_task
        /\ u.task_switch_lock = kk.task_switch_lock
        /\ u.postponed = kk.postponed
        /\ u.queue = kk.queue
        /\ u = [kk EXCEPT !.sem = u.sem]
    BY <2>1 DEF KernelState
  <2> HIDE DEF u
  <2>4. u \in KernelState
    BY <2>2, <2>3 DEF KernelState
  <2>5. KernelOK(u)
    BY <2>3, KernelFrame
  <2> QED
    BY <1>1, <2>3, <2>4, <2>5 DEF u
<1>2. CASE ~(kk.sem[s].current_count < kk.sem[s].max_count)
  <2> DEFINE b == IF l = NULL
                  THEN [kk EXCEPT !.sem[s].first_waiting_task = c,
                                  !.sem[s].last_waiting_task = c]
                  ELSE [kk EXCEPT !.next[l] = c, !.sem[s].last_waiting_task = c]
  <2>1. u = block_task(b)
    BY <1>0, <1>2 DEF AcquireBody
  <2>2. l # NULL => l \in Task /\ l \notin Ready(kk)
    BY <1>0 DEF TaskOrNull, Ready, TASK_STATE_BLOCK, TASK_STATE_READY, TASK_STATE_ZERO
  <2>3. /\ b.sem = [kk.sem EXCEPT
                      ![s].first_waiting_task = IF w = NULL THEN kk.current ELSE w,
                      ![s].last_waiting_task = kk.current]
        /\ b.next = IF l = NULL THEN kk.next ELSE [kk.next EXCEPT ![l] = c]
        /\ b.current = kk.current /\ b.state = kk.state
        /\ b.first_task = kk.first_task /\ b.last_task = kk.last_task
        /\ b.task_switch_lock = kk.task_switch_lock
        /\ b.queue = kk.queue
        /\ b = [kk EXCEPT !.sem = b.sem, !.next = b.next]
    BY <1>0 DEF KernelState, Semaphore
  <2> HIDE DEF b
  <2>4. b.sem \in [Sem -> Semaphore]
    <3>1. PICK x : x = IF w = NULL THEN kk.current ELSE w
      OBVIOUS
    <3>2. x \in TaskOrNull /\ kk.current \in TaskOrNull
      <4>1. w \in TaskOrNull /\ kk.current \in TaskOrNull
        BY <1>0 DEF Semaphore, TaskOrNull
      <4> QED
        BY <3>1, <4>1
    <3>3. SemSet(kk.sem, s, x, kk.current, b.sem)
      BY <2>3, <3>1, Zenon DEF SemSet
    <3> QED
      BY <1>0, <3>2, <3>3, SemPut, Zenon
  <2>5. b.next \in [Task -> TaskOrNull]
    BY <1>0, <2>2, <2>3 DEF KernelState, TaskOrNull
  <2>6. b \in KernelState
    BY <2>3, <2>4, <2>5 DEF KernelState
  <2>7. \A t \in Ready(kk) : b.next[t] = kk.next[t]
    BY <2>2, <2>3 DEF KernelState, Ready
  <2>8. KernelOK(b)
    BY <2>3, <2>7, KernelFrame
  <2>9. LET d == block_task(b) IN
        /\ d \in KernelState
        /\ KernelOK(d)
        /\ d.state = [b.state EXCEPT ![b.current] = TASK_STATE_BLOCK]
        /\ d.postponed
        /\ d.current = b.current
        /\ d.task_switch_lock = b.task_switch_lock
        /\ d.sem = b.sem
        /\ d.queue = b.queue
    BY <2>3, <2>6, <2>8, Block
  <2> QED
    BY <1>2, <2>1, <2>3, <2>9
<1> QED
  BY <1>1, <1>2

\* wait_queue() makes the task the last waiter.
LEMMA Wait ==
  ASSUME NEW kk \in KernelState, KernelOK(kk), kk.task_switch_lock > 0, NEW q \in Queue,
         kk.current # Idle, kk.state[kk.current] = TASK_STATE_RUNNING,
         kk.queue[q].first_task = NULL <=> kk.queue[q].last_task = NULL,
         kk.queue[q].last_task # NULL =>
           kk.state[kk.queue[q].last_task] = TASK_STATE_BLOCK
  PROVE  LET u == WaitBody(kk, q)
             w == kk.queue[q].first_task
         IN  /\ u \in KernelState
             /\ KernelOK(u)
             /\ u.current = kk.current
             /\ u.task_switch_lock = kk.task_switch_lock
             /\ u.sem = kk.sem
             /\ u.state = [kk.state EXCEPT ![kk.current] = TASK_STATE_BLOCK]
             /\ u.postponed
             /\ u.queue = [kk.queue EXCEPT
                             ![q].first_task = IF w = NULL THEN kk.current ELSE w,
                             ![q].last_task = kk.current,
                             ![q].amount_waiting = @ + 1]
<1> DEFINE u == WaitBody(kk, q)
           w == kk.queue[q].first_task
           l == kk.queue[q].last_task
           c == kk.current
           a == IF w = NULL THEN [kk EXCEPT !.queue[q].first_task = c]
                            ELSE [kk EXCEPT !.next[l] = c]
           b == [a EXCEPT !.queue[q].amount_waiting = @ + 1,
                          !.queue[q].last_task = c,
                          !.next[c] = NULL]
<1>0. /\ kk.queue \in [Queue -> ResourceQueue] /\ kk.queue[q] \in ResourceQueue
      /\ kk.queue[q].amount_waiting \in Nat
      /\ c \in Task /\ l \in TaskOrNull /\ w \in TaskOrNull
  BY DEF KernelState, ResourceQueue
<1>1. u = block_task(b)
  BY DEF WaitBody
<1>2. /\ l # NULL => l \in Task /\ l \notin Ready(kk)
      /\ c \notin Ready(kk)
  BY <1>0 DEF TaskOrNull, Ready, TASK_STATE_BLOCK, TASK_STATE_READY, TASK_STATE_ZERO,
       TASK_STATE_RUNNING
<1>3. /\ a.queue = [kk.queue EXCEPT ![q].first_task = IF w = NULL THEN c ELSE w]
      /\ a.next = IF w = NULL THEN kk.next ELSE [kk.next EXCEPT ![l] = c]
      /\ a = [kk EXCEPT !.queue = a.queue, !.next = a.next]
  BY <1>0 DEF KernelState, ResourceQueue
<1> HIDE DEF a
<1>4. /\ b.queue = [a.queue EXCEPT ![q].last_task = c, ![q].amount_waiting = @ + 1]
      /\ b.next = [a.next EXCEPT ![c] = NULL]
      /\ b = [kk EXCEPT !.queue = b.queue, !.next = b.next]
  BY <1>0, <1>3 DEF KernelState, ResourceQueue
<1> HIDE DEF b
<1>5. b.queue = [kk.queue EXCEPT ![q].first_task = IF w = NULL THEN c ELSE w,
                                 ![q].last_task = c,
                                 ![q].amount_waiting = @ + 1]
  <2>1. PICK x : x = IF w = NULL THEN c ELSE w
    OBVIOUS
  <2>2. FirstSet(kk.queue, q, x, a.queue)
    BY <1>3, <2>1, Zenon DEF FirstSet
  <2>3. LastSet(a.queue, q, c, b.queue)
    BY <1>4, Zenon DEF LastSet
  <2>4. WaiterSet(kk.queue, q, x, c, b.queue)
    BY <1>0, <2>2, <2>3, QueuePut, Zenon
  <2> QED
    BY <2>1, <2>4, Zenon DEF WaiterSet
<1>6. b.queue \in [Queue -> ResourceQueue]
  BY <1>0, <1>5 DEF ResourceQueue, TaskOrNull
<1>7. b.next \in [Task -> TaskOrNull] /\ \A t \in Ready(kk) : b.next[t] = kk.next[t]
  BY <1>0, <1>2, <1>3, <1>4 DEF KernelState, TaskOrNull, Ready
<1>8. /\ b \in KernelState
      /\ b.current = kk.current /\ b.state = kk.state
      /\ b.first_task = kk.first_task /\ b.last_task = kk.last_task
      /\ b.task_switch_lock = kk.task_switch_lock
      /\ b.sem = kk.sem
  BY <1>4, <1>6, <1>7 DEF KernelState
<1>9. KernelOK(b)
  BY <1>7, <1>8, KernelFrame
<1>10. LET d == block_task(b) IN
       /\ d \in KernelState
       /\ KernelOK(d)
       /\ d.state = [b.state EXCEPT ![b.current] = TASK_STATE_BLOCK]
       /\ d.postponed
       /\ d.current = b.current
       /\ d.task_switch_lock = b.task_switch_lock
       /\ d.sem = b.sem
       /\ d.queue = b.queue
  BY <1>8, <1>9, Block
<1> QED
  BY <1>1, <1>5, <1>8, <1>10

-----------------------------------------------------------------------------
(***************************************************************************)
(* The invariant is preserved.                                             *)
(***************************************************************************)

\* A yield between lock_scheduler() and unlock_scheduler(), as a step.
LEMMA YieldStep ==
  ASSUME TypeOK, NEW kk \in KernelState, KernelOK(kk),
         YieldCall(kk, TRUE) \/ YieldCall(kk, FALSE)
  PROVE  /\ k' \in KernelState
         /\ KernelOK(k')
         /\ pend' \in [Task -> Nat]
         /\ inIrq' \in [Task -> BOOLEAN]
         /\ \A t \in Task : /\ k'.state[t] = TASK_STATE_BLOCK <=> kk.state[t] = TASK_STATE_BLOCK
                            /\ k'.state[t] = TASK_STATE_NONE <=> kk.state[t] = TASK_STATE_NONE
         /\ k'.task_switch_lock = kk.task_switch_lock
         /\ k'.sem = kk.sem
         /\ k'.queue = kk.queue
         /\ kk.task_switch_lock = 0 => k'.state[k'.current] = TASK_STATE_RUNNING
         /\ kk.task_switch_lock > 0 => /\ k'.current = kk.current
                                       /\ k'.state = kk.state
                                       /\ k'.postponed
                                       /\ pend' = pend
<1> DEFINE e == lock_scheduler(kk)
           y == yield(e)
           z == IF y.current # kk.current THEN y ELSE unlock_scheduler(y)
<1>1. /\ e \in KernelState /\ KernelOK(e)
      /\ e.state = kk.state /\ e.current = kk.current
      /\ e.task_switch_lock = kk.task_switch_lock
      /\ e.sem = kk.sem /\ e.queue = kk.queue
  BY Locks DEF lock_scheduler, KernelState
<1>2. k' = z
  BY DEF YieldCall
<1> HIDE DEF e
<1>3. /\ y \in KernelState
      /\ KernelOK(y)
      /\ \A t \in Task : /\ y.state[t] = TASK_STATE_BLOCK <=> e.state[t] = TASK_STATE_BLOCK
                         /\ y.state[t] = TASK_STATE_NONE <=> e.state[t] = TASK_STATE_NONE
      /\ y.task_switch_lock = e.task_switch_lock
      /\ y.sem = e.sem
      /\ y.queue = e.queue
      /\ e.task_switch_lock = 0 => y.state[y.current] = TASK_STATE_RUNNING
      /\ e.task_switch_lock > 0 => /\ y.current = e.current
                                   /\ y.state = e.state
                                   /\ y.postponed
  BY <1>1, Yield
<1>4. kk.task_switch_lock > 0 => pend' = pend
  BY <1>1, <1>3 DEF YieldCall, e
<1>5. kk.current \in Task
  BY DEF KernelState
<1>6. pend' \in [Task -> Nat] /\ inIrq' \in [Task -> BOOLEAN]
  <2>1. CASE YieldCall(kk, TRUE)
    BY <1>5, <2>1 DEF YieldCall, TypeOK
  <2>2. CASE YieldCall(kk, FALSE)
    BY <1>5, <2>2 DEF YieldCall, TypeOK
  <2> QED
    BY <2>1, <2>2
<1> HIDE DEF y
<1>7. /\ z \in KernelState /\ KernelOK(z)
      /\ z.state = y.state /\ z.current = y.current
      /\ z.task_switch_lock = y.task_switch_lock
      /\ z.postponed = y.postponed
      /\ z.sem = y.sem /\ z.queue = y.queue
  BY <1>3, Locks DEF unlock_scheduler, KernelState
<1> HIDE DEF z
<1> QED
  BY <1>1, <1>2, <1>3, <1>4, <1>6, <1>7

\* The parts of CallsOK that a step of the current task can disturb.
CurrentOK ==
  /\ LockPrivate
  /\ k.state[k.current] # TASK_STATE_RUNNING =>
       /\ k.postponed
       /\ pend[k.current] = 0
       /\ pc[k.current] \in {"unlock", "check"}

\* A step that gives and takes no semaphore.
LEMMA Quiet ==
  ASSUME Whole, TypeOK', KernelOK(k'), CurrentOK', WaitersOK',
         k'.sem = k.sem, UNCHANGED <<op, obj, holds, torn>>,
         \A t \in Task :
           /\ pc'[t] = "run" <=> pc[t] = "run"
           /\ k'.state[t] = TASK_STATE_BLOCK => k.state[t] = TASK_STATE_BLOCK
           /\ op[t] = "acquire" =>
                (k'.state[t] = TASK_STATE_BLOCK <=> k.state[t] = TASK_STATE_BLOCK)
           /\ k'.state[t] = TASK_STATE_NONE => k.state[t] = TASK_STATE_NONE
  PROVE  Whole'
<1>1. CallsOK'
  BY DEF Whole, CallsOK, CurrentOK, LockPrivate
<1>2. ASSUME NEW s \in Sem
      PROVE  Owners(s)' = Owners(s)
  BY DEF Owners, Acquiring
<1>3. CountOK'
  BY <1>2 DEF Whole, CountOK, CountsOwners
<1> QED
  BY <1>1, <1>3 DEF Whole

\* WaitersOK when neither the waiting lists nor who is blocked changes.
LEMMA SameWaiters ==
  ASSUME Whole, TypeOK', k'.sem = k.sem, k'.queue = k.queue, UNCHANGED <<op, obj>>,
         \A t \in Task : k.state[t] = TASK_STATE_BLOCK => k'.state[t] = TASK_STATE_BLOCK
  PROVE  WaitersOK'
<1>1. \A s \in Sem : /\ k.sem[s].first_waiting_task \in Task \cup {NULL}
                     /\ k.sem[s].last_waiting_task \in Task \cup {NULL}
  BY DEF Whole, TypeOK, KernelState, Semaphore, TaskOrNull
<1>2. \A q \in Queue : /\ k.queue[q].first_task \in Task \cup {NULL}
                       /\ k.queue[q].last_task \in Task \cup {NULL}
  BY DEF Whole, TypeOK, KernelState, ResourceQueue, TaskOrNull
<1> QED
  BY <1>1, <1>2 DEF Whole, WaitersOK, BlockedIn

\* The unlock_scheduler() of a task that was switched in keeps the invariant.
LEMMA ResumeStep ==
  ASSUME Whole, NEW t \in Task, Resume(t)
  PROVE  Whole'
<1>1. /\ k' \in KernelState /\ KernelOK(k')
      /\ k'.current = k.current /\ k'.state = k.state
      /\ k'.task_switch_lock = k.task_switch_lock
      /\ k'.postponed = k.postponed
      /\ k'.sem = k.sem /\ k'.queue = k.queue
  BY Locks DEF Whole, TypeOK, Resume, unlock_scheduler, KernelState
<1>2. TypeOK'
  BY <1>1 DEF Whole, TypeOK, Resume
<1>3. CurrentOK'
  BY <1>1 DEF Whole, TypeOK, CallsOK, CurrentOK, LockPrivate, Resume
<1>4. WaitersOK'
  BY <1>1, <1>2, SameWaiters DEF Resume
<1> QED
  BY <1>1, <1>2, <1>3, <1>4, Quiet DEF Resume

\* The decrement in unlock_task_switches() keeps the invariant: the lock was held.
LEMMA UnlockDecrementStep ==
  ASSUME Whole, NEW t \in Task, UnlockDecrement(t)
  PROVE  Whole'
<1>1. k.current = t /\ pc[t] = "unlock" /\ k.task_switch_lock = 1
  BY DEF Whole, CallsOK, LockPrivate, UnlockDecrement, Runs
<1>2. /\ k' = [k EXCEPT !.task_switch_lock = @ - 1]
      /\ pc' = [pc EXCEPT ![t] = "check"]
      /\ UNCHANGED <<op, obj, pend, inIrq, holds, torn>>
  BY <1>1 DEF UnlockDecrement
<1>3. /\ k' \in KernelState
      /\ k'.current = k.current /\ k'.state = k.state
      /\ k'.first_task = k.first_task /\ k'.last_task = k.last_task
      /\ k'.next = k.next
      /\ k'.task_switch_lock = 0
      /\ k'.postponed = k.postponed
      /\ k'.sem = k.sem /\ k'.queue = k.queue
  BY <1>1, <1>2 DEF Whole, TypeOK, KernelState
<1>4. KernelOK(k')
  BY <1>3, KernelFrame DEF Whole
<1>5. TypeOK'
  BY <1>2, <1>3 DEF Whole, TypeOK, Pc
<1>6. CurrentOK'
  BY <1>1, <1>2, <1>3 DEF Whole, TypeOK, CallsOK, CurrentOK, LockPrivate
<1>7. WaitersOK'
  BY <1>2, <1>3, <1>5, SameWaiters
<1>8. \A u \in Task : pc'[u] = "run" <=> pc[u] = "run"
  BY <1>1, <1>2 DEF Whole, TypeOK
<1> QED
  BY <1>2, <1>3, <1>4, <1>5, <1>6, <1>7, <1>8, Quiet

\* The test in unlock_task_switches() keeps the invariant: it switches if the task
\* no longer runs.
LEMMA UnlockCheckStep ==
  ASSUME Whole, NEW t \in Task, UnlockCheck(t)
  PROVE  Whole'
<1>1. /\ k.current = t /\ pc[t] = "check" /\ k.task_switch_lock = 0
      /\ pc' = [pc EXCEPT ![t] = "ret"] /\ UNCHANGED <<op, obj, holds, torn>>
      /\ \A u \in Task : pc[u] # "unlock"
      /\ pc \in [Task -> Pc]
      /\ k \in KernelState /\ KernelOK(k)
  BY DEF Whole, TypeOK, CallsOK, LockPrivate, UnlockCheck, Runs
<1>2. \A u \in Task : (pc'[u] = "run" <=> pc[u] = "run") /\ pc'[u] # "unlock"
  BY <1>1
<1>3. /\ k' \in KernelState /\ KernelOK(k')
      /\ pend' \in [Task -> Nat] /\ inIrq' \in [Task -> BOOLEAN]
      /\ \A u \in Task : /\ k'.state[u] = TASK_STATE_BLOCK <=> k.state[u] = TASK_STATE_BLOCK
                         /\ k'.state[u] = TASK_STATE_NONE <=> k.state[u] = TASK_STATE_NONE
      /\ k'.task_switch_lock = 0
      /\ k'.sem = k.sem /\ k'.queue = k.queue
      /\ k'.state[k'.current] = TASK_STATE_RUNNING
  <2>1. CASE k.postponed
    <3> DEFINE kk == [k EXCEPT !.postponed = FALSE]
    <3>1. /\ kk \in KernelState
          /\ kk.current = k.current /\ kk.state = k.state /\ kk.next = k.next
          /\ kk.first_task = k.first_task /\ kk.last_task = k.last_task
          /\ kk.task_switch_lock = 0
          /\ kk.sem = k.sem /\ kk.queue = k.queue
      BY <1>1 DEF KernelState
    <3>2. YieldCall(kk, FALSE)
      BY <1>1, <2>1 DEF UnlockCheck
    <3> HIDE DEF kk
    <3>3. KernelOK(kk)
      BY <1>1, <3>1, KernelFrame
    <3>4. TypeOK
      BY DEF Whole
    <3>5. YieldCall(kk, TRUE) \/ YieldCall(kk, FALSE)
      BY <3>2
    <3>6. /\ k' \in KernelState /\ KernelOK(k')
          /\ pend' \in [Task -> Nat] /\ inIrq' \in [Task -> BOOLEAN]
          /\ \A u \in Task : /\ k'.state[u] = TASK_STATE_BLOCK <=> kk.state[u] = TASK_STATE_BLOCK
                             /\ k'.state[u] = TASK_STATE_NONE <=> kk.state[u] = TASK_STATE_NONE
          /\ k'.task_switch_lock = kk.task_switch_lock
          /\ k'.sem = kk.sem /\ k'.queue = kk.queue
          /\ kk.task_switch_lock = 0 => k'.state[k'.current] = TASK_STATE_RUNNING
      BY <3>1, <3>3, <3>4, <3>5, YieldStep
    <3> QED
      BY <3>1, <3>6
  <2>2. CASE ~k.postponed
    <3>1. UNCHANGED <<k, pend, inIrq>>
      BY <1>1, <2>2 DEF UnlockCheck
    <3>2. k.state[k.current] = TASK_STATE_RUNNING
      BY <2>2 DEF Whole, CallsOK
    <3> QED
      BY <3>1, <3>2, <1>1 DEF Whole, TypeOK
  <2> QED
    BY <2>1, <2>2
<1>4. TypeOK'
  BY <1>1, <1>3 DEF Whole, TypeOK, Pc
<1>5. CurrentOK'
  <2>1. k'.current \in Task
    BY <1>3 DEF KernelState
  <2> QED
    BY <1>2, <1>3, <2>1 DEF CurrentOK, LockPrivate
<1>6. WaitersOK'
  BY <1>1, <1>3, <1>4, SameWaiters
<1> QED
  BY <1>1, <1>2, <1>3, <1>4, <1>5, <1>6, Quiet

\* Interrupts.  Between the two, the task switch lock may be held: then the
\* current task stays where it is.
LEMMA IdleStep ==
  ASSUME Whole, idle_task_main
  PROVE  Whole'
<1>1. /\ k' = [k EXCEPT !.ticks = 1]
      /\ UNCHANGED <<pc, op, obj, pend, inIrq, holds, torn>>
  BY DEF idle_task_main
<1>2. /\ k' \in KernelState
      /\ k'.current = k.current /\ k'.state = k.state /\ k'.next = k.next
      /\ k'.first_task = k.first_task /\ k'.last_task = k.last_task
      /\ k'.task_switch_lock = k.task_switch_lock
      /\ k'.postponed = k.postponed
      /\ k'.sem = k.sem /\ k'.queue = k.queue
  BY <1>1 DEF Whole, TypeOK, KernelState
<1>3. KernelOK(k')
  BY <1>2, KernelFrame DEF Whole
<1>4. TypeOK'
  BY <1>1, <1>2 DEF Whole, TypeOK
<1>5. CurrentOK'
  BY <1>1, <1>2 DEF Whole, CallsOK, CurrentOK, LockPrivate
<1>6. WaitersOK'
  BY <1>1, <1>2, <1>4, SameWaiters
<1> QED
  BY <1>1, <1>2, <1>3, <1>4, <1>5, <1>6, Quiet

\* The timer interrupt keeps the invariant, wherever it arrives.
LEMMA Irq0Step ==
  ASSUME Whole, scheduler_irq0
  PROVE  Whole'
<1> DEFINE kk == [k EXCEPT !.ticks = IF @ = 0 THEN 0 ELSE @ - 1]
<1>1. /\ UNCHANGED <<pc, op, obj, holds, torn>>
      /\ \/ YieldCall(kk, TRUE)
         \/ k' = kk /\ UNCHANGED <<pend, inIrq>>
  BY DEF scheduler_irq0
<1>2. /\ kk \in KernelState
      /\ kk.current = k.current /\ kk.state = k.state /\ kk.next = k.next
      /\ kk.first_task = k.first_task /\ kk.last_task = k.last_task
      /\ kk.task_switch_lock = k.task_switch_lock
      /\ kk.postponed = k.postponed
      /\ kk.sem = k.sem /\ kk.queue = k.queue
  BY DEF Whole, TypeOK, KernelState
<1> HIDE DEF kk
<1>3. KernelOK(kk)
  BY <1>2, KernelFrame DEF Whole
<1>4. CASE k' = kk /\ UNCHANGED <<pend, inIrq>>
  <2>1. TypeOK'
    BY <1>1, <1>2, <1>4 DEF Whole, TypeOK
  <2>2. CurrentOK'
    BY <1>1, <1>2, <1>4 DEF Whole, CallsOK, CurrentOK, LockPrivate
  <2>3. WaitersOK'
    BY <1>1, <1>2, <1>4, <2>1, SameWaiters
  <2> QED
    BY <1>1, <1>2, <1>3, <1>4, <2>1, <2>2, <2>3, Quiet
<1>5. CASE YieldCall(kk, TRUE)
  <2>1. TypeOK
    BY DEF Whole
  <2>2. /\ k' \in KernelState /\ KernelOK(k')
        /\ pend' \in [Task -> Nat] /\ inIrq' \in [Task -> BOOLEAN]
        /\ \A u \in Task : /\ k'.state[u] = TASK_STATE_BLOCK <=> kk.state[u] = TASK_STATE_BLOCK
                           /\ k'.state[u] = TASK_STATE_NONE <=> kk.state[u] = TASK_STATE_NONE
        /\ k'.task_switch_lock = kk.task_switch_lock
        /\ k'.sem = kk.sem /\ k'.queue = kk.queue
        /\ kk.task_switch_lock = 0 => k'.state[k'.current] = TASK_STATE_RUNNING
        /\ kk.task_switch_lock > 0 => /\ k'.current = kk.current
                                      /\ k'.state = kk.state
                                      /\ k'.postponed
                                      /\ pend' = pend
    BY <1>2, <1>3, <1>5, <2>1, YieldStep
  <2>3. TypeOK'
    BY <1>1, <2>2 DEF Whole, TypeOK
  <2>4. CurrentOK'
    <3>1. CASE k.task_switch_lock = 0
      <4>1. \A t \in Task : pc[t] # "unlock"
        BY <3>1 DEF Whole, TypeOK, KernelState, CallsOK, LockPrivate
      <4>2. k'.current \in Task
        BY <2>2 DEF KernelState
      <4> QED
        BY <1>1, <1>2, <2>2, <3>1, <4>1, <4>2 DEF CurrentOK, LockPrivate
    <3>2. CASE k.task_switch_lock > 0
      BY <1>1, <1>2, <2>2, <3>2 DEF Whole, CallsOK, CurrentOK, LockPrivate
    <3>3. k.task_switch_lock \in Nat
      BY DEF Whole, TypeOK, KernelState
    <3> QED
      BY <3>1, <3>2, <3>3
  <2>5. WaitersOK'
    BY <1>1, <1>2, <2>2, <2>3, SameWaiters
  <2> QED
    BY <1>1, <1>2, <2>2, <2>3, <2>4, <2>5, Quiet
<1> QED
  BY <1>1, <1>4, <1>5

\* The keyboard interrupt keeps the invariant: it wakes a waiter inside or outside
\* a call, and may do the switch that the interrupted call postponed.
LEMMA Irq1Step ==
  ASSUME Whole, NEW q \in KbdQueue, irq1(q)
  PROVE  Whole'
<1> DEFINE kk == SignalBody(k, q)
           ww == k.queue[q].first_task
           After(t, o, x) == k'.state[t] = TASK_STATE_BLOCK /\ op'[t] = o /\ obj'[t] = x
<1>0. q \in Queue
  BY SchedAssumption
<1>1. /\ UNCHANGED <<pc, op, obj, holds, torn>>
      /\ \/ k.task_switch_lock = 0 /\ YieldCall([kk EXCEPT !.postponed = FALSE], TRUE)
         \/ k' = kk /\ UNCHANGED <<pend, inIrq>>
  BY DEF irq1
<1>2. /\ k \in KernelState /\ KernelOK(k)
      /\ ww \in TaskOrNull
      /\ ww # NULL => /\ BlockedIn(ww, "wait", q)
                      /\ k.queue[q].amount_waiting > 0
  BY <1>0 DEF Whole, TypeOK, WaitersOK, KernelState, ResourceQueue
<1>3. /\ kk \in KernelState /\ KernelOK(kk)
      /\ kk.current = k.current
      /\ kk.task_switch_lock = k.task_switch_lock
      /\ kk.postponed = k.postponed
      /\ kk.sem = k.sem
      /\ ww = NULL => kk = k
      /\ ww # NULL => /\ kk.state = [k.state EXCEPT ![ww] = TASK_STATE_READY]
                      /\ kk.queue = [k.queue EXCEPT ![q].first_task = NULL,
                                                    ![q].last_task = NULL,
                                                    ![q].amount_waiting = @ - 1]
  BY <1>0, <1>2, Signal DEF BlockedIn
<1> HIDE DEF kk
<1>4. \A t \in Task :
        /\ kk.state[t] = TASK_STATE_BLOCK => k.state[t] = TASK_STATE_BLOCK
        /\ t # ww => kk.state[t] = k.state[t]
        /\ op[t] = "acquire" =>
             (kk.state[t] = TASK_STATE_BLOCK <=> k.state[t] = TASK_STATE_BLOCK)
        /\ kk.state[t] = TASK_STATE_NONE => k.state[t] = TASK_STATE_NONE
        /\ kk.state[t] # TASK_STATE_RUNNING => k.state[t] # TASK_STATE_RUNNING
  BY <1>2, <1>3 DEF KernelState, BlockedIn, TASK_STATE_READY, TASK_STATE_BLOCK, TASK_STATE_NONE,
       TASK_STATE_RUNNING
<1>5. \* Nobody but the first waiter of q is taken off a list.
      ASSUME TypeOK', k'.sem = kk.sem, k'.queue = kk.queue,
             \A t \in Task : k'.state[t] = TASK_STATE_BLOCK <=> kk.state[t] = TASK_STATE_BLOCK
      PROVE  WaitersOK'
  <2>1. ASSUME NEW t \in Task, NEW o, NEW x, BlockedIn(t, o, x), t # ww
        PROVE  After(t, o, x)
    BY <1>1, <1>4, <1>5, <2>1 DEF BlockedIn
  <2>2. \A s \in Sem : /\ k.sem[s].first_waiting_task \in Task \cup {NULL}
                       /\ k.sem[s].last_waiting_task \in Task \cup {NULL}
    BY <1>2 DEF KernelState, Semaphore, TaskOrNull
  <2>3. \A p \in Queue : /\ k.queue[p].first_task \in Task \cup {NULL}
                         /\ k.queue[p].last_task \in Task \cup {NULL}
    BY <1>2 DEF KernelState, ResourceQueue, TaskOrNull
  <2>4. ASSUME NEW s \in Sem, NEW t \in Task, BlockedIn(t, "acquire", s)
        PROVE  t # ww
    BY <1>2, <2>4, TaskOpsAssumption DEF BlockedIn
  <2>5. ASSUME NEW p \in Queue, p # q, NEW t \in Task, BlockedIn(t, "wait", p)
        PROVE  t # ww
    BY <1>2, <2>5, TaskOpsAssumption DEF BlockedIn
  <2>6. ASSUME NEW s \in Sem
        PROVE  LET first == k'.sem[s].first_waiting_task
                   last  == k'.sem[s].last_waiting_task
               IN  /\ first = NULL <=> last = NULL
                   /\ first # NULL => After(first, "acquire", s)
                   /\ last # NULL => After(last, "acquire", s)
    BY <1>3, <1>5, <2>1, <2>2, <2>4 DEF Whole, WaitersOK
  <2>7. ASSUME NEW p \in Queue
        PROVE  LET first == k'.queue[p].first_task
                   last  == k'.queue[p].last_task
               IN  /\ first = NULL <=> last = NULL
                   /\ first # NULL => /\ After(first, "wait", p)
                                      /\ k'.queue[p].amount_waiting > 0
                   /\ last # NULL => After(last, "wait", p)
    <3>1. CASE p = q /\ ww # NULL
      BY <1>0, <1>2, <1>3, <1>5, <3>1 DEF KernelState, ResourceQueue
    <3>2. CASE p # q /\ ww # NULL
      <4>1. k'.queue[p] = k.queue[p]
        BY <1>2, <1>3, <1>5, <3>2 DEF KernelState
      <4> QED
        BY <4>1, <2>1, <2>3, <2>5, <3>2 DEF Whole, WaitersOK
    <3>3. CASE ww = NULL
      <4>1. k'.queue = k.queue
        BY <1>3, <1>5, <3>3
      <4> QED
        BY <4>1, <2>1, <2>3, <3>3, TaskOpsAssumption DEF Whole, WaitersOK
    <3> QED
      BY <3>1, <3>2, <3>3
  <2> QED
    BY <2>6, <2>7 DEF WaitersOK, BlockedIn
<1> HIDE DEF After
<1>6. CASE k' = kk /\ UNCHANGED <<pend, inIrq>>
  <2>1. TypeOK'
    BY <1>1, <1>3, <1>6 DEF Whole, TypeOK
  <2>2. k.current \in Task
    BY <1>2 DEF KernelState
  <2>3. CurrentOK'
    BY <1>1, <1>3, <1>4, <1>6, <2>2 DEF Whole, CallsOK, CurrentOK, LockPrivate
  <2>4. WaitersOK'
    BY <1>5, <1>6, <2>1
  <2> QED
    BY <1>1, <1>3, <1>4, <1>6, <2>1, <2>3, <2>4, Quiet
<1>7. CASE k.task_switch_lock = 0 /\ YieldCall([kk EXCEPT !.postponed = FALSE], TRUE)
  <2> DEFINE ee == [kk EXCEPT !.postponed = FALSE]
  <2>1. /\ ee \in KernelState
        /\ ee.current = kk.current /\ ee.state = kk.state /\ ee.next = kk.next
        /\ ee.first_task = kk.first_task /\ ee.last_task = kk.last_task
        /\ ee.task_switch_lock = kk.task_switch_lock
        /\ ee.sem = kk.sem /\ ee.queue = kk.queue
    BY <1>3 DEF KernelState
  <2>2. YieldCall(ee, TRUE)
    BY <1>7
  <2> HIDE DEF ee
  <2>3. KernelOK(ee)
    BY <1>3, <2>1, KernelFrame
  <2>4. TypeOK
    BY DEF Whole
  <2>5. /\ k' \in KernelState /\ KernelOK(k')
        /\ pend' \in [Task -> Nat] /\ inIrq' \in [Task -> BOOLEAN]
        /\ \A u \in Task : /\ k'.state[u] = TASK_STATE_BLOCK <=> ee.state[u] = TASK_STATE_BLOCK
                           /\ k'.state[u] = TASK_STATE_NONE <=> ee.state[u] = TASK_STATE_NONE
        /\ k'.task_switch_lock = ee.task_switch_lock
        /\ k'.sem = ee.sem /\ k'.queue = ee.queue
        /\ ee.task_switch_lock = 0 => k'.state[k'.current] = TASK_STATE_RUNNING
    BY <2>1, <2>2, <2>3, <2>4, YieldStep
  <2>6. TypeOK'
    BY <1>1, <2>5 DEF Whole, TypeOK
  <2>7. CurrentOK'
    <3>1. \A t \in Task : pc[t] # "unlock"
      BY <1>7 DEF Whole, TypeOK, KernelState, CallsOK, LockPrivate
    <3>2. k'.current \in Task
      BY <2>5 DEF KernelState
    <3> QED
      BY <1>1, <1>3, <1>7, <2>1, <2>5, <3>1, <3>2 DEF CurrentOK, LockPrivate
  <2>8. WaitersOK'
    BY <1>5, <2>1, <2>5, <2>6
  <2> QED
    BY <1>1, <1>3, <1>4, <2>1, <2>5, <2>6, <2>7, <2>8, Quiet
<1> QED
  BY <1>1, <1>6, <1>7

\* What a task that makes a call finds, and the kernel state it works on once
\* it holds the task switch lock.
LEMMA CallEntry ==
  ASSUME Whole, NEW t \in Task, NEW o, NEW x, Enter(t, o, x)
  PROVE  LET kk == lock_task_switches(k) IN
         /\ k.current = t /\ t # Idle
         /\ k.state[t] = TASK_STATE_RUNNING
         /\ pc[t] = "run"
         /\ kk \in KernelState /\ KernelOK(kk)
         /\ kk.current = t /\ kk.state = k.state
         /\ kk.task_switch_lock = 1
         /\ kk.postponed = k.postponed
         /\ kk.sem = k.sem /\ kk.queue = k.queue
         /\ \A u \in Task : pc[u] # "unlock"
         /\ pc' = [pc EXCEPT ![t] = "unlock"]
         /\ op' = [op EXCEPT ![t] = o]
         /\ obj' = [obj EXCEPT ![t] = x]
         /\ UNCHANGED <<pend, inIrq>>
<1> DEFINE kk == lock_task_switches(k)
<1>1. /\ k \in KernelState /\ KernelOK(k)
      /\ k.current = t /\ t # Idle /\ pc[t] = "run"
      /\ pc' = [pc EXCEPT ![t] = "unlock"]
      /\ op' = [op EXCEPT ![t] = o]
      /\ obj' = [obj EXCEPT ![t] = x]
      /\ UNCHANGED <<pend, inIrq>>
  BY DEF Whole, TypeOK, Enter, Runs
<1>2. /\ k.state[t] = TASK_STATE_RUNNING
      /\ k.task_switch_lock = 0
      /\ \A u \in Task : pc[u] # "unlock"
  BY <1>1 DEF Whole, CallsOK, LockPrivate
<1>3. kk \in KernelState /\ KernelOK(kk)
  BY <1>1, Locks
<1>4. /\ kk.current = t /\ kk.state = k.state
      /\ kk.task_switch_lock = 1
      /\ kk.postponed = k.postponed
      /\ kk.sem = k.sem /\ kk.queue = k.queue
  BY <1>1, <1>2 DEF lock_task_switches, KernelState
<1> HIDE DEF kk
<1> QED
  BY <1>1, <1>2, <1>3, <1>4 DEF kk

\* CallsOK after the body of a call.
LEMMA CallEnd ==
  ASSUME Whole, NEW t \in Task, NEW o, NEW x, Enter(t, o, x), TypeOK',
         k'.current = t, k'.task_switch_lock = 1,
         \/ k'.state[t] = TASK_STATE_RUNNING
         \/ /\ k'.state[t] = TASK_STATE_BLOCK
            /\ k'.postponed
            /\ o \in {"acquire", "wait"},
         \A u \in Task \ {t} :
           /\ holds'[u] = holds[u]
           /\ \/ k'.state[u] = k.state[u]
              \/ k'.state[u] = TASK_STATE_READY,
         o = "acquire" => x \in Sem \ holds'[t],
         o = "wait" => holds'[t] = {}
  PROVE  CallsOK'
<1> USE DEF TASK_STATE_BLOCK, TASK_STATE_RUNNING, TASK_STATE_READY, TASK_STATE_NONE
<1>1. /\ k.current = t /\ t # Idle /\ pend' = pend /\ pend[t] = 0
      /\ \A u \in Task : pc[u] # "unlock"
      /\ pc' = [pc EXCEPT ![t] = "unlock"]
      /\ op' = [op EXCEPT ![t] = o]
      /\ obj' = [obj EXCEPT ![t] = x]
  BY CallEntry DEF Enter, Runs
<1>2. /\ pc'[t] = "unlock" /\ op'[t] = o /\ obj'[t] = x
      /\ \A u \in Task \ {t} : pc'[u] = pc[u] /\ op'[u] = op[u] /\ obj'[u] = obj[u]
  BY <1>1 DEF Whole, TypeOK
<1>3. LockPrivate'
  BY <1>1, <1>2 DEF LockPrivate
<1>4. ASSUME NEW u \in Task
      PROVE  /\ k'.state[u] = TASK_STATE_BLOCK =>
                  pc'[u] # "run" /\ op'[u] \in {"acquire", "wait"}
             /\ k'.state[u] = TASK_STATE_NONE => pc'[u] = "run" /\ holds'[u] = {}
             /\ pc'[u] # "run" => u # Idle
             /\ pc'[u] # "run" /\ op'[u] = "acquire" => obj'[u] \in Sem \ holds'[u]
             /\ pc'[u] # "run" /\ op'[u] = "wait" => holds'[u] = {}
  <2>1. CASE u = t
    BY <1>1, <1>2, <2>1
  <2>2. CASE u # t
    BY <1>2, <2>2 DEF Whole, CallsOK
  <2> QED
    BY <2>1, <2>2
<1> QED
  BY <1>1, <1>2, <1>3, <1>4 DEF CallsOK

\* signal_queue() keeps the invariant: the first waiter, if there is one, is ready.
LEMMA SignalStep ==
  ASSUME Whole, NEW t \in Task, NEW q \in Queue, signal_queue(t, q)
  PROVE  Whole'
<1> DEFINE kk == lock_task_switches(k)
           w == k.queue[q].first_task
           After(u, o, x) == k'.state[u] = TASK_STATE_BLOCK /\ op'[u] = o /\ obj'[u] = x
<1>0. Enter(t, "signal", q) /\ k' = SignalBody(kk, q) /\ holds' = holds /\ torn' = torn
  BY DEF signal_queue
<1>1. /\ k.current = t /\ t # Idle
      /\ k.state[t] = TASK_STATE_RUNNING
      /\ pc[t] = "run"
      /\ kk \in KernelState /\ KernelOK(kk)
      /\ kk.current = t /\ kk.state = k.state
      /\ kk.task_switch_lock = 1
      /\ kk.sem = k.sem /\ kk.queue = k.queue
      /\ pc' = [pc EXCEPT ![t] = "unlock"]
      /\ op' = [op EXCEPT ![t] = "signal"]
      /\ obj' = [obj EXCEPT ![t] = q]
      /\ UNCHANGED <<pend, inIrq>>
  BY <1>0, CallEntry
<1>2. /\ w \in TaskOrNull
      /\ w # NULL => BlockedIn(w, "wait", q) /\ k.queue[q].amount_waiting > 0
      /\ k \in KernelState
  BY DEF Whole, TypeOK, WaitersOK, KernelState, ResourceQueue
<1> HIDE DEF kk
<1>3. /\ k' \in KernelState /\ KernelOK(k')
      /\ k'.current = t
      /\ k'.task_switch_lock = 1
      /\ k'.sem = k.sem
      /\ w = NULL => k'.state = k.state /\ k'.queue = k.queue
      /\ w # NULL => /\ k'.state = [k.state EXCEPT ![w] = TASK_STATE_READY]
                     /\ k'.queue = [k.queue EXCEPT ![q].first_task = NULL,
                                                   ![q].last_task = NULL,
                                                   ![q].amount_waiting = @ - 1]
  <2>1. kk.queue[q].first_task # NULL =>
          /\ kk.state[kk.queue[q].first_task] = TASK_STATE_BLOCK
          /\ kk.queue[q].amount_waiting > 0
    BY <1>1, <1>2 DEF BlockedIn
  <2>2. LET b == SignalBody(kk, q)
            v == kk.queue[q].first_task
        IN  /\ b \in KernelState
            /\ KernelOK(b)
            /\ b.current = kk.current
            /\ b.task_switch_lock = kk.task_switch_lock
            /\ b.sem = kk.sem
            /\ v = NULL => b = kk
            /\ v # NULL => /\ b.state = [kk.state EXCEPT ![v] = TASK_STATE_READY]
                           /\ b.queue = [kk.queue EXCEPT ![q].first_task = NULL,
                                                         ![q].last_task = NULL,
                                                         ![q].amount_waiting = @ - 1]
    BY <1>1, <2>1, Signal
  <2> QED
    BY <1>0, <1>1, <2>2
<1>4. TypeOK'
  BY <1>0, <1>1, <1>3 DEF Whole, TypeOK, Pc, Op
<1>5. /\ w # t /\ k'.state[t] = TASK_STATE_RUNNING
      /\ \A u \in Task : \/ k'.state[u] = k.state[u]
                         \/ /\ k'.state[u] = TASK_STATE_READY
                            /\ u = w /\ op[u] = "wait" /\ k.state[u] = TASK_STATE_BLOCK
  <2>1. CASE w = NULL
    BY <1>1, <1>3, <2>1, TaskOpsAssumption
  <2>2. CASE w # NULL
    <3>1. w # t /\ op[w] = "wait" /\ k.state[w] = TASK_STATE_BLOCK /\ w \in Task
      BY <1>1, <1>2, <2>2 DEF BlockedIn, TaskOrNull, TASK_STATE_RUNNING, TASK_STATE_BLOCK
    <3>2. k.state \in [Task -> TaskState]
      BY <1>2 DEF KernelState
    <3> QED
      BY <1>1, <1>3, <2>2, <3>1, <3>2
  <2> QED
    BY <2>1, <2>2
<1>6. CallsOK'
  BY <1>0, <1>3, <1>4, <1>5, CallEnd
<1>7. ASSUME NEW u \in Task, NEW o, NEW x, BlockedIn(u, o, x), u # w
      PROVE  After(u, o, x)
  <2>1. u # t /\ k'.state[u] = TASK_STATE_BLOCK
    BY <1>1, <1>5, <1>7 DEF BlockedIn, TASK_STATE_RUNNING, TASK_STATE_BLOCK
  <2>2. op'[u] = op[u] /\ obj'[u] = obj[u]
    BY <1>1, <2>1 DEF Whole, TypeOK
  <2> QED
    BY <1>7, <2>1, <2>2 DEF BlockedIn
<1>8. WaitersOK'
  <2>2. \A s \in Sem : /\ k.sem[s].first_waiting_task \in Task \cup {NULL}
                       /\ k.sem[s].last_waiting_task \in Task \cup {NULL}
    BY <1>2 DEF KernelState, Semaphore, TaskOrNull
  <2>3. \A p \in Queue : /\ k.queue[p].first_task \in Task \cup {NULL}
                         /\ k.queue[p].last_task \in Task \cup {NULL}
    BY <1>2 DEF KernelState, ResourceQueue, TaskOrNull
  <2>4. ASSUME NEW s \in Sem, NEW u \in Task, BlockedIn(u, "acquire", s)
        PROVE  u # w
    BY <1>2, <2>4, TaskOpsAssumption DEF BlockedIn
  <2>5. ASSUME NEW p \in Queue, p # q, NEW u \in Task, BlockedIn(u, "wait", p)
        PROVE  u # w
    BY <1>2, <2>5, TaskOpsAssumption DEF BlockedIn
  <2> HIDE DEF After
  <2>6. ASSUME NEW s \in Sem
        PROVE  LET first == k'.sem[s].first_waiting_task
                   last  == k'.sem[s].last_waiting_task
               IN  /\ first = NULL <=> last = NULL
                   /\ first # NULL => After(first, "acquire", s)
                   /\ last # NULL => After(last, "acquire", s)
    BY <1>3, <1>7, <2>2, <2>4 DEF Whole, WaitersOK
  <2>7. ASSUME NEW p \in Queue
        PROVE  LET first == k'.queue[p].first_task
                   last  == k'.queue[p].last_task
               IN  /\ first = NULL <=> last = NULL
                   /\ first # NULL => /\ After(first, "wait", p)
                                      /\ k'.queue[p].amount_waiting > 0
                   /\ last # NULL => After(last, "wait", p)
    <3>1. CASE p = q /\ w # NULL
      BY <1>2, <1>3, <3>1 DEF KernelState, ResourceQueue
    <3>2. CASE p # q /\ w # NULL
      <4>1. k'.queue[p] = k.queue[p]
        BY <1>2, <1>3, <3>2 DEF KernelState
      <4> QED
        BY <4>1, <1>7, <2>3, <2>5, <3>2 DEF Whole, WaitersOK
    <3>3. CASE w = NULL
      BY <1>3, <1>7, <2>3, <3>3, TaskOpsAssumption DEF Whole, WaitersOK
    <3> QED
      BY <3>1, <3>2, <3>3
  <2> QED
    BY <2>6, <2>7 DEF WaitersOK, BlockedIn, After
<1>9. CountOK'
  <2>1. ASSUME NEW s \in Sem
        PROVE  Owners(s)' = Owners(s)
    BY <1>0, <1>1, <1>5 DEF Owners, Acquiring, Whole, TypeOK
  <2> QED
    BY <2>1, <1>3 DEF Whole, CountOK, CountsOwners
<1> QED
  BY <1>3, <1>4, <1>6, <1>8, <1>9 DEF Whole

\* What WaitersOK says of the tasks that the lists of k point to.
LEMMA WaitersTyped ==
  ASSUME Whole
  PROVE  /\ \A s \in Sem : /\ k.sem[s].first_waiting_task \in Task \cup {NULL}
                           /\ k.sem[s].last_waiting_task \in Task \cup {NULL}
         /\ \A p \in Queue : /\ k.queue[p].first_task \in Task \cup {NULL}
                             /\ k.queue[p].last_task \in Task \cup {NULL}
<1>1. k \in KernelState
  BY DEF Whole, TypeOK
<1> QED
  BY <1>1 DEF KernelState, Semaphore, ResourceQueue, TaskOrNull

\* wait_queue() keeps the invariant: the current task becomes the last waiter.
LEMMA WaitStep ==
  ASSUME Whole, NEW t \in Task, NEW q \in Queue, wait_queue(t, q)
  PROVE  Whole'
<1> DEFINE kk == lock_task_switches(k)
           w == k.queue[q].first_task
           After(u, o, x) == k'.state[u] = TASK_STATE_BLOCK /\ op'[u] = o /\ obj'[u] = x
<1>0. /\ Enter(t, "wait", q) /\ k' = WaitBody(kk, q) /\ holds' = holds /\ torn' = torn
      /\ holds[t] = {}
  BY DEF wait_queue
<1>1. /\ k.current = t /\ t # Idle
      /\ k.state[t] = TASK_STATE_RUNNING
      /\ pc[t] = "run"
      /\ kk \in KernelState /\ KernelOK(kk)
      /\ kk.current = t /\ kk.state = k.state
      /\ kk.task_switch_lock = 1
      /\ kk.sem = k.sem /\ kk.queue = k.queue
      /\ pc' = [pc EXCEPT ![t] = "unlock"]
      /\ op' = [op EXCEPT ![t] = "wait"]
      /\ obj' = [obj EXCEPT ![t] = q]
      /\ UNCHANGED <<pend, inIrq>>
  BY <1>0, CallEntry
<1>2. /\ w = NULL <=> k.queue[q].last_task = NULL
      /\ k.queue[q].last_task # NULL => BlockedIn(k.queue[q].last_task, "wait", q)
      /\ k \in KernelState
  BY DEF Whole, TypeOK, WaitersOK
<1> HIDE DEF kk
<1>3. /\ k' \in KernelState /\ KernelOK(k')
      /\ k'.current = t
      /\ k'.task_switch_lock = 1
      /\ k'.sem = k.sem
      /\ k'.state = [k.state EXCEPT ![t] = TASK_STATE_BLOCK]
      /\ k'.postponed
      /\ k'.queue = [k.queue EXCEPT ![q].first_task = IF w = NULL THEN t ELSE w,
                                    ![q].last_task = t,
                                    ![q].amount_waiting = @ + 1]
  <2>1. /\ kk.queue[q].first_task = NULL <=> kk.queue[q].last_task = NULL
        /\ kk.queue[q].last_task # NULL =>
             kk.state[kk.queue[q].last_task] = TASK_STATE_BLOCK
        /\ kk.task_switch_lock > 0
        /\ kk.current # Idle
        /\ kk.state[kk.current] = TASK_STATE_RUNNING
    BY <1>1, <1>2 DEF BlockedIn
  <2>2. LET b == WaitBody(kk, q)
            v == kk.queue[q].first_task
        IN  /\ b \in KernelState
            /\ KernelOK(b)
            /\ b.current = kk.current
            /\ b.task_switch_lock = kk.task_switch_lock
            /\ b.sem = kk.sem
            /\ b.state = [kk.state EXCEPT ![kk.current] = TASK_STATE_BLOCK]
            /\ b.postponed
            /\ b.queue = [kk.queue EXCEPT
                            ![q].first_task = IF v = NULL THEN kk.current ELSE v,
                            ![q].last_task = kk.current,
                            ![q].amount_waiting = @ + 1]
    BY <1>1, <2>1, Wait
  <2> QED
    BY <1>0, <1>1, <2>2
<1>4. TypeOK'
  BY <1>0, <1>1, <1>3 DEF Whole, TypeOK, Pc, Op
<1>5. /\ k'.state[t] = TASK_STATE_BLOCK
      /\ \A u \in Task \ {t} : k'.state[u] = k.state[u]
  BY <1>2, <1>3 DEF KernelState
<1>6. CallsOK'
  BY <1>0, <1>3, <1>4, <1>5, CallEnd
<1>7. ASSUME NEW u \in Task, NEW o, NEW x, BlockedIn(u, o, x)
      PROVE  After(u, o, x)
  <2>1. u # t
    BY <1>1, <1>7 DEF BlockedIn, TASK_STATE_RUNNING, TASK_STATE_BLOCK
  <2>2. op'[u] = op[u] /\ obj'[u] = obj[u]
    BY <1>1, <2>1 DEF Whole, TypeOK
  <2> QED
    BY <1>5, <1>7, <2>1, <2>2 DEF BlockedIn
<1>8. WaitersOK'
  <2>1. After(t, "wait", q)
    BY <1>1, <1>5 DEF Whole, TypeOK
  <2> HIDE DEF After
  <2>2. ASSUME NEW s \in Sem
        PROVE  LET first == k'.sem[s].first_waiting_task
                   last  == k'.sem[s].last_waiting_task
               IN  /\ first = NULL <=> last = NULL
                   /\ first # NULL => After(first, "acquire", s)
                   /\ last # NULL => After(last, "acquire", s)
    BY <1>3, <1>7, WaitersTyped DEF Whole, WaitersOK
  <2>3. ASSUME NEW p \in Queue
        PROVE  LET first == k'.queue[p].first_task
                   last  == k'.queue[p].last_task
               IN  /\ first = NULL <=> last = NULL
                   /\ first # NULL => /\ After(first, "wait", p)
                                      /\ k'.queue[p].amount_waiting > 0
                   /\ last # NULL => After(last, "wait", p)
    <3>1. CASE p = q
      <4>1. /\ k.queue[q].amount_waiting \in Nat
            /\ k'.queue[q].first_task = IF w = NULL THEN t ELSE w
            /\ k'.queue[q].last_task = t
            /\ k'.queue[q].amount_waiting = k.queue[q].amount_waiting + 1
        BY <1>2, <1>3 DEF KernelState, ResourceQueue
      <4>2. w # NULL => After(w, "wait", q)
        BY <1>7, WaitersTyped DEF Whole, WaitersOK
      <4>3. t # NULL
        BY TaskOpsAssumption
      <4> QED
        BY <2>1, <3>1, <4>1, <4>2, <4>3
    <3>2. CASE p # q
      <4>1. k'.queue[p] = k.queue[p]
        BY <1>2, <1>3, <3>2 DEF KernelState
      <4> QED
        BY <4>1, <1>7, WaitersTyped DEF Whole, WaitersOK
    <3> QED
      BY <3>1, <3>2
  <2> QED
    BY <2>2, <2>3 DEF WaitersOK, BlockedIn, After
<1>9. CountOK'
  <2>1. ASSUME NEW s \in Sem
        PROVE  Owners(s)' = Owners(s)
    BY <1>0, <1>1, <1>5 DEF Owners, Acquiring, Whole, TypeOK
  <2> QED
    BY <2>1, <1>3 DEF Whole, CountOK, CountsOwners
<1> QED
  BY <1>3, <1>4, <1>6, <1>8, <1>9 DEF Whole

\* The owners of a semaphore are finitely many.
LEMMA OwnersFinite ==
  ASSUME NEW s \in Sem
  PROVE  IsFiniteSet(Owners(s))
<1>1. Owners(s) \subseteq Task
  BY DEF Owners
<1> QED
  BY <1>1, TaskOpsAssumption, FS_Subset

\* acquire_semaphore() keeps the invariant: either the count goes up with the
\* owners, or the current task becomes the last waiter.
LEMMA AcquireStep ==
  ASSUME Whole, NEW t \in Task, NEW s \in Sem, acquire_semaphore(t, s)
  PROVE  Whole'
<1> DEFINE kk == lock_task_switches(k)
           w == k.sem[s].first_waiting_task
           free == k.sem[s].current_count < k.sem[s].max_count
           After(u, o, x) == k'.state[u] = TASK_STATE_BLOCK /\ op'[u] = o /\ obj'[u] = x
<1>0. /\ Enter(t, "acquire", s) /\ k' = AcquireBody(kk, s) /\ holds' = holds /\ torn' = torn
      /\ s \notin holds[t]
  BY DEF acquire_semaphore
<1>1. /\ k.current = t /\ t # Idle
      /\ k.state[t] = TASK_STATE_RUNNING
      /\ pc[t] = "run"
      /\ kk \in KernelState /\ KernelOK(kk)
      /\ kk.current = t /\ kk.state = k.state
      /\ kk.task_switch_lock = 1
      /\ kk.sem = k.sem /\ kk.queue = k.queue
      /\ pc' = [pc EXCEPT ![t] = "unlock"]
      /\ op' = [op EXCEPT ![t] = "acquire"]
      /\ obj' = [obj EXCEPT ![t] = s]
      /\ UNCHANGED <<pend, inIrq>>
  BY <1>0, CallEntry
<1>2. /\ w = NULL <=> k.sem[s].last_waiting_task = NULL
      /\ k.sem[s].last_waiting_task # NULL =>
           BlockedIn(k.sem[s].last_waiting_task, "acquire", s)
      /\ k \in KernelState
  BY DEF Whole, TypeOK, WaitersOK
<1> HIDE DEF kk
<1>3. /\ k' \in KernelState /\ KernelOK(k')
      /\ k'.current = t
      /\ k'.task_switch_lock = 1
      /\ k'.queue = k.queue
      /\ free => /\ k'.state = k.state
                 /\ k'.sem = [k.sem EXCEPT ![s].current_count = @ + 1]
      /\ ~free => /\ k'.state = [k.state EXCEPT ![t] = TASK_STATE_BLOCK]
                  /\ k'.postponed
                  /\ k'.sem = [k.sem EXCEPT
                                 ![s].first_waiting_task = IF w = NULL THEN t ELSE w,
                                 ![s].last_waiting_task = t]
  <2>1. /\ kk.sem[s].first_waiting_task = NULL <=> kk.sem[s].last_waiting_task = NULL
        /\ kk.sem[s].last_waiting_task # NULL =>
             kk.state[kk.sem[s].last_waiting_task] = TASK_STATE_BLOCK
        /\ kk.task_switch_lock > 0
        /\ kk.current # Idle
        /\ kk.state[kk.current] = TASK_STATE_RUNNING
    BY <1>1, <1>2 DEF BlockedIn
  <2>2. LET b == AcquireBody(kk, s)
            f == kk.sem[s].current_count < kk.sem[s].max_count
            v == kk.sem[s].first_waiting_task
        IN  /\ b \in KernelState
            /\ KernelOK(b)
            /\ b.current = kk.current
            /\ b.task_switch_lock = kk.task_switch_lock
            /\ b.queue = kk.queue
            /\ f => /\ b.state = kk.state
                    /\ b.sem = [kk.sem EXCEPT ![s].current_count = @ + 1]
            /\ ~f => /\ b.state = [kk.state EXCEPT ![kk.current] = TASK_STATE_BLOCK]
                     /\ b.postponed
                     /\ b.sem = [kk.sem EXCEPT
                          ![s].first_waiting_task = IF v = NULL THEN kk.current ELSE v,
                          ![s].last_waiting_task = kk.current]
    BY <1>1, <2>1, Acquire
  <2> QED
    BY <1>0, <1>1, <2>2
<1>4. TypeOK'
  BY <1>0, <1>1, <1>3 DEF Whole, TypeOK, Pc, Op
<1>5. /\ free => k'.state[t] = TASK_STATE_RUNNING
      /\ ~free => k'.state[t] = TASK_STATE_BLOCK /\ k'.postponed
      /\ \A u \in Task \ {t} : k'.state[u] = k.state[u]
  BY <1>1, <1>2, <1>3 DEF KernelState
<1>6. /\ pc'[t] = "unlock" /\ op'[t] = "acquire" /\ obj'[t] = s
      /\ \A u \in Task \ {t} : pc'[u] = pc[u] /\ op'[u] = op[u] /\ obj'[u] = obj[u]
  BY <1>1 DEF Whole, TypeOK
<1>7. CallsOK'
  BY <1>0, <1>3, <1>4, <1>5, CallEnd
<1>8. ASSUME NEW u \in Task, NEW o, NEW x, BlockedIn(u, o, x)
      PROVE  After(u, o, x)
  BY <1>1, <1>5, <1>6, <1>8 DEF BlockedIn, TASK_STATE_RUNNING, TASK_STATE_BLOCK
<1>9. \A r \in Sem : k.sem[r] \in Semaphore /\ k.sem[r].current_count \in Int
                     /\ k.sem[r].max_count \in Int
  BY <1>2 DEF KernelState, Semaphore
<1>10. /\ k.sem \in [Sem -> Semaphore]
       /\ \A r \in Sem \ {s} : k'.sem[r] = k.sem[r]
       /\ k'.sem[s].max_count = k.sem[s].max_count
       /\ free => k'.sem[s] = [k.sem[s] EXCEPT !.current_count = @ + 1]
       /\ ~free => /\ k'.sem[s].current_count = k.sem[s].current_count
                   /\ k'.sem[s].first_waiting_task = IF w = NULL THEN t ELSE w
                   /\ k'.sem[s].last_waiting_task = t
  BY <1>2, <1>3, <1>9 DEF KernelState, Semaphore
<1>11. WaitersOK'
  <2>1. ~free => After(t, "acquire", s)
    BY <1>5, <1>6
  <2> HIDE DEF After
  <2>2. ASSUME NEW r \in Sem
        PROVE  LET first == k'.sem[r].first_waiting_task
                   last  == k'.sem[r].last_waiting_task
               IN  /\ first = NULL <=> last = NULL
                   /\ first # NULL => After(first, "acquire", r)
                   /\ last # NULL => After(last, "acquire", r)
    <3>1. CASE r = s /\ ~free
      <4>1. w # NULL => After(w, "acquire", s)
        BY <1>8, WaitersTyped DEF Whole, WaitersOK
      <4>2. t # NULL
        BY TaskOpsAssumption
      <4> QED
        BY <1>10, <2>1, <3>1, <4>1, <4>2
    <3>2. CASE r # s \/ free
      <4>1. /\ k'.sem[r].first_waiting_task = k.sem[r].first_waiting_task
            /\ k'.sem[r].last_waiting_task = k.sem[r].last_waiting_task
        BY <1>9, <1>10, <3>2 DEF Semaphore
      <4> QED
        BY <4>1, <1>8, WaitersTyped DEF Whole, WaitersOK
    <3> QED
      BY <3>1, <3>2
  <2>3. ASSUME NEW p \in Queue
        PROVE  LET first == k'.queue[p].first_task
                   last  == k'.queue[p].last_task
               IN  /\ first = NULL <=> last = NULL
                   /\ first # NULL => /\ After(first, "wait", p)
                                      /\ k'.queue[p].amount_waiting > 0
                   /\ last # NULL => After(last, "wait", p)
    BY <1>3, <1>8, WaitersTyped DEF Whole, WaitersOK
  <2> QED
    BY <2>2, <2>3 DEF WaitersOK, BlockedIn, After
<1>12. CountOK'
  <2>1. ASSUME NEW r \in Sem, r # s
        PROVE  Owners(r)' = Owners(r)
    BY <1>0, <1>1, <1>5, <1>6, <2>1 DEF Owners, Acquiring
  <2>2. t \notin Owners(s)
    BY <1>0, <1>1 DEF Owners, Acquiring
  <2>3. CASE free
    <3>1. Owners(s)' = Owners(s) \cup {t}
      BY <1>0, <1>5, <1>6, <2>3 DEF Owners, Acquiring, TASK_STATE_RUNNING, TASK_STATE_BLOCK
    <3>2. Cardinality(Owners(s)') = Cardinality(Owners(s)) + 1
      BY <2>2, <3>1, OwnersFinite, FS_AddElement
    <3>3. k'.sem[s].current_count = k.sem[s].current_count + 1
      BY <1>9, <1>10, <2>3 DEF Semaphore
    <3> QED
      BY <1>9, <1>10, <2>1, <2>3, <3>2, <3>3 DEF Whole, CountOK, CountsOwners
  <2>4. CASE ~free
    <3>1. Owners(s)' = Owners(s)
      BY <1>0, <1>1, <1>5, <1>6, <2>4 DEF Owners, Acquiring
    <3> QED
      BY <1>9, <1>10, <2>1, <2>4, <3>1 DEF Whole, CountOK, CountsOwners
  <2> QED
    BY <2>3, <2>4
<1> QED
  BY <1>3, <1>4, <1>7, <1>11, <1>12 DEF Whole

\* release_semaphore() keeps the invariant: the unit goes back to the
\* semaphore, or from the current task to the first waiter.
LEMMA ReleaseStep ==
  ASSUME Whole, NEW t \in Task, NEW s \in Sem, release_semaphore(t, s)
  PROVE  Whole'
<1> DEFINE kk == lock_task_switches(k)
           w == k.sem[s].first_waiting_task
           After(u, o, x) == k'.state[u] = TASK_STATE_BLOCK /\ op'[u] = o /\ obj'[u] = x
<1>0. /\ Enter(t, "release", s) /\ k' = ReleaseBody(kk, s) /\ torn' = torn
      /\ holds' = [holds EXCEPT ![t] = @ \ {s}]
      /\ s \in holds[t]
  BY DEF release_semaphore
<1>1. /\ k.current = t /\ t # Idle
      /\ k.state[t] = TASK_STATE_RUNNING
      /\ pc[t] = "run"
      /\ kk \in KernelState /\ KernelOK(kk)
      /\ kk.current = t /\ kk.state = k.state
      /\ kk.task_switch_lock = 1
      /\ kk.sem = k.sem /\ kk.queue = k.queue
      /\ pc' = [pc EXCEPT ![t] = "unlock"]
      /\ op' = [op EXCEPT ![t] = "release"]
      /\ obj' = [obj EXCEPT ![t] = s]
      /\ UNCHANGED <<pend, inIrq>>
  BY <1>0, CallEntry
<1>2. /\ w \in Task \cup {NULL}
      /\ w # NULL => BlockedIn(w, "acquire", s)
      /\ k \in KernelState
  BY WaitersTyped DEF Whole, TypeOK, WaitersOK
<1> HIDE DEF kk
<1>3. /\ k' \in KernelState /\ KernelOK(k')
      /\ k'.current = t
      /\ k'.task_switch_lock = 1
      /\ k'.queue = k.queue
      /\ w = NULL => /\ k'.state = k.state
                     /\ k'.sem = [k.sem EXCEPT ![s].current_count = @ - 1]
      /\ w # NULL => /\ k'.state = [k.state EXCEPT ![w] = TASK_STATE_READY]
                     /\ k'.sem = [k.sem EXCEPT ![s].first_waiting_task = NULL,
                                               ![s].last_waiting_task = NULL]
  <2>1. kk.sem[s].first_waiting_task # NULL =>
          kk.state[kk.sem[s].first_waiting_task] = TASK_STATE_BLOCK
    BY <1>1, <1>2 DEF BlockedIn
  <2>2. LET b == ReleaseBody(kk, s)
            v == kk.sem[s].first_waiting_task
        IN  /\ b \in KernelState
            /\ KernelOK(b)
            /\ b.current = kk.current
            /\ b.task_switch_lock = kk.task_switch_lock
            /\ b.queue = kk.queue
            /\ v = NULL => /\ b.state = kk.state
                           /\ b.sem = [kk.sem EXCEPT ![s].current_count = @ - 1]
            /\ v # NULL => /\ b.state = [kk.state EXCEPT ![v] = TASK_STATE_READY]
                           /\ b.sem = [kk.sem EXCEPT ![s].first_waiting_task = NULL,
                                                     ![s].last_waiting_task = NULL]
    BY <1>1, <2>1, Release
  <2> QED
    BY <1>0, <1>1, <2>2
<1>4. TypeOK'
  <2>1. holds' \in [Task -> SUBSET Sem]
    BY <1>0 DEF Whole, TypeOK
  <2> QED
    BY <1>0, <1>1, <1>3, <2>1 DEF Whole, TypeOK, Pc, Op
<1>5. /\ w # t /\ k'.state[t] = TASK_STATE_RUNNING
      /\ w # NULL => k'.state[w] = TASK_STATE_READY
      /\ \A u \in Task \ {w} : k'.state[u] = k.state[u]
  <2>1. CASE w = NULL
    BY <1>1, <1>3, <2>1, TaskOpsAssumption
  <2>2. CASE w # NULL
    BY <1>1, <1>2, <1>3, <2>2 DEF KernelState, BlockedIn, TASK_STATE_RUNNING,
         TASK_STATE_BLOCK
  <2> QED
    BY <2>1, <2>2
<1>6. /\ pc'[t] = "unlock" /\ op'[t] = "release" /\ obj'[t] = s
      /\ holds'[t] = holds[t] \ {s}
      /\ \A u \in Task \ {t} : /\ pc'[u] = pc[u] /\ op'[u] = op[u]
                               /\ obj'[u] = obj[u] /\ holds'[u] = holds[u]
  BY <1>0, <1>1 DEF Whole, TypeOK
<1>7. CallsOK'
  BY <1>0, <1>3, <1>4, <1>5, <1>6, CallEnd
<1>8. ASSUME NEW u \in Task, NEW o, NEW x, BlockedIn(u, o, x), u # w
      PROVE  After(u, o, x)
  BY <1>1, <1>5, <1>6, <1>8 DEF BlockedIn, TASK_STATE_RUNNING, TASK_STATE_BLOCK
<1>9. \A r \in Sem : k.sem[r] \in Semaphore /\ k.sem[r].current_count \in Int
                     /\ k.sem[r].max_count \in Int
  BY <1>2 DEF KernelState, Semaphore
<1>10. /\ \A r \in Sem \ {s} : k'.sem[r] = k.sem[r]
       /\ k'.sem[s].max_count = k.sem[s].max_count
       /\ w = NULL => k'.sem[s] = [k.sem[s] EXCEPT !.current_count = @ - 1]
       /\ w # NULL => /\ k'.sem[s].current_count = k.sem[s].current_count
                      /\ k'.sem[s].first_waiting_task = NULL
                      /\ k'.sem[s].last_waiting_task = NULL
  <2>1. k.sem \in [Sem -> Semaphore]
    BY <1>2 DEF KernelState
  <2>2. CASE w = NULL
    BY <1>3, <1>9, <2>1, <2>2 DEF Semaphore
  <2>3. CASE w # NULL
    BY <1>3, <1>9, <2>1, <2>3 DEF Semaphore
  <2> QED
    BY <2>2, <2>3
<1>11. WaitersOK'
  <2>1. ASSUME NEW p \in Queue, NEW u \in Task, BlockedIn(u, "wait", p)
        PROVE  u # w
    BY <1>2, <2>1, TaskOpsAssumption DEF BlockedIn
  <2>2. ASSUME NEW r \in Sem, r # s, NEW u \in Task, BlockedIn(u, "acquire", r)
        PROVE  u # w
    BY <1>2, <2>2, TaskOpsAssumption DEF BlockedIn
  <2> HIDE DEF After
  <2>3. ASSUME NEW r \in Sem
        PROVE  LET first == k'.sem[r].first_waiting_task
                   last  == k'.sem[r].last_waiting_task
               IN  /\ first = NULL <=> last = NULL
                   /\ first # NULL => After(first, "acquire", r)
                   /\ last # NULL => After(last, "acquire", r)
    <3>1. CASE r = s /\ w # NULL
      BY <1>10, <3>1
    <3>2. CASE r = s /\ w = NULL
      <4>1. /\ k'.sem[s].first_waiting_task = NULL
            /\ k'.sem[s].last_waiting_task = NULL
        BY <1>9, <1>10, <3>2 DEF Semaphore, Whole, WaitersOK
      <4> QED
        BY <3>2, <4>1
    <3>3. CASE r # s
      <4>1. k'.sem[r] = k.sem[r]
        BY <1>10, <3>3
      <4> QED
        BY <4>1, <1>8, <2>2, <3>3, WaitersTyped DEF Whole, WaitersOK
    <3> QED
      BY <3>1, <3>2, <3>3
  <2>4. ASSUME NEW p \in Queue
        PROVE  LET first == k'.queue[p].first_task
                   last  == k'.queue[p].last_task
               IN  /\ first = NULL <=> last = NULL
                   /\ first # NULL => /\ After(first, "wait", p)
                                      /\ k'.queue[p].amount_waiting > 0
                   /\ last # NULL => After(last, "wait", p)
    BY <1>3, <1>8, <2>1, WaitersTyped DEF Whole, WaitersOK
  <2> QED
    BY <2>3, <2>4 DEF WaitersOK, BlockedIn, After
<1>12. CountOK'
  <2>1. ASSUME NEW r \in Sem, r # s
        PROVE  Owners(r)' = Owners(r)
    <3>1. ASSUME NEW u \in Task
          PROVE  u \in Owners(r)' <=> u \in Owners(r)
      <4>1. CASE u = t
        BY <1>1, <1>6, <2>1, <4>1 DEF Owners, Acquiring
      <4>2. CASE u = w /\ u # t
        BY <1>2, <1>6, <2>1, <4>2, TaskOpsAssumption DEF Owners, Acquiring, BlockedIn
      <4>3. CASE u # w /\ u # t
        BY <1>5, <1>6, <4>3 DEF Owners, Acquiring
      <4> QED
        BY <4>1, <4>2, <4>3
    <3>2. Owners(r) \subseteq Task /\ Owners(r)' \subseteq Task
      BY DEF Owners
    <3> QED
      BY <3>1, <3>2
  <2>2. t \in Owners(s)
    BY <1>0 DEF Owners
  <2>3. /\ IsFiniteSet(Owners(s) \ {t})
        /\ Cardinality(Owners(s) \ {t}) = Cardinality(Owners(s)) - 1
    BY <2>2, OwnersFinite, FS_RemoveElement
  <2>4. CASE w = NULL
    <3>1. Owners(s)' = Owners(s) \ {t}
      <4>1. ASSUME NEW u \in Task
            PROVE  u \in Owners(s)' <=> u \in Owners(s) \ {t}
        BY <1>3, <1>6, <2>4 DEF Owners, Acquiring
      <4>2. Owners(s) \subseteq Task /\ Owners(s)' \subseteq Task
        BY DEF Owners
      <4> QED
        BY <4>1, <4>2
    <3>2. k'.sem[s].current_count = k.sem[s].current_count - 1
      BY <1>9, <1>10, <2>4 DEF Semaphore
    <3>3. Cardinality(Owners(s)') = Cardinality(Owners(s)) - 1
      BY <2>3, <3>1
    <3>4. CountsOwners'
      BY <1>10, <2>1, <3>2, <3>3 DEF Whole, CountOK, CountsOwners
    <3> QED
      BY <1>9, <1>10, <3>2, <3>4 DEF Whole, CountOK
  <2>5. CASE w # NULL
    <3>1. /\ w \in Task \ {t} /\ pc[w] # "run" /\ op[w] = "acquire" /\ obj[w] = s
          /\ s \notin holds[w] /\ k.state[w] = TASK_STATE_BLOCK
      BY <1>2, <1>5, <2>5 DEF BlockedIn, Whole, CallsOK
    <3>2. Owners(s)' = (Owners(s) \ {t}) \cup {w}
      <4>1. ASSUME NEW u \in Task
            PROVE  u \in Owners(s)' <=> u \in (Owners(s) \ {t}) \cup {w}
        BY <1>1, <1>5, <1>6, <2>5, <3>1 DEF Owners, Acquiring, TASK_STATE_READY,
             TASK_STATE_BLOCK
      <4>2. Owners(s) \subseteq Task /\ Owners(s)' \subseteq Task
        BY DEF Owners
      <4> QED
        BY <3>1, <4>1, <4>2
    <3>3. w \notin Owners(s) \ {t}
      BY <3>1 DEF Owners
    <3>4. Cardinality(Owners(s)') = Cardinality(Owners(s) \ {t}) + 1
      BY <2>3, <3>2, <3>3, FS_AddElement
    <3>5. Cardinality(Owners(s)') = Cardinality(Owners(s))
      <4>1. Cardinality(Owners(s)) \in Int
        BY OwnersFinite, FS_CardinalityType
      <4> QED
        BY <2>3, <3>4, <4>1
    <3> QED
      BY <1>9, <1>10, <2>1, <2>5, <3>5 DEF Whole, CountOK, CountsOwners
  <2> QED
    BY <2>4, <2>5
<1> QED
  BY <1>3, <1>4, <1>7, <1>11, <1>12 DEF Whole

\* The return of a call keeps the invariant: a task that returns from
\* acquire_semaphore() already was an owner.
LEMMA ReturnStep ==
  ASSUME Whole, NEW t \in Task, Return(t)
  PROVE  Whole'
<1>1. /\ k.current = t /\ pc[t] = "ret" /\ pend[t] = 0
      /\ k' = k /\ pend' = pend /\ inIrq' = inIrq /\ torn' = torn
      /\ pc' = [pc EXCEPT ![t] = "run"]
      /\ op' = [op EXCEPT ![t] = "none"]
      /\ obj' = [obj EXCEPT ![t] = NULL]
      /\ holds' = IF op[t] = "acquire" THEN [holds EXCEPT ![t] = @ \cup {obj[t]}]
                                       ELSE holds
  BY DEF Return, Runs
<1>2. /\ k.state[t] = TASK_STATE_RUNNING
      /\ op[t] = "acquire" => obj[t] \in Sem
  BY <1>1 DEF Whole, CallsOK
<1>3. TypeOK'
  <2>1. holds' \in [Task -> SUBSET Sem]
    BY <1>1, <1>2 DEF Whole, TypeOK
  <2> QED
    BY <1>1, <2>1 DEF Whole, TypeOK, Pc, Op
<1>4. /\ pc'[t] = "run" /\ op'[t] = "none"
      /\ holds'[t] = IF op[t] = "acquire" THEN holds[t] \cup {obj[t]} ELSE holds[t]
      /\ \A u \in Task \ {t} : /\ pc'[u] = pc[u] /\ op'[u] = op[u]
                               /\ obj'[u] = obj[u] /\ holds'[u] = holds[u]
  BY <1>1 DEF Whole, TypeOK
<1>5. CallsOK'
  <2>1. LockPrivate'
    BY <1>1, <1>4 DEF Whole, CallsOK, LockPrivate
  <2>2. ASSUME NEW u \in Task
        PROVE  /\ k.state[u] = TASK_STATE_BLOCK =>
                    pc'[u] # "run" /\ op'[u] \in {"acquire", "wait"}
               /\ k.state[u] = TASK_STATE_NONE => pc'[u] = "run" /\ holds'[u] = {}
               /\ pc'[u] # "run" => u # Idle
               /\ pc'[u] # "run" /\ op'[u] = "acquire" => obj'[u] \in Sem \ holds'[u]
               /\ pc'[u] # "run" /\ op'[u] = "wait" => holds'[u] = {}
    <3>1. CASE u = t
      BY <1>2, <1>4, <3>1 DEF TASK_STATE_RUNNING, TASK_STATE_BLOCK, TASK_STATE_NONE
    <3>2. CASE u # t
      BY <1>4, <3>2 DEF Whole, CallsOK
    <3> QED
      BY <3>1, <3>2
  <2> QED
    BY <1>1, <1>2, <2>1, <2>2 DEF CallsOK
<1>6. WaitersOK'
  <2>1. ASSUME NEW u \in Task, NEW o, NEW x, BlockedIn(u, o, x)
        PROVE  k.state[u] = TASK_STATE_BLOCK /\ op'[u] = o /\ obj'[u] = x
    BY <1>2, <1>4, <2>1 DEF BlockedIn, TASK_STATE_RUNNING, TASK_STATE_BLOCK
  <2> QED
    BY <1>1, <2>1, WaitersTyped DEF Whole, WaitersOK, BlockedIn
<1>7. CountOK'
  <2>1. ASSUME NEW s \in Sem
        PROVE  Owners(s)' = Owners(s)
    <3>1. ASSUME NEW u \in Task
          PROVE  u \in Owners(s)' <=> u \in Owners(s)
      <4>1. CASE u = t
        BY <1>1, <1>2, <1>4, <4>1 DEF Owners, Acquiring, TASK_STATE_RUNNING,
             TASK_STATE_BLOCK
      <4>2. CASE u # t
        BY <1>1, <1>4, <4>2 DEF Owners, Acquiring
      <4> QED
        BY <4>1, <4>2
    <3>2. Owners(s) \subseteq Task /\ Owners(s)' \subseteq Task
      BY DEF Owners
    <3> QED
      BY <3>1, <3>2
  <2> QED
    BY <1>1, <2>1 DEF Whole, CountOK, CountsOwners
<1> QED
  BY <1>1, <1>3, <1>5, <1>6, <1>7 DEF Whole

\* A new task keeps the invariant, at whichever end of the ready list it is put.
LEMMA NewTaskStep ==
  ASSUME Whole, NEW c \in Task, c \notin Kernel, k.state[c] = TASK_STATE_NONE,
         k' \in KernelState, RunQueueIn(k'),
         NEW st \in {TASK_STATE_ZERO, TASK_STATE_READY},
         k'.state = [k.state EXCEPT ![c] = st],
         k'.current = k.current, k'.task_switch_lock = k.task_switch_lock,
         k'.postponed = k.postponed, k'.sem = k.sem, k'.queue = k.queue,
         inIrq' \in [Task -> BOOLEAN], UNCHANGED <<pc, op, obj, pend, holds, torn>>
  PROVE  Whole'
<1> USE DEF TASK_STATE_NONE, TASK_STATE_ZERO, TASK_STATE_READY, TASK_STATE_RUNNING,
            TASK_STATE_BLOCK
<1>1. k.state \in [Task -> TaskState] /\ k.current \in Task
  BY DEF Whole, TypeOK, KernelState
<1>2. /\ k'.state[c] = st
      /\ \A u \in Task \ {c} : k'.state[u] = k.state[u]
      /\ k.current # c /\ c # Idle
  BY <1>1, SchedAssumption DEF Whole, KernelOK
<1>3. TypeOK'
  BY DEF Whole, TypeOK
<1>4. KernelOK(k')
  <2>1. \A u \in Task : k'.state[u] = TASK_STATE_RUNNING => u = k'.current
    BY <1>2 DEF Whole, KernelOK
  <2>2. k'.state[k'.current] = k.state[k.current]
    BY <1>1, <1>2
  <2>3. IF k'.current = Idle THEN k'.state[Idle] = TASK_STATE_RUNNING
                             ELSE Idle \in Ready(k')
    BY <1>2, SchedAssumption DEF Whole, KernelOK, Ready
  <2> QED
    BY <2>1, <2>2, <2>3 DEF Whole, KernelOK
<1>5. CurrentOK'
  BY <1>1, <1>2 DEF Whole, CallsOK, CurrentOK, LockPrivate
<1>6. WaitersOK'
  BY <1>2, <1>3, SameWaiters
<1> QED
  BY <1>2, <1>3, <1>4, <1>5, <1>6, Quiet

\* create_task() keeps the invariant.
LEMMA CreateStep ==
  ASSUME Whole, NEW t \in Task, NEW c \in Task, Create(t, c)
  PROVE  Whole'
<1>1. /\ c \notin Kernel /\ k.state[c] = TASK_STATE_NONE /\ k' = create_task(k, c)
      /\ UNCHANGED <<pc, op, obj, pend, inIrq, holds, torn>>
  BY DEF Create
<1>2. /\ k \in KernelState /\ RunQueueIn(k)
      /\ c \notin Ready(k)
      /\ inIrq \in [Task -> BOOLEAN]
  BY <1>1 DEF Whole, TypeOK, KernelOK, Ready, TASK_STATE_NONE, TASK_STATE_ZERO,
       TASK_STATE_READY
<1>3. /\ k' \in KernelState /\ RunQueueIn(k')
      /\ k'.state = [k.state EXCEPT ![c] = TASK_STATE_ZERO]
      /\ k'.current = k.current /\ k'.task_switch_lock = k.task_switch_lock
      /\ k'.postponed = k.postponed /\ k'.sem = k.sem /\ k'.queue = k.queue
  BY <1>1, <1>2, CreateTask
<1> QED
  BY <1>1, <1>2, <1>3, NewTaskStep

\* kfork() keeps the invariant.
LEMMA ForkStep ==
  ASSUME Whole, NEW t \in Task, NEW c \in Task, Fork(t, c)
  PROVE  Whole'
<1>1. /\ c \notin Kernel /\ k.state[c] = TASK_STATE_NONE /\ k' = copy_task(k, c)
      /\ inIrq' = [inIrq EXCEPT ![c] = TRUE]
      /\ UNCHANGED <<pc, op, obj, pend, holds, torn>>
  BY DEF Fork
<1>2. /\ k \in KernelState /\ RunQueueIn(k)
      /\ c \notin Ready(k)
  BY <1>1 DEF Whole, TypeOK, KernelOK, Ready, TASK_STATE_NONE, TASK_STATE_ZERO,
       TASK_STATE_READY
<1>3. inIrq' \in [Task -> BOOLEAN]
  BY <1>1 DEF Whole, TypeOK
<1>4. /\ k' \in KernelState /\ RunQueueIn(k')
      /\ k'.state = [k.state EXCEPT ![c] = TASK_STATE_READY]
      /\ k'.current = k.current /\ k'.task_switch_lock = k.task_switch_lock
      /\ k'.postponed = k.postponed /\ k'.sem = k.sem /\ k'.queue = k.queue
  BY <1>1, <1>2, CopyTask
<1> QED
  BY <1>1, <1>3, <1>4, NewTaskStep

\* The state that init_scheduler() leaves satisfies the invariant.
LEMMA InitOK ==
  ASSUME Init
  PROVE  Whole
<1> USE DEF TASK_STATE_NONE, TASK_STATE_ZERO, TASK_STATE_READY, TASK_STATE_RUNNING,
            TASK_STATE_BLOCK
<1>1. Main \in Task /\ Idle \in Task /\ Main # Idle /\ NULL \notin Task
  BY SchedAssumption, TaskOpsAssumption
<1>2. /\ k.current = Main /\ k.first_task = Idle /\ k.last_task = Idle
      /\ k.task_switch_lock = 0
      /\ k.state = InitState
      /\ k.next = [t \in Task |-> IF t = Main THEN Main ELSE NULL]
      /\ k.sem = [s \in Sem |-> create_semaphore(MaxCount[s])]
      /\ k.queue = [q \in Queue |-> EmptyQueue]
      /\ k.sched_lock = 0 /\ k.postponed = FALSE /\ k.ticks = TASK_DEFAULT_TIME
  BY DEF Init, InitKernel
<1>3. /\ k.state[Main] = TASK_STATE_RUNNING
      /\ k.state[Idle] = TASK_STATE_ZERO
      /\ \A t \in Task \ {Main, Idle} : k.state[t] = TASK_STATE_NONE
      /\ k.state \in [Task -> TaskState]
  BY <1>1, <1>2 DEF InitState, TaskState
<1>4. /\ pc = [t \in Task |-> "run"] /\ op = [t \in Task |-> "none"]
      /\ holds = [t \in Task |-> {}]
  BY DEF Init
<1>5. TypeOK
  <2>1. /\ k.sem \in [Sem -> Semaphore] /\ k.queue \in [Queue -> ResourceQueue]
        /\ k.next \in [Task -> TaskOrNull]
    BY <1>1, <1>2, SchedAssumption DEF create_semaphore, EmptyQueue, Semaphore,
         ResourceQueue, TaskOrNull
  <2>2. InitKernel \in KernelState
    BY <1>1, <1>2, <1>3, <2>1, TaskOpsAssumption DEF Init, InitKernel, KernelState,
         TaskOrNull
  <2> QED
    BY <2>2 DEF Init, TypeOK, Pc, Op
<1>6. KernelOK(k)
  <2>1. Ready(k) = {Idle}
    BY <1>1, <1>3 DEF Ready
  <2>2. Cardinality(Ready(k)) = 1
    BY <2>1, FS_Singleton
  <2> DEFINE rq == [i \in 1 .. 1 |-> Idle]
  <2>3. rq \in Bijection(1 .. Cardinality(Ready(k)), Ready(k))
    <3>1. /\ rq \in [1 .. 1 -> {Idle}]
          /\ \A i, j \in 1 .. 1 : rq[i] = rq[j] => i = j
          /\ \A t \in {Idle} : \E i \in 1 .. 1 : rq[i] = t
      OBVIOUS
    <3> HIDE DEF rq
    <3>2. rq \in Bijection(1 .. 1, {Idle})
      BY <3>1, Bij
    <3> QED
      BY <2>1, <2>2, <3>2
  <2>4. ListsReady(k, rq)
    BY <1>1, <1>2, <2>2 DEF ListsReady
  <2>5. RunQueueIn(k)
    BY <2>3, <2>4 DEF RunQueueIn
  <2> QED
    BY <1>1, <1>2, <1>3, <2>1, <2>5 DEF KernelOK
<1>7. CallsOK
  BY <1>1, <1>2, <1>3, <1>4 DEF CallsOK, LockPrivate
<1>8. WaitersOK
  BY <1>2 DEF WaitersOK, create_semaphore, EmptyQueue
<1>9. CountOK
  <2>1. ASSUME NEW s \in Sem
        PROVE  Owners(s) = {}
    BY <1>4 DEF Owners, Acquiring
  <2>2. \A s \in Sem : k.sem[s].current_count = 0 /\ k.sem[s].max_count = MaxCount[s]
    BY <1>2 DEF create_semaphore
  <2>3. \A s \in Sem : MaxCount[s] \in Nat
    BY SchedAssumption
  <2>4. \A s \in Sem : Cardinality(Owners(s)) = 0
    BY <2>1, FS_EmptySet
  <2> QED
    BY <2>2, <2>3, <2>4 DEF CountOK, CountsOwners
<1> QED
  BY <1>5, <1>6, <1>7, <1>8, <1>9 DEF Whole

\* A key press in the middle of an edit of the ready list leaves values of
\* their types, whatever it leaves of the list.
LEMMA SignalTyped ==
  ASSUME NEW kk \in KernelState, NEW q \in Queue, kk.queue[q].first_task # NULL,
         kk.queue[q].amount_waiting > 0, kk.first_task # NULL, kk.last_task # NULL
  PROVE  LET z == SignalBody(kk, q)
         IN  /\ z \in KernelState /\ z.sem = kk.sem
             /\ z.first_task # NULL /\ z.last_task # NULL
             /\ \A p \in Queue \ {q} : z.queue[p] = kk.queue[p]
<1> DEFINE w == kk.queue[q].first_task
           b == unblock_task(kk, w)
<1>1. w \in Task /\ kk.last_task \in Task /\ kk.queue[q] \in ResourceQueue
  BY DEF KernelState, ResourceQueue, TaskOrNull
<1>2. /\ b \in KernelState /\ b.sem = kk.sem /\ b.queue = kk.queue
      /\ b.first_task = kk.first_task /\ b.last_task = w
  BY <1>1 DEF unblock_task, LinkLast, KernelState, TaskState, TaskOrNull
<1>3. kk.queue[q].amount_waiting - 1 \in Nat
  BY <1>1 DEF ResourceQueue
<1>4. SignalBody(kk, q) = UnlinkFirstQueued(b, q)
  BY DEF SignalBody
<1> HIDE DEF b
<1>5. b.next[w] \in TaskOrNull /\ b.queue[q] = kk.queue[q]
  BY <1>1, <1>2 DEF KernelState
<1> DEFINE z == UnlinkFirstQueued(b, q)
<1>6. /\ z = [b EXCEPT !.queue = z.queue]
      /\ z.queue = [b.queue EXCEPT ![q] = [first_task |-> b.next[w],
                      last_task |-> IF b.next[w] = NULL THEN NULL ELSE b.queue[q].last_task,
                      amount_waiting |-> b.queue[q].amount_waiting - 1]]
  BY <1>1, <1>2, <1>5 DEF UnlinkFirstQueued, KernelState, ResourceQueue
<1> HIDE DEF z
<1>7. z.queue \in [Queue -> ResourceQueue]
  BY <1>1, <1>2, <1>3, <1>5, <1>6 DEF KernelState, ResourceQueue, TaskOrNull
<1>8. z \in KernelState /\ z.sem = b.sem /\ z.first_task = b.first_task
      /\ z.last_task = b.last_task
  BY <1>2, <1>6, <1>7 DEF KernelState
<1>9. \A p \in Queue \ {q} : z.queue[p] = kk.queue[p]
  BY <1>2, <1>6 DEF KernelState
<1> QED
  BY <1>1, <1>2, <1>4, <1>8, <1>9, TaskOpsAssumption DEF z

LEMMA LinkTears ==
  ASSUME NEW kk \in KernelState, NEW t \in Task, NEW q \in Queue,
         kk.queue[q].first_task # NULL, kk.queue[q].amount_waiting > 0,
         kk.first_task # NULL, kk.last_task # NULL, NEW s \in InterruptedLink(kk, t, q)
  PROVE  /\ s \in KernelState /\ s.sem = kk.sem /\ s.first_task # NULL
         /\ \A p \in Queue \ {q} : s.queue[p] = kk.queue[p]
<1> DEFINE m == [kk EXCEPT !.state[t] = TASK_STATE_READY, !.next[t] = NULL]
           z == SignalBody(m, q)
<1>1. /\ m \in KernelState /\ m.queue = kk.queue /\ m.sem = kk.sem
      /\ m.first_task = kk.first_task /\ m.last_task = kk.last_task
  BY DEF KernelState, TaskState, TaskOrNull
<1>2. s \in {[z EXCEPT !.last_task = z.next[z.last_task]],
             [z EXCEPT !.last_task = t],
             [z EXCEPT !.next[kk.last_task] = t, !.last_task = t]}
  BY DEF InterruptedLink
<1> HIDE DEF m
<1>3. /\ z \in KernelState /\ z.sem = m.sem
      /\ z.first_task # NULL /\ z.last_task # NULL
      /\ \A p \in Queue \ {q} : z.queue[p] = m.queue[p]
  BY <1>1, SignalTyped
<1> HIDE DEF z
<1>4. z.last_task \in Task /\ z.next[z.last_task] \in TaskOrNull
  BY <1>3 DEF KernelState, TaskOrNull
<1>5. CASE s = [z EXCEPT !.last_task = z.next[z.last_task]]
  BY <1>1, <1>3, <1>4, <1>5 DEF KernelState
<1>6. CASE s = [z EXCEPT !.last_task = t]
  BY <1>1, <1>3, <1>6 DEF KernelState, TaskOrNull
<1>7. CASE s = [z EXCEPT !.next[kk.last_task] = t, !.last_task = t]
  BY <1>1, <1>3, <1>7 DEF KernelState, TaskOrNull
<1> QED
  BY <1>2, <1>5, <1>6, <1>7

\* What a kernel task that is not idle finds: a list with the idle task in it,
\* and at the head of a queue a task that is counted.
LEMMA KernelTaskFinds ==
  ASSUME Whole, NEW t \in Task, k.current = t, t # Idle
  PROVE  /\ k \in KernelState /\ k.first_task # NULL /\ k.last_task # NULL
         /\ \A q \in Queue : k.queue[q].first_task # NULL => k.queue[q].amount_waiting > 0
<1>1. k \in KernelState /\ KernelOK(k) /\ WaitersOK
  BY DEF Whole, TypeOK
<1>2. Ready(k) # {} /\ RunQueueIn(k)
  BY <1>1 DEF KernelOK
<1> QED
  BY <1>1, <1>2, ListEnds DEF WaitersOK

LEMMA ReleaseTears ==
  ASSUME Whole, NEW t \in Task, NEW s \in Sem, NEW q \in KbdQueue, ReleaseInterrupted(t, s, q)
  PROVE  TypeOK' /\ torn'
<1> DEFINE e == lock_task_switches(k)
           w == k.sem[s].first_waiting_task
<1>1. /\ k.current = t /\ t # Idle /\ q \in Queue /\ Wakes(q) /\ w # NULL /\ torn'
      /\ pc' = [pc EXCEPT ![t] = "unlock"] /\ op' = [op EXCEPT ![t] = "release"]
      /\ obj' = [obj EXCEPT ![t] = s] /\ UNCHANGED <<pend, inIrq>>
      /\ holds' = [holds EXCEPT ![t] = @ \ {s}] /\ torn' = TRUE
  BY SchedAssumption DEF ReleaseInterrupted, Enter, Runs
<1>2. /\ k \in KernelState /\ k.first_task # NULL /\ k.last_task # NULL
      /\ k.queue[q].first_task # NULL /\ k.queue[q].amount_waiting > 0
  BY <1>1, KernelTaskFinds DEF Wakes
<1>3. w \in Task
  BY <1>1, <1>2 DEF KernelState, Semaphore, TaskOrNull
<1>4. /\ e \in KernelState /\ e.first_task # NULL /\ e.last_task # NULL
      /\ e.queue[q].first_task # NULL /\ e.queue[q].amount_waiting > 0
      /\ e.sem = k.sem
  BY <1>2 DEF lock_task_switches, KernelState
<1>5. PICK kk \in InterruptedLink(e, w, q) : k' = UnlinkFirstWaiter(kk, s)
  BY DEF ReleaseInterrupted
<1> HIDE DEF e
<1>6. kk \in KernelState /\ kk.sem = k.sem
  BY <1>1, <1>3, <1>4, LinkTears
<1>7. k' \in KernelState
  <2> DEFINE last == IF kk.next[w] = NULL THEN NULL ELSE kk.sem[s].last_waiting_task
  <2>1. kk.next[w] \in TaskOrNull /\ kk.sem \in [Sem -> Semaphore]
    BY <1>3, <1>6 DEF KernelState
  <2> DEFINE u == UnlinkFirstWaiter(kk, s)
  <2>2. /\ u = [kk EXCEPT !.sem = u.sem]
        /\ u.sem = [kk.sem EXCEPT ![s].first_waiting_task = kk.next[w],
                                  ![s].last_waiting_task = last]
    BY <1>6, <2>1 DEF UnlinkFirstWaiter, KernelState, Semaphore
  <2>3. last \in TaskOrNull
    BY <2>1 DEF Semaphore, TaskOrNull
  <2>4. k' = u
    BY <1>5
  <2> HIDE DEF last, u
  <2>5. u.sem \in [Sem -> Semaphore]
    BY <2>1, <2>2, <2>3 DEF Semaphore
  <2> QED
    BY <2>2, <2>4, <2>5, <1>6 DEF KernelState
<1> QED
  BY <1>1, <1>7 DEF Whole, TypeOK, Pc, Op

LEMMA SignalTears ==
  ASSUME Whole, NEW t \in Task, NEW p \in Queue, NEW q \in KbdQueue, SignalInterrupted(t, p, q)
  PROVE  TypeOK' /\ torn'
<1> DEFINE e == lock_task_switches(k)
           w == k.queue[p].first_task
<1>1. /\ k.current = t /\ t # Idle /\ q \in Queue /\ Wakes(q) /\ w # NULL /\ p # q
      /\ pc' = [pc EXCEPT ![t] = "unlock"] /\ op' = [op EXCEPT ![t] = "signal"]
      /\ obj' = [obj EXCEPT ![t] = p] /\ UNCHANGED <<pend, inIrq, holds>>
      /\ torn' = TRUE
  BY SchedAssumption DEF SignalInterrupted, Enter, Runs
<1>2. /\ k \in KernelState /\ k.first_task # NULL /\ k.last_task # NULL
      /\ k.queue[q].first_task # NULL /\ k.queue[q].amount_waiting > 0
      /\ k.queue[p].amount_waiting > 0
  BY <1>1, KernelTaskFinds DEF Wakes
<1>3. w \in Task /\ k.queue[p].amount_waiting - 1 \in Nat
  BY <1>1, <1>2 DEF KernelState, ResourceQueue, TaskOrNull
<1>4. /\ e \in KernelState /\ e.first_task # NULL /\ e.last_task # NULL
      /\ e.queue[q].first_task # NULL /\ e.queue[q].amount_waiting > 0
      /\ e.queue = k.queue
  BY <1>2 DEF lock_task_switches, KernelState
<1>5. PICK kk \in InterruptedLink(e, w, q) : k' = UnlinkFirstQueued(kk, p)
  BY DEF SignalInterrupted
<1> HIDE DEF e
<1>6. kk \in KernelState /\ kk.queue[p] = k.queue[p]
  BY <1>1, <1>3, <1>4, LinkTears
<1>7. k' \in KernelState
  <2> DEFINE rq == [first_task |-> kk.next[w],
                    last_task |-> IF kk.next[w] = NULL THEN NULL ELSE kk.queue[p].last_task,
                    amount_waiting |-> kk.queue[p].amount_waiting - 1]
  <2>1. kk.next[w] \in TaskOrNull /\ kk.queue \in [Queue -> ResourceQueue]
    BY <1>3, <1>6 DEF KernelState
  <2>2. rq \in ResourceQueue
    BY <2>1, <1>3, <1>6 DEF ResourceQueue, TaskOrNull
  <2> DEFINE u == UnlinkFirstQueued(kk, p)
  <2>3. /\ u = [kk EXCEPT !.queue = u.queue]
        /\ u.queue = [kk.queue EXCEPT ![p] = rq]
    BY <1>6, <2>1 DEF UnlinkFirstQueued, KernelState, ResourceQueue
  <2>4. k' = u
    BY <1>5
  <2> HIDE DEF rq, u
  <2>5. u.queue \in [Queue -> ResourceQueue]
    BY <2>1, <2>2, <2>3
  <2> QED
    BY <2>3, <2>4, <2>5, <1>6 DEF KernelState
<1> QED
  BY <1>1, <1>7 DEF Whole, TypeOK, Pc, Op

LEMMA YieldTears ==
  ASSUME Whole, NEW t \in Task, NEW q \in KbdQueue, YieldInterrupted(t, q)
  PROVE  TypeOK' /\ torn'
<1> DEFINE e == lock_scheduler([k EXCEPT !.postponed = FALSE])
<1>1. /\ k.current = t /\ pc[t] = "check" /\ q \in Queue /\ Wakes(q)
      /\ pc' = [pc EXCEPT ![t] = "ret"] /\ pend' = [pend EXCEPT ![t] = @ + 1]
      /\ UNCHANGED <<op, obj, inIrq, holds>> /\ torn' = TRUE
      /\ k' \in InterruptedYield(e, q)
  BY SchedAssumption DEF YieldInterrupted, Runs
<1>2. t # Idle
  BY <1>1 DEF Whole, CallsOK
<1>3. /\ k \in KernelState /\ k.first_task # NULL /\ k.last_task # NULL
      /\ k.queue[q].first_task # NULL /\ k.queue[q].amount_waiting > 0
  BY <1>1, <1>2, KernelTaskFinds DEF Wakes
<1>4. /\ e \in KernelState /\ e.first_task # NULL /\ e.last_task # NULL
      /\ e.queue[q].first_task # NULL /\ e.queue[q].amount_waiting > 0
      /\ e.current = t
  <2> DEFINE m == [k EXCEPT !.postponed = FALSE]
  <2>1. /\ m \in KernelState /\ m.queue = k.queue /\ m.current = k.current
        /\ m.first_task = k.first_task /\ m.last_task = k.last_task
    BY <1>3 DEF KernelState
  <2> HIDE DEF m
  <2>2. LET z == lock_scheduler(m)
        IN  /\ z \in KernelState /\ z.queue = m.queue /\ z.current = m.current
            /\ z.first_task = m.first_task /\ z.last_task = m.last_task
    BY <2>1 DEF lock_scheduler, KernelState
  <2> QED
    BY <2>1, <2>2, <1>1, <1>3 DEF m
<1> HIDE DEF e
<1>5. ASSUME NEW s \in KernelState, s.first_task # NULL
      PROVE  PopFirst(s) \in KernelState
  BY <1>5, TaskOpsAssumption DEF PopFirst, KernelState, TaskOrNull, TaskState
<1>6. CASE e.state[e.current] = TASK_STATE_RUNNING
  <2>1. PICK s \in InterruptedLink(e, t, q) : k' = PopFirst(s)
    BY <1>1, <1>4, <1>6 DEF InterruptedYield
  <2>2. s \in KernelState /\ s.first_task # NULL
    BY <1>1, <1>4, LinkTears
  <2>3. k' \in KernelState
    BY <2>1, <2>2, <1>5
  <2> QED
    BY <1>1, <2>3 DEF Whole, TypeOK, Pc
<1>7. CASE e.state[e.current] # TASK_STATE_RUNNING
  <2> DEFINE z == SignalBody(e, q)
             y == PopFirst(z)
  <2>1. k' = [y EXCEPT !.first_task = NULL, !.last_task = NULL]
    BY <1>1, <1>7 DEF InterruptedYield
  <2>2. z \in KernelState /\ z.first_task # NULL
    BY <1>1, <1>4, SignalTyped
  <2> HIDE DEF z
  <2>3. y \in KernelState
    BY <2>2, <1>5
  <2> HIDE DEF y
  <2>4. k' \in KernelState
    BY <2>1, <2>3 DEF KernelState, TaskOrNull
  <2> QED
    BY <1>1, <2>4 DEF Whole, TypeOK, Pc
<1> QED
  BY <1>6, <1>7

\* No step of a task and no interrupt breaks the invariant, but for a key press
\* in the middle of an edit of the ready list.
LEMMA NextOK ==
  ASSUME Whole, [Next]_vars
  PROVE  TypeOK' /\ (torn' \/ Whole')
<1>0. Whole' => TypeOK'
  BY DEF Whole
<1>1. CASE \E t \in Task : CallStep(t)
  BY <1>0, <1>1, AcquireStep, ReleaseStep, WaitStep, SignalStep DEF CallStep
<1>2. CASE \E t \in Task : FinishCall(t) \/ Resume(t)
  BY <1>0, <1>2, UnlockDecrementStep, UnlockCheckStep, ReturnStep, ResumeStep DEF FinishCall
<1>3. CASE \E t, c \in Task : Create(t, c) \/ Fork(t, c)
  BY <1>0, <1>3, CreateStep, ForkStep
<1>4. CASE idle_task_main
  BY <1>0, <1>4, IdleStep
<1>5. CASE scheduler_irq0
  BY <1>0, <1>5, Irq0Step
<1>6. CASE \E q \in KbdQueue : irq1(q)
  BY <1>0, <1>6, Irq1Step
<1>7. CASE UNCHANGED vars
  BY <1>7 DEF vars, Whole, TypeOK, CallsOK, LockPrivate, WaitersOK, BlockedIn,
       CountOK, CountsOwners, Owners, Acquiring
<1>8. CASE \E t \in Task, s \in Sem, q \in KbdQueue : ReleaseInterrupted(t, s, q)
  BY <1>8, ReleaseTears
<1>9. CASE \E t \in Task, p \in Queue, q \in KbdQueue : SignalInterrupted(t, p, q)
  BY <1>9, SignalTears
<1>10. CASE \E t \in Task, q \in KbdQueue : YieldInterrupted(t, q)
  BY <1>10, YieldTears
<1> QED
  BY <1>0, <1>1, <1>2, <1>3, <1>4, <1>5, <1>6, <1>7, <1>8, <1>9, <1>10 DEF Next, Stopped

\* Once the list is torn the model stops.
LEMMA TornStays ==
  ASSUME torn, [Next]_vars
  PROVE  UNCHANGED vars
<1>1. \A t \in Task : ~Runs(t) /\ ~Interruptible(t)
  BY DEF Runs, Interruptible
<1>2. ~Interruptible(k.current)
  BY DEF Interruptible
<1>3. \A t \in Task : ~CallStep(t) /\ ~FinishCall(t) /\ ~Resume(t)
  BY <1>1 DEF CallStep, acquire_semaphore, release_semaphore, wait_queue, signal_queue, Enter,
       FinishCall, UnlockDecrement, UnlockCheck, Return, Resume
<1>4. \A t, c \in Task : ~Create(t, c) /\ ~Fork(t, c)
  BY <1>1 DEF Create, Fork
<1>5. ~idle_task_main /\ ~scheduler_irq0 /\ \A q \in KbdQueue : ~irq1(q)
  BY <1>1, <1>2, SchedAssumption DEF idle_task_main, scheduler_irq0, irq1
<1>6. \A t \in Task, q \in KbdQueue :
        /\ \A s \in Sem : ~ReleaseInterrupted(t, s, q)
        /\ \A p \in Queue : ~SignalInterrupted(t, p, q)
        /\ ~YieldInterrupted(t, q)
  BY <1>1 DEF ReleaseInterrupted, SignalInterrupted, YieldInterrupted, Enter
<1> QED
  BY <1>3, <1>4, <1>5, <1>6 DEF Next, Stopped

\* IInv is inductive.
LEMMA IInvNext ==
  ASSUME IInv, [Next]_vars
  PROVE  IInv'
<1>1. CASE torn
  BY <1>1, TornStays DEF vars, IInv, TypeOK
<1>2. CASE ~torn
  BY <1>2, NextOK DEF IInv
<1> QED
  BY <1>1, <1>2

-----------------------------------------------------------------------------
(***************************************************************************)
(* The theorems.                                                           *)
(***************************************************************************)

\* The inductive invariant holds in every reachable state, however many
\* tasks, semaphores and queues there are and whatever signals the queues, up
\* to a key press in the middle of a kernel task's edit of the ready list.
THEOREM IInvInvariant == Spec => []IInv
<1>1. Init => IInv
  BY InitOK DEF IInv, Whole
<1> QED
  BY <1>1, IInvNext, PTL DEF Spec

\* The fields of the task structures always hold values of their types: no
\* pointer to a task is wild, no lock count and no amount of waiting tasks
\* goes below zero.
THEOREM TypeCorrect == Spec => []TypeOK
<1>1. IInv => TypeOK
  BY DEF IInv
<1> QED
  BY <1>1, IInvInvariant, PTL

\* Until a key press comes in the middle of a kernel task's edit of it, the
\* ready list holds exactly the ready tasks, each once (task.c, yield,
\* block_task, unblock_task).
THEOREM RunQueueCorrect == Spec => []RunQueueOK
<1>1. IInv => RunQueueOK
  BY DEF IInv, Whole, KernelOK, RunQueueOK
<1> QED
  BY <1>1, IInvInvariant, PTL

\* A semaphore's current_count is the number of its owners as long as the
\* ready list is not torn (semaphore.c, acquire_semaphore and
\* release_semaphore).
THEOREM CountCorrect == Spec => []CountIsOwners
<1>1. IInv => CountIsOwners
  BY DEF IInv, Whole, CountOK, CountIsOwners
<1> QED
  BY <1>1, IInvInvariant, PTL

\* A semaphore has no more holders than its max_count as long as the ready
\* list is not torn (semaphore.c).
THEOREM MutualExclusionCorrect == Spec => []MutualExclusion
<1>1. IInv => MutualExclusion
  <2> SUFFICES ASSUME Whole, NEW s \in Sem
               PROVE  Cardinality(Holders(s)) <= k.sem[s].max_count
    BY DEF MutualExclusion, IInv
  <2>1. Holders(s) \subseteq Owners(s)
    BY DEF Holders, Owners
  <2>2. /\ Cardinality(Holders(s)) \in Nat /\ Cardinality(Owners(s)) \in Nat
        /\ Cardinality(Holders(s)) <= Cardinality(Owners(s))
    BY <2>1, OwnersFinite, FS_Subset, FS_CardinalityType
  <2>3. k.sem[s].max_count \in Nat
    BY DEF Whole, TypeOK, KernelState, Semaphore
  <2> QED
    BY <2>2, <2>3 DEF Whole, CountOK, CountsOwners
<1> QED
  BY <1>1, IInvInvariant, PTL

\* No task comes back from a call that blocked it before it is unblocked, as
\* long as the ready list is not torn (task.c, unlock_task_switches and yield).
THEOREM BlockedNeverRunsCorrect == Spec => []BlockedNeverRuns
<1>1. IInv => BlockedNeverRuns
  BY DEF IInv, Whole, CallsOK, BlockedNeverRuns
<1> QED
  BY <1>1, IInvInvariant, PTL

\* The task switch lock is held exactly while the current task is in the body
\* of a call, so that no task is switched out holding it, as long as the ready
\* list is not torn (task.c).
THEOREM SwitchLockCorrect == Spec => []SwitchLockIsPrivate
<1>1. IInv => SwitchLockIsPrivate
  BY DEF IInv, Whole, CallsOK, SwitchLockIsPrivate
<1> QED
  BY <1>1, IInvInvariant, PTL

-----------------------------------------------------------------------------
(***************************************************************************)
(* The scheduler lock, without the keyboard.  Every task but the current   *)
(* one is switched out in a yield(), whose unlock_scheduler() is still to  *)
(* come, and the lock is never above what the current task will undo: a    *)
(* task that yields holds it zero times, because the timer tests the lock  *)
(* and a call ends with it free.  The keyboard interrupt tests nothing.    *)
(***************************************************************************)
UnlocksPending ==
  /\ ~torn
  /\ \A t \in Task \ {k.current} : pend[t] > 0
  /\ k.sched_lock <= pend[k.current]

\* What happens inside a call, while switches are locked, is no switch and
\* leaves the scheduler lock alone.
LEMMA BodiesKeepLock ==
  ASSUME NEW kk \in KernelState
  PROVE  LET e == lock_task_switches(kk)
             Same(u) == u.current = kk.current /\ u.sched_lock = kk.sched_lock
         IN  /\ \A s \in Sem : Same(AcquireBody(e, s)) /\ Same(ReleaseBody(e, s))
             /\ \A q \in Queue : Same(WaitBody(e, q)) /\ Same(SignalBody(e, q))
             /\ \A t \in Task : Same(create_task(kk, t)) /\ Same(copy_task(kk, t))
<1> DEFINE Same(u) == u.current = kk.current /\ u.sched_lock = kk.sched_lock
<1>1. PICK e : e = lock_task_switches(kk)
  OBVIOUS
<1>2. e \in KernelState /\ e.current = kk.current /\ e.sched_lock = kk.sched_lock
      /\ e.task_switch_lock > 0
  BY <1>1 DEF lock_task_switches, KernelState
<1>4. ASSUME NEW s \in Sem PROVE Same(AcquireBody(e, s))
  BY <1>2 DEF AcquireBody, block_task, yield, KernelState
<1>5. ASSUME NEW s \in Sem PROVE Same(ReleaseBody(e, s))
  BY <1>2 DEF ReleaseBody, UnlinkFirstWaiter, unblock_task, LinkLast, KernelState
<1>6. ASSUME NEW q \in Queue PROVE Same(WaitBody(e, q))
  BY <1>2 DEF WaitBody, block_task, yield, KernelState
<1>7. ASSUME NEW q \in Queue PROVE Same(SignalBody(e, q))
  BY <1>2 DEF SignalBody, UnlinkFirstQueued, unblock_task, LinkLast, KernelState
<1>8. ASSUME NEW t \in Task PROVE Same(create_task(kk, t)) /\ Same(copy_task(kk, t))
  BY DEF create_task, copy_task, LinkFirst, LinkLast, KernelState
<1> QED
  BY <1>1, <1>4, <1>5, <1>6, <1>7, <1>8

\* lock_scheduler(); yield(); unlock_scheduler() from a state with a free lock.
LEMMA YieldKeepsPending ==
  ASSUME TypeOK, UnlocksPending, NEW kk \in KernelState, KernelOK(kk), kk.current = k.current,
         kk.sched_lock = 0, YieldCall(kk, TRUE) \/ YieldCall(kk, FALSE), torn' = torn
  PROVE  UnlocksPending'
<1>1. PICK y : y = yield(lock_scheduler(kk))
  OBVIOUS
<1>2. PICK e : e = lock_scheduler(kk)
  OBVIOUS
<1>3. e \in KernelState /\ KernelOK(e) /\ e.sched_lock = 1 /\ e.current = kk.current
  <2>1. e \in KernelState /\ KernelOK(e)
    BY <1>2, Locks
  <2> QED
    BY <2>1, <1>2 DEF lock_scheduler, KernelState
<1>4. y \in KernelState
  BY <1>1, <1>2, <1>3, Yield
<1>5. y.sched_lock = 1
  BY <1>1, <1>2, <1>3 DEF yield, PopFirst, Requeue, KernelState
<1>6. y.current \in Task /\ k.current \in Task /\ pend \in [Task -> Nat]
  BY <1>4 DEF TypeOK, KernelState
<1>7. CASE y.current # kk.current
  <2>1. k' = y /\ pend' = [pend EXCEPT ![kk.current] = @ + 1]
    BY <1>1, <1>7 DEF YieldCall
  <2>2. \A t \in Task : t # k'.current => pend'[t] > 0
    BY <2>1, <1>6 DEF UnlocksPending
  <2>3. pend'[k'.current] > 0 /\ pend'[k'.current] \in Nat
    BY <2>1, <1>6, <1>7 DEF UnlocksPending
  <2> QED
    BY <2>1, <2>2, <2>3, <1>5 DEF UnlocksPending
<1>8. CASE y.current = kk.current
  <2>1. k' = unlock_scheduler(y) /\ pend' = pend
    BY <1>1, <1>8 DEF YieldCall
  <2>2. k'.sched_lock = 0 /\ k'.current = k.current
    BY <2>1, <1>4, <1>5, <1>8 DEF unlock_scheduler, KernelState
  <2> QED
    BY <2>1, <2>2, <1>6 DEF UnlocksPending
<1> QED
  BY <1>7, <1>8

LEMMA PendingNext ==
  ASSUME KbdQueue = {}, Whole, UnlocksPending, [Next]_vars
  PROVE  UnlocksPending'
<1>1. TypeOK /\ k \in KernelState /\ KernelOK(k) /\ pend \in [Task -> Nat] /\ k.current \in Task
      /\ k.sched_lock \in Nat
  BY DEF Whole, TypeOK, KernelState
<1>2. ASSUME k'.current = k.current, k'.sched_lock = k.sched_lock, pend' = pend, torn' = torn
      PROVE  UnlocksPending'
  BY <1>2 DEF UnlocksPending
<1>3. ASSUME NEW t \in Task, CallStep(t) PROVE UnlocksPending'
  BY <1>1, <1>2, <1>3, BodiesKeepLock
     DEF CallStep, acquire_semaphore, release_semaphore, wait_queue, signal_queue, Enter
<1>4. ASSUME NEW t \in Task, NEW c \in Task, Create(t, c) \/ Fork(t, c) PROVE UnlocksPending'
  BY <1>1, <1>2, <1>4, BodiesKeepLock DEF Create, Fork
<1>5. ASSUME NEW t \in Task, Resume(t) PROVE UnlocksPending'
  <2>1. /\ k.current = t /\ k'.current = t /\ pend[t] > 0
        /\ k'.sched_lock = IF k.sched_lock = 0 THEN 0 ELSE k.sched_lock - 1
    BY <1>1, <1>5 DEF Resume, unlock_scheduler, KernelState
  <2>2. torn' = torn /\ \A u \in Task : pend'[u] = IF u = t THEN pend[u] - 1 ELSE pend[u]
    BY <1>1, <1>5 DEF Resume
  <2>3. pend[t] \in Nat /\ k.sched_lock <= pend[t]
    BY <2>1, <1>1 DEF UnlocksPending
  <2> QED
    BY <2>1, <2>2, <2>3, <1>1 DEF UnlocksPending
<1>6. ASSUME NEW t \in Task, UnlockDecrement(t) \/ Return(t) PROVE UnlocksPending'
  <2>1. k'.current = k.current /\ k'.sched_lock = k.sched_lock /\ pend' = pend
        /\ torn' = torn
    BY <1>1, <1>6 DEF UnlockDecrement, Return, KernelState
  <2> QED
    BY <2>1, <1>2
<1>7. ASSUME NEW t \in Task, UnlockCheck(t) PROVE UnlocksPending'
  <2>1. CASE k.task_switch_lock = 0 /\ k.postponed
    <3>1. PICK kk : kk = [k EXCEPT !.postponed = FALSE]
      OBVIOUS
    <3>2. /\ kk \in KernelState /\ kk.current = k.current /\ kk.sched_lock = k.sched_lock
          /\ kk.state = k.state /\ kk.first_task = k.first_task /\ kk.last_task = k.last_task
          /\ kk.next = k.next
      BY <3>1, <1>1 DEF KernelState
    <3>3. KernelOK(kk)
      BY <3>2, <1>1, KernelFrame
    <3>4. kk.sched_lock = 0
      BY <3>2, <1>1, <1>7 DEF UnlockCheck, Runs, UnlocksPending
    <3>5. YieldCall(kk, FALSE) /\ torn' = torn
      BY <3>1, <2>1, <1>7 DEF UnlockCheck
    <3> QED
      BY <3>2, <3>3, <3>4, <3>5, <1>1, YieldKeepsPending
  <2>2. CASE ~(k.task_switch_lock = 0 /\ k.postponed)
    BY <2>2, <1>2, <1>7 DEF UnlockCheck
  <2> QED
    BY <2>1, <2>2
<1>8. CASE idle_task_main
  <2>1. k'.current = k.current /\ k'.sched_lock = k.sched_lock /\ pend' = pend
        /\ torn' = torn
    BY <1>1, <1>8 DEF idle_task_main, KernelState
  <2> QED
    BY <2>1, <1>2
<1>9. CASE scheduler_irq0
  <2>1. PICK kk : kk = [k EXCEPT !.ticks = IF @ = 0 THEN 0 ELSE @ - 1]
    OBVIOUS
  <2>2. /\ kk \in KernelState /\ kk.current = k.current /\ kk.sched_lock = k.sched_lock
        /\ kk.state = k.state /\ kk.first_task = k.first_task /\ kk.last_task = k.last_task
        /\ kk.next = k.next
    <3>1. k.ticks \in Nat
      BY <1>1 DEF KernelState
    <3>2. (IF k.ticks = 0 THEN 0 ELSE k.ticks - 1) \in Nat
      BY <3>1
    <3> QED
      BY <2>1, <3>2, <1>1 DEF KernelState
  <2>3. KernelOK(kk)
    BY <2>2, <1>1, KernelFrame
  <2>4. CASE kk.sched_lock = 0 /\ kk.ticks = 0
    <3>1. YieldCall(kk, TRUE) /\ torn' = torn
      BY <2>1, <2>4, <1>9 DEF scheduler_irq0
    <3> QED
      BY <3>1, <2>2, <2>3, <2>4, <1>1, YieldKeepsPending
  <2>5. CASE ~(kk.sched_lock = 0 /\ kk.ticks = 0)
    <3>1. k' = kk /\ pend' = pend /\ torn' = torn
      BY <2>1, <2>5, <1>9 DEF scheduler_irq0
    <3> QED
      BY <3>1, <2>2, <1>2
  <2> QED
    BY <2>4, <2>5
<1>10. CASE UNCHANGED vars
  BY <1>2, <1>10 DEF vars
<1> QED
  BY <1>3, <1>4, <1>5, <1>6, <1>7, <1>8, <1>9, <1>10 DEF Next, FinishCall, Stopped

\* As long as no keyboard interrupt signals a queue, a task that runs its own code
\* can be preempted: each unlock_scheduler() that a switch moved to another task
\* has been done (task.c, yield, task_loader and scheduler_irq0).
THEOREM PreemptibleWithoutKeyboard ==
  ASSUME KbdQueue = {}
  PROVE  Spec => []UserIsPreemptible
<1>1. Init => UnlocksPending
  BY SchedAssumption DEF Init, InitKernel, UnlocksPending
<1>2. IInv /\ UnlocksPending /\ [Next]_vars => UnlocksPending'
  BY PendingNext DEF IInv, UnlocksPending
<1>3. IInv /\ UnlocksPending => UserIsPreemptible
  <2> SUFFICES ASSUME IInv, UnlocksPending, pend[k.current] = 0
               PROVE  k.sched_lock = 0
    BY DEF UserIsPreemptible, Runs
  <2>1. k.sched_lock \in Nat
    BY DEF IInv, TypeOK, KernelState
  <2> QED
    BY <2>1 DEF UnlocksPending
<1> QED
  BY <1>1, <1>2, <1>3, IInvInvariant, PTL DEF Spec

=============================================================================
