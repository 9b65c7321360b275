-------------------------- MODULE LifecycleProofs --------------------------
(***************************************************************************)
(* Proofs about the life of tasks, for any number of task structures, wait *)
(* queues and pids: every exited task is on the termination queue once,    *)
(* nothing points to a freed task, and pids and wait queues have one       *)
(* owner.                                                                  *)
(***************************************************************************)
EXTENDS Lifecycle, FiniteSetTheorems, WellFoundedInduction, NaturalsInduction, TLAPS

-----------------------------------------------------------------------------
(***************************************************************************)
(* Lists of tasks linked through `next'.                                   *)
(***************************************************************************)

\* f numbers the tasks S in the order of the links.
Links(next, first, last, S, f) ==
  LET n == Cardinality(S)
  IN  /\ f \in [1 .. n -> S]
      /\ \A i, j \in 1 .. n : f[i] = f[j] => i = j
      /\ \A t \in S : \E i \in 1 .. n : f[i] = t
      /\ first = IF n = 0 THEN NULL ELSE f[1]
      /\ last = IF n = 0 THEN NULL ELSE f[n]
      /\ \A i \in 1 .. n : next[f[i]] = IF i = n THEN NULL ELSE f[i + 1]

Chain(next, first, last, S) == S \in SUBSET Task /\ \E f : Links(next, first, last, S, f)

LEMMA TasksFinite ==
  ASSUME NEW S \in SUBSET Task
  PROVE  /\ IsFiniteSet(S) /\ Cardinality(S) \in Nat
         /\ Cardinality(S) = 0 <=> S = {}
<1>1. IsFiniteSet(S)
  BY FS_Subset, TaskOpsAssumption
<1> QED
  BY <1>1, FS_CardinalityType, FS_EmptySet

LEMMA ChainEnds ==
  ASSUME NEW next, NEW first, NEW last, NEW S, Chain(next, first, last, S)
  PROVE  /\ first = NULL <=> S = {}
         /\ last = NULL <=> S = {}
         /\ first # NULL => first \in S /\ first \in Task
         /\ last # NULL => last \in S /\ last \in Task
         /\ S \in SUBSET Task
<1> DEFINE n == Cardinality(S)
<1>1. PICK f : Links(next, first, last, S, f)
  BY DEF Chain
<1>2. S \in SUBSET Task /\ NULL \notin Task
  BY TaskOpsAssumption DEF Chain
<1>3. n \in Nat /\ (n = 0 <=> S = {})
  BY <1>2, TasksFinite
<1>4. f \in [1 .. n -> S]
  BY <1>1 DEF Links
<1>5. CASE n = 0
  BY <1>1, <1>2, <1>3, <1>5 DEF Links
<1>6. CASE n # 0
  <2>1. 1 \in 1 .. n /\ n \in 1 .. n
    BY <1>3, <1>6
  <2>2. f[1] \in S /\ f[n] \in S
    BY <2>1, <1>4
  <2>3. first = f[1] /\ last = f[n]
    BY <1>1, <1>6 DEF Links
  <2> QED
    BY <2>2, <2>3, <1>2, <1>3, <1>6
<1> QED
  BY <1>5, <1>6

\* Changing the links of other tasks leaves a list as it is.
LEMMA ChainFrame ==
  ASSUME NEW next, NEW first, NEW last, NEW S, Chain(next, first, last, S), NEW m,
         \A t \in S : m[t] = next[t]
  PROVE  Chain(m, first, last, S)
<1>1. PICK f : Links(next, first, last, S, f)
  BY DEF Chain
<1>2. f \in [1 .. Cardinality(S) -> S]
  BY <1>1 DEF Links
<1>3. Links(m, first, last, S, f)
  BY <1>1, <1>2 DEF Links
<1> QED
  BY <1>3 DEF Chain

\* Linking a task behind the last one.
LEMMA ChainAppend ==
  ASSUME NEW next, NEW first, NEW last, NEW S, Chain(next, first, last, S),
         NEW t \in Task, t \notin S, NEW m, NEW start, NEW T,
         T = S \cup {t}, start = IF first = NULL THEN t ELSE first,
         m[t] = NULL, last # NULL => m[last] = t,
         \A u \in S \ {last} : m[u] = next[u]
  PROVE  Chain(m, start, t, T)
<1> DEFINE n == Cardinality(S)
<1>1. PICK f : Links(next, first, last, S, f)
  BY DEF Chain
<1>2. /\ f \in [1 .. n -> S]
      /\ \A i, j \in 1 .. n : f[i] = f[j] => i = j
      /\ \A u \in S : \E i \in 1 .. n : f[i] = u
  BY <1>1 DEF Links
<1>3. n \in Nat /\ Cardinality(T) = n + 1 /\ (n = 0 <=> S = {}) /\ S \in SUBSET Task
  BY TasksFinite, FS_AddElement DEF Chain
<1>4. (first = NULL <=> n = 0) /\ (last = NULL <=> n = 0)
  BY <1>3, ChainEnds
<1>5. /\ n # 0 => first = f[1] /\ last = f[n]
      /\ \A i \in 1 .. n : next[f[i]] = IF i = n THEN NULL ELSE f[i + 1]
  BY <1>1 DEF Links
<1>6. PICK g : g = [i \in 1 .. n + 1 |-> IF i = n + 1 THEN t ELSE f[i]]
  OBVIOUS
<1> HIDE DEF n
<1>7. \A i \in 1 .. n + 1 : i # n + 1 => i \in 1 .. n
  BY <1>3
<1>8. 1 .. n \subseteq 1 .. n + 1 /\ n + 1 \in 1 .. n + 1 /\ \A i \in 1 .. n : i # n + 1
  BY <1>3
<1>9. g[n + 1] = t /\ \A i \in 1 .. n : g[i] = f[i]
  BY <1>6, <1>8
<1>10. g \in [1 .. n + 1 -> T]
  BY <1>2, <1>6, <1>7
<1>11. ASSUME NEW i \in 1 .. n + 1, NEW j \in 1 .. n + 1, g[i] = g[j] PROVE i = j
  <2>1. CASE i = n + 1 /\ j # n + 1
    BY <1>2, <1>7, <1>9, <1>11, <2>1
  <2>2. CASE i # n + 1 /\ j = n + 1
    BY <1>2, <1>7, <1>9, <1>11, <2>2
  <2>3. CASE i # n + 1 /\ j # n + 1
    BY <1>2, <1>7, <1>9, <1>11, <2>3
  <2> QED
    BY <2>1, <2>2, <2>3
<1>12. ASSUME NEW u \in T PROVE \E i \in 1 .. n + 1 : g[i] = u
  <2>1. CASE u = t
    BY <1>8, <1>9, <2>1
  <2>2. CASE u \in S
    <3>1. PICK i \in 1 .. n : f[i] = u
      BY <1>2, <2>2
    <3> QED
      BY <1>8, <1>9, <3>1
  <2> QED
    BY <2>1, <2>2
<1>13. start = g[1]
  <2>1. CASE n = 0
    BY <1>3, <1>4, <1>9, <2>1
  <2>2. CASE n # 0
    <3>1. 1 \in 1 .. n
      BY <1>3, <2>2
    <3> QED
      BY <1>4, <1>5, <1>9, <2>2, <3>1
  <2> QED
    BY <2>1, <2>2
<1>14. ASSUME NEW i \in 1 .. n + 1 PROVE m[g[i]] = IF i = n + 1 THEN NULL ELSE g[i + 1]
  <2>1. CASE i = n + 1
    BY <1>9, <2>1
  <2>2. CASE i = n /\ i # n + 1
    <3>1. n \in 1 .. n /\ n # 0
      BY <1>3, <2>2
    <3>2. g[i] = last /\ last # NULL
      BY <1>4, <1>5, <1>9, <2>2, <3>1
    <3> QED
      BY <1>9, <2>2, <3>2
  <2>3. CASE i # n /\ i # n + 1
    <3>1. i \in 1 .. n /\ i + 1 \in 1 .. n /\ n \in 1 .. n /\ n # 0
      BY <1>3, <2>3
    <3>2. last = f[n] /\ f[i] # last /\ f[i] \in S
      BY <1>2, <1>5, <2>3, <3>1
    <3>3. m[f[i]] = f[i + 1]
      BY <1>5, <2>3, <3>1, <3>2
    <3> QED
      BY <1>9, <2>3, <3>1, <3>3
  <2> QED
    BY <2>1, <2>2, <2>3
<1>15. n + 1 # 0 /\ t = g[n + 1] /\ T \in SUBSET Task
  BY <1>3, <1>9
<1>16. Links(m, start, t, T, g)
  BY <1>3, <1>10, <1>11, <1>12, <1>13, <1>14, <1>15 DEF Links
<1> QED
  BY <1>15, <1>16 DEF Chain

\* Linking a task before the first one.
LEMMA ChainPrepend ==
  ASSUME NEW next, NEW first, NEW last, NEW S, Chain(next, first, last, S),
         NEW t \in Task, t \notin S, NEW m, NEW end, NEW T,
         T = S \cup {t}, end = IF first = NULL THEN t ELSE last,
         m[t] = first, \A u \in S : m[u] = next[u]
  PROVE  Chain(m, t, end, T)
<1> DEFINE n == Cardinality(S)
<1>1. PICK f : Links(next, first, last, S, f)
  BY DEF Chain
<1>2. /\ f \in [1 .. n -> S]
      /\ \A i, j \in 1 .. n : f[i] = f[j] => i = j
      /\ \A u \in S : \E i \in 1 .. n : f[i] = u
  BY <1>1 DEF Links
<1>3. n \in Nat /\ Cardinality(T) = n + 1 /\ (n = 0 <=> S = {}) /\ S \in SUBSET Task
  BY TasksFinite, FS_AddElement DEF Chain
<1>4. (first = NULL <=> n = 0) /\ (last = NULL <=> n = 0)
  BY <1>3, ChainEnds
<1>5. /\ n # 0 => first = f[1] /\ last = f[n]
      /\ \A i \in 1 .. n : next[f[i]] = IF i = n THEN NULL ELSE f[i + 1]
  BY <1>1 DEF Links
<1>6. PICK g : g = [i \in 1 .. n + 1 |-> IF i = 1 THEN t ELSE f[i - 1]]
  OBVIOUS
<1> HIDE DEF n
<1>7. \A i \in 1 .. n + 1 : i # 1 => i - 1 \in 1 .. n
  BY <1>3
<1>8. \A i \in 1 .. n : i + 1 \in 1 .. n + 1 /\ i + 1 # 1 /\ (i + 1) - 1 = i
  BY <1>3
<1>9. 1 \in 1 .. n + 1 /\ n + 1 \in 1 .. n + 1 /\ n + 1 # 0
  BY <1>3
<1>10. g[1] = t /\ (\A i \in 1 .. n + 1 : i # 1 => g[i] = f[i - 1])
       /\ \A i \in 1 .. n : g[i + 1] = f[i]
  BY <1>6, <1>8, <1>9
<1>11. g \in [1 .. n + 1 -> T]
  BY <1>2, <1>6, <1>7
<1>12. ASSUME NEW i \in 1 .. n + 1, NEW j \in 1 .. n + 1, g[i] = g[j] PROVE i = j
  <2>1. CASE i = 1 /\ j # 1
    BY <1>2, <1>7, <1>10, <1>12, <2>1
  <2>2. CASE i # 1 /\ j = 1
    BY <1>2, <1>7, <1>10, <1>12, <2>2
  <2>3. CASE i # 1 /\ j # 1
    <3>1. i - 1 = j - 1
      BY <1>2, <1>7, <1>10, <1>12, <2>3
    <3> QED
      BY <1>3, <3>1
  <2> QED
    BY <2>1, <2>2, <2>3
<1>13. ASSUME NEW u \in T PROVE \E i \in 1 .. n + 1 : g[i] = u
  <2>1. CASE u = t
    BY <1>9, <1>10, <2>1
  <2>2. CASE u \in S
    <3>1. PICK i \in 1 .. n : f[i] = u
      BY <1>2, <2>2
    <3> QED
      BY <1>8, <1>10, <3>1
  <2> QED
    BY <2>1, <2>2
<1>14. end = g[n + 1]
  <2>1. CASE n = 0
    BY <1>4, <1>10, <2>1
  <2>2. CASE n # 0
    <3>1. n \in 1 .. n
      BY <1>3, <2>2
    <3> QED
      BY <1>4, <1>5, <1>10, <2>2, <3>1
  <2> QED
    BY <2>1, <2>2
<1>15. ASSUME NEW i \in 1 .. n + 1 PROVE m[g[i]] = IF i = n + 1 THEN NULL ELSE g[i + 1]
  <2>1. CASE i = 1 /\ n = 0
    BY <1>4, <1>10, <2>1
  <2>2. CASE i = 1 /\ n # 0
    <3>1. 1 \in 1 .. n /\ n + 1 # 1
      BY <1>3, <2>2
    <3> QED
      BY <1>5, <1>10, <2>2, <3>1
  <2>3. CASE i # 1
    <3>1. PICK j \in 1 .. n : j = i - 1
      BY <1>7, <2>3
    <3>2. i = j + 1 /\ (j = n <=> i = n + 1)
      BY <1>3, <3>1
    <3>3. g[i] = f[j] /\ f[j] \in S
      BY <1>2, <1>10, <3>2
    <3>4. m[f[j]] = IF j = n THEN NULL ELSE f[j + 1]
      BY <1>5, <3>3
    <3>5. j # n => j + 1 \in 1 .. n
      BY <1>3
    <3> QED
      BY <1>10, <3>2, <3>3, <3>4, <3>5
  <2> QED
    BY <2>1, <2>2, <2>3
<1>16. T \in SUBSET Task
  BY <1>3
<1>17. Links(m, t, end, T, g)
  BY <1>3, <1>9, <1>10, <1>11, <1>12, <1>13, <1>14, <1>15 DEF Links
<1> QED
  BY <1>16, <1>17 DEF Chain

\* Unlinking the first task.
LEMMA ChainPop ==
  ASSUME NEW next, NEW first, NEW last, NEW S, Chain(next, first, last, S), first # NULL,
         NEW m, NEW start, NEW end, NEW T, T = S \ {first},
         start = next[first], end = IF start = NULL THEN NULL ELSE last,
         \A u \in T : m[u] = next[u]
  PROVE  Chain(m, start, end, T) /\ (start = NULL <=> first = last)
<1> DEFINE n == Cardinality(S)
<1>1. PICK f : Links(next, first, last, S, f)
  BY DEF Chain
<1>2. /\ f \in [1 .. n -> S]
      /\ \A i, j \in 1 .. n : f[i] = f[j] => i = j
      /\ \A u \in S : \E i \in 1 .. n : f[i] = u
  BY <1>1 DEF Links
<1>3. /\ first \in S /\ n \in Nat /\ n # 0 /\ Cardinality(T) = n - 1
      /\ S \in SUBSET Task /\ T \in SUBSET Task
  BY TasksFinite, ChainEnds, FS_RemoveElement
<1>4. /\ first = f[1] /\ last = f[n]
      /\ \A i \in 1 .. n : next[f[i]] = IF i = n THEN NULL ELSE f[i + 1]
  BY <1>1, <1>3 DEF Links
<1> HIDE DEF n
<1>5. 1 \in 1 .. n /\ n \in 1 .. n
  BY <1>3
<1>6. first = last <=> n = 1
  BY <1>2, <1>4, <1>5
<1>7. start = NULL <=> n = 1
  <2>1. CASE n = 1
    BY <1>4, <1>5, <2>1
  <2>2. CASE n # 1
    <3>1. 2 \in 1 .. n
      BY <1>3, <2>2
    <3>2. start = f[2] /\ f[2] \in Task
      BY <1>2, <1>3, <1>4, <1>5, <2>2, <3>1
    <3> QED
      BY <2>2, <3>2, TaskOpsAssumption
  <2> QED
    BY <2>1, <2>2
<1>8. PICK g : g = [i \in 1 .. n - 1 |-> f[i + 1]]
  OBVIOUS
<1>9. \A i \in 1 .. n - 1 : i + 1 \in 1 .. n /\ i + 1 # 1
  BY <1>3
<1>10. \A i \in 1 .. n - 1 : g[i] = f[i + 1] /\ f[i + 1] \in T
  <2> TAKE i \in 1 .. n - 1
  <2>1. f[i + 1] \in S /\ f[i + 1] # f[1]
    BY <1>2, <1>5, <1>9
  <2> QED
    BY <1>4, <1>8, <2>1
<1>11. g \in [1 .. n - 1 -> T]
  BY <1>8, <1>10
<1>12. ASSUME NEW i \in 1 .. n - 1, NEW j \in 1 .. n - 1, g[i] = g[j] PROVE i = j
  <2>1. i + 1 = j + 1
    BY <1>2, <1>9, <1>10, <1>12
  <2> QED
    BY <1>3, <2>1
<1>13. ASSUME NEW u \in T PROVE \E i \in 1 .. n - 1 : g[i] = u
  <2>1. PICK i \in 1 .. n : f[i] = u
    BY <1>2
  <2>2. i # 1
    BY <1>4, <2>1
  <2>3. i - 1 \in 1 .. n - 1 /\ (i - 1) + 1 = i
    BY <1>3, <2>2
  <2> QED
    BY <1>10, <2>1, <2>3
<1>14. start = IF n - 1 = 0 THEN NULL ELSE g[1]
  <2>1. CASE n = 1
    BY <1>7, <2>1
  <2>2. CASE n # 1
    <3>1. 1 \in 1 .. n - 1 /\ n - 1 # 0
      BY <1>3, <2>2
    <3> QED
      BY <1>4, <1>5, <1>10, <2>2, <3>1
  <2> QED
    BY <2>1, <2>2
<1>15. end = IF n - 1 = 0 THEN NULL ELSE g[n - 1]
  <2>1. CASE n = 1
    BY <1>7, <2>1
  <2>2. CASE n # 1
    <3>1. n - 1 \in 1 .. n - 1 /\ n - 1 # 0 /\ (n - 1) + 1 = n
      BY <1>3, <2>2
    <3> QED
      BY <1>4, <1>7, <1>10, <2>2, <3>1
  <2> QED
    BY <2>1, <2>2
<1>16. ASSUME NEW i \in 1 .. n - 1 PROVE m[g[i]] = IF i = n - 1 THEN NULL ELSE g[i + 1]
  <2>1. /\ i + 1 \in 1 .. n /\ (i + 1 = n <=> i = n - 1)
        /\ i # n - 1 => i + 1 \in 1 .. n - 1
    BY <1>3
  <2>2. m[f[i + 1]] = next[f[i + 1]]
    BY <1>10
  <2> QED
    BY <1>4, <1>10, <2>1, <2>2
<1>17. Links(m, start, end, T, g)
  BY <1>3, <1>11, <1>12, <1>13, <1>14, <1>15, <1>16 DEF Links
<1> QED
  BY <1>3, <1>6, <1>7, <1>17 DEF Chain

-----------------------------------------------------------------------------
(***************************************************************************)
(* What holds of the lists of a kernel state, in its fields: the ready     *)
(* list f, l, the states st, the links nx and the queues qu.  O says what  *)
(* each task blocks on, z is the task that is taken apart, and L are the   *)
(* queues that exist besides the termination queue.                        *)
(*                                                                         *)
(* Only the ready list and the termination queue are lists.  signal_queue()*)
(* forgets all waiters of a queue but the one it wakes, so that the ends   *)
(* of another queue are just two of its waiters, or nothing; its count is  *)
(* right nevertheless.                                                     *)
(***************************************************************************)
Rdy(st) == {t \in Task : st[t] \in {TASK_STATE_ZERO, TASK_STATE_READY}}

Waiting(st, O, z, q) == {t \in Task : st[t] = TASK_STATE_BLOCK /\ O[t] = q /\ t # z}

EndsIn(r, S) ==
  \/ r.first_task = NULL /\ r.last_task = NULL
  \/ r.first_task \in S /\ r.last_task \in S

ListsOK(f, l, st, nx, qu, O, z, L) ==
  /\ Chain(nx, f, l, Rdy(st))
  /\ st[Idle] \notin {TASK_STATE_BLOCK, TASK_STATE_NONE}
  /\ \A q \in L : /\ qu[q].amount_waiting = Cardinality(Waiting(st, O, z, q))
                  /\ EndsIn(qu[q], Waiting(st, O, z, q))
  /\ qu[TermQueue].amount_waiting = Cardinality(Waiting(st, O, z, TermQueue))
  /\ Chain(nx, qu[TermQueue].first_task, qu[TermQueue].last_task, Waiting(st, O, z, TermQueue))

LEMMA StatesDiffer ==
  /\ TASK_STATE_BLOCK \notin {TASK_STATE_ZERO, TASK_STATE_READY, TASK_STATE_RUNNING, TASK_STATE_NONE}
  /\ TASK_STATE_RUNNING \notin {TASK_STATE_ZERO, TASK_STATE_READY, TASK_STATE_NONE}
  /\ TASK_STATE_NONE \notin {TASK_STATE_ZERO, TASK_STATE_READY}
BY DEF TASK_STATE_BLOCK, TASK_STATE_ZERO, TASK_STATE_READY, TASK_STATE_RUNNING, TASK_STATE_NONE

\* Who waits does not change with the state of a task that does not wait.
LEMMA WaitingSame ==
  ASSUME NEW st, NEW O, NEW z, NEW q, NEW s2, NEW t \in Task,
         t \notin Waiting(st, O, z, q), s2[t] # TASK_STATE_BLOCK \/ O[t] # q,
         \A u \in Task \ {t} : s2[u] = st[u]
  PROVE  Waiting(s2, O, z, q) = Waiting(st, O, z, q)
<1>1. ASSUME NEW u \in Task PROVE u \in Waiting(s2, O, z, q) <=> u \in Waiting(st, O, z, q)
  <2>1. CASE u = t
    BY <2>1 DEF Waiting
  <2>2. CASE u # t
    BY <2>2 DEF Waiting
  <2> QED
    BY <2>1, <2>2
<1> QED
  BY <1>1 DEF Waiting

\* A task joins the end of the ready list.
LEMMA ListsAppend ==
  ASSUME NEW f, NEW l, NEW st, NEW nx, NEW qu, NEW O, NEW z, NEW L,
         ListsOK(f, l, st, nx, qu, O, z, L),
         NEW t \in Task, t \notin Rdy(st),
         \A q \in L \cup {TermQueue} : t \notin Waiting(st, O, z, q),
         NEW s2, s2[t] \in {TASK_STATE_ZERO, TASK_STATE_READY},
         \A u \in Task \ {t} : s2[u] = st[u],
         NEW n2, n2[t] = NULL, l # NULL => n2[l] = t,
         \A u \in Task \ {t, l} : n2[u] = nx[u],
         NEW f2, f2 = IF f = NULL THEN t ELSE f
  PROVE  ListsOK(f2, t, s2, n2, qu, O, z, L)
<1>1. Rdy(s2) = Rdy(st) \cup {t}
  BY DEF Rdy
<1>2. \A q \in L \cup {TermQueue} : Waiting(s2, O, z, q) = Waiting(st, O, z, q)
  <2> TAKE q \in L \cup {TermQueue}
  <2>1. s2[t] # TASK_STATE_BLOCK
    BY StatesDiffer
  <2> QED
    BY <2>1, WaitingSame
<1>3. Chain(nx, f, l, Rdy(st)) /\ Rdy(st) \in SUBSET Task
  BY DEF ListsOK, Chain
<1>4. \A u \in Rdy(st) \ {l} : n2[u] = nx[u]
  BY <1>3
<1>5. Chain(n2, f2, t, Rdy(s2))
  BY <1>1, <1>3, <1>4, ChainAppend
<1>6. \A u \in Waiting(st, O, z, TermQueue) : n2[u] = nx[u]
  <2> TAKE u \in Waiting(st, O, z, TermQueue)
  <2>1. u \in Task /\ u # t /\ u \notin Rdy(st)
    BY StatesDiffer DEF Waiting, Rdy
  <2>2. l # NULL => l \in Rdy(st)
    BY <1>3, ChainEnds
  <2>3. u # l
    BY <2>1, <2>2, TaskOpsAssumption
  <2> QED
    BY <2>1, <2>3
<1>7. Chain(n2, qu[TermQueue].first_task, qu[TermQueue].last_task, Waiting(st, O, z, TermQueue))
  BY <1>6, ChainFrame DEF ListsOK
<1>8. s2[Idle] \notin {TASK_STATE_BLOCK, TASK_STATE_NONE}
  <2>1. CASE Idle = t
    BY <2>1, StatesDiffer
  <2>2. CASE Idle # t
    BY <2>2, LifecycleAssumption DEF ListsOK
  <2> QED
    BY <2>1, <2>2
<1> QED
  BY <1>2, <1>5, <1>7, <1>8 DEF ListsOK

\* A task joins the head of the ready list.
LEMMA ListsPrepend ==
  ASSUME NEW f, NEW l, NEW st, NEW nx, NEW qu, NEW O, NEW z, NEW L,
         ListsOK(f, l, st, nx, qu, O, z, L),
         NEW t \in Task, t \notin Rdy(st),
         \A q \in L \cup {TermQueue} : t \notin Waiting(st, O, z, q),
         NEW s2, s2[t] \in {TASK_STATE_ZERO, TASK_STATE_READY},
         \A u \in Task \ {t} : s2[u] = st[u],
         NEW n2, n2[t] = f,
         \A u \in Task \ {t} : n2[u] = nx[u],
         NEW l2, l2 = IF f = NULL THEN t ELSE l
  PROVE  ListsOK(t, l2, s2, n2, qu, O, z, L)
<1>1. Rdy(s2) = Rdy(st) \cup {t}
  BY DEF Rdy
<1>2. \A q \in L \cup {TermQueue} : Waiting(s2, O, z, q) = Waiting(st, O, z, q)
  <2> TAKE q \in L \cup {TermQueue}
  <2>1. s2[t] # TASK_STATE_BLOCK
    BY StatesDiffer
  <2> QED
    BY <2>1, WaitingSame
<1>3. Chain(nx, f, l, Rdy(st)) /\ Rdy(st) \in SUBSET Task
  BY DEF ListsOK, Chain
<1>4. \A u \in Rdy(st) : n2[u] = nx[u]
  BY <1>3
<1>5. Chain(n2, t, l2, Rdy(s2))
  BY <1>1, <1>3, <1>4, ChainPrepend
<1>6. \A u \in Waiting(st, O, z, TermQueue) : n2[u] = nx[u]
  BY DEF Waiting
<1>7. Chain(n2, qu[TermQueue].first_task, qu[TermQueue].last_task, Waiting(st, O, z, TermQueue))
  BY <1>6, ChainFrame DEF ListsOK
<1>8. s2[Idle] \notin {TASK_STATE_BLOCK, TASK_STATE_NONE}
  <2>1. CASE Idle = t
    BY <2>1, StatesDiffer
  <2>2. CASE Idle # t
    BY <2>2, LifecycleAssumption DEF ListsOK
  <2> QED
    BY <2>1, <2>2
<1> QED
  BY <1>2, <1>5, <1>7, <1>8 DEF ListsOK

\* The first task of the ready list is switched to.
LEMMA ListsPop ==
  ASSUME NEW f, NEW l, NEW st, NEW nx, NEW qu, NEW O, NEW z, NEW L,
         ListsOK(f, l, st, nx, qu, O, z, L), f # NULL,
         NEW s2, s2[f] = TASK_STATE_RUNNING, \A u \in Task \ {f} : s2[u] = st[u],
         NEW n2, \A u \in Task \ {f} : n2[u] = nx[u],
         NEW f2, f2 = IF f = l THEN NULL ELSE nx[f],
         NEW l2, l2 = IF f = l THEN NULL ELSE l
  PROVE  ListsOK(f2, l2, s2, n2, qu, O, z, L)
<1>1. Chain(nx, f, l, Rdy(st)) /\ f \in Rdy(st) /\ f \in Task
  BY ChainEnds DEF ListsOK
<1>2. Rdy(s2) = Rdy(st) \ {f}
  BY <1>1, StatesDiffer DEF Rdy
<1>3. \A q \in L \cup {TermQueue} : Waiting(s2, O, z, q) = Waiting(st, O, z, q)
  <2> TAKE q \in L \cup {TermQueue}
  <2>1. s2[f] # TASK_STATE_BLOCK /\ f \notin Waiting(st, O, z, q)
    BY <1>1, StatesDiffer DEF Waiting, Rdy
  <2> QED
    BY <1>1, <2>1, WaitingSame
<1>4. \A u \in Rdy(st) \ {f} : n2[u] = nx[u]
  BY DEF Rdy
<1>5. PICK a : a = nx[f]
  OBVIOUS
<1>6. PICK b : b = IF a = NULL THEN NULL ELSE l
  OBVIOUS
<1>7. Chain(n2, a, b, Rdy(s2)) /\ (a = NULL <=> f = l)
  BY <1>1, <1>2, <1>4, <1>5, <1>6, ChainPop
<1>8. f2 = a /\ l2 = b
  BY <1>5, <1>6, <1>7
<1>9. \A u \in Waiting(st, O, z, TermQueue) : n2[u] = nx[u]
  BY <1>1, StatesDiffer DEF Waiting, Rdy
<1>10. Chain(n2, qu[TermQueue].first_task, qu[TermQueue].last_task, Waiting(st, O, z, TermQueue))
  BY <1>9, ChainFrame DEF ListsOK
<1>11. s2[Idle] \notin {TASK_STATE_BLOCK, TASK_STATE_NONE}
  <2>1. CASE Idle = f
    BY <2>1, StatesDiffer
  <2>2. CASE Idle # f
    BY <2>2, LifecycleAssumption DEF ListsOK
  <2> QED
    BY <2>1, <2>2
<1> QED
  BY <1>3, <1>7, <1>8, <1>10, <1>11 DEF ListsOK

\* A task blocks that no queue is to know of.
LEMMA ListsBlock ==
  ASSUME NEW f, NEW l, NEW st, NEW nx, NEW qu, NEW O, NEW z, NEW L,
         ListsOK(f, l, st, nx, qu, O, z, L),
         NEW c \in Task, c # Idle, st[c] = TASK_STATE_RUNNING, O[c] \notin L \cup {TermQueue},
         NEW s2, s2[c] = TASK_STATE_BLOCK, \A u \in Task \ {c} : s2[u] = st[u]
  PROVE  ListsOK(f, l, s2, nx, qu, O, z, L)
<1>1. Rdy(s2) = Rdy(st)
  <2>1. ASSUME NEW u \in Task PROVE u \in Rdy(s2) <=> u \in Rdy(st)
    <3>1. CASE u = c
      BY <3>1, StatesDiffer DEF Rdy
    <3>2. CASE u # c
      BY <3>2 DEF Rdy
    <3> QED
      BY <3>1, <3>2
  <2> QED
    BY <2>1 DEF Rdy
<1>2. \A q \in L \cup {TermQueue} : Waiting(s2, O, z, q) = Waiting(st, O, z, q)
  <2> TAKE q \in L \cup {TermQueue}
  <2>1. c \notin Waiting(st, O, z, q) /\ O[c] # q
    BY StatesDiffer DEF Waiting
  <2> QED
    BY <2>1, WaitingSame
<1>3. s2[Idle] = st[Idle]
  BY LifecycleAssumption
<1> QED
  BY <1>1, <1>2, <1>3 DEF ListsOK

\* The running task c joins those who wait on q.
Joined(st, s2, O, z, q, c) ==
  /\ Waiting(s2, O, z, q) = Waiting(st, O, z, q) \cup {c}
  /\ c \notin Waiting(st, O, z, q)
  /\ Cardinality(Waiting(s2, O, z, q)) = Cardinality(Waiting(st, O, z, q)) + 1
  /\ \A p : p # q => Waiting(s2, O, z, p) = Waiting(st, O, z, p)
  /\ Rdy(s2) = Rdy(st)

LEMMA WaitingJoin ==
  ASSUME NEW st, NEW O, NEW z, NEW q, NEW c \in Task, c # z,
         st[c] = TASK_STATE_RUNNING, O[c] = q,
         NEW s2, s2[c] = TASK_STATE_BLOCK, \A u \in Task \ {c} : s2[u] = st[u]
  PROVE  Joined(st, s2, O, z, q, c)
<1>1. c \notin Waiting(st, O, z, q)
  BY StatesDiffer DEF Waiting
<1>2. Waiting(s2, O, z, q) = Waiting(st, O, z, q) \cup {c}
  <2>1. ASSUME NEW u \in Task
        PROVE  u \in Waiting(s2, O, z, q) <=> u \in Waiting(st, O, z, q) \/ u = c
    <3>1. CASE u = c
      BY <3>1 DEF Waiting
    <3>2. CASE u # c
      BY <3>2 DEF Waiting
    <3> QED
      BY <3>1, <3>2
  <2> QED
    BY <2>1 DEF Waiting
<1>3. Waiting(st, O, z, q) \in SUBSET Task
  BY DEF Waiting
<1>4. Cardinality(Waiting(s2, O, z, q)) = Cardinality(Waiting(st, O, z, q)) + 1
  BY <1>1, <1>2, <1>3, TasksFinite, FS_AddElement
<1>5. ASSUME NEW p, p # q PROVE Waiting(s2, O, z, p) = Waiting(st, O, z, p)
  <2>1. c \notin Waiting(st, O, z, p) /\ O[c] # p
    BY <1>5, StatesDiffer DEF Waiting
  <2> QED
    BY <2>1, WaitingSame
<1>6. Rdy(s2) = Rdy(st)
  <2>1. ASSUME NEW u \in Task PROVE u \in Rdy(s2) <=> u \in Rdy(st)
    <3>1. CASE u = c
      BY <3>1, StatesDiffer DEF Rdy
    <3>2. CASE u # c
      BY <3>2 DEF Rdy
    <3> QED
      BY <3>1, <3>2
  <2> QED
    BY <2>1 DEF Rdy
<1> QED
  BY <1>1, <1>2, <1>4, <1>5, <1>6 DEF Joined

\* wait_queue() on a queue other than the termination queue.
LEMMA ListsWait ==
  ASSUME NEW f, NEW l, NEW st, NEW nx, NEW qu, NEW O, NEW z, NEW L,
         ListsOK(f, l, st, nx, qu, O, z, L),
         NEW q \in L, TermQueue \notin L, NEW c \in Task, c # Idle, c # z,
         st[c] = TASK_STATE_RUNNING, O[c] = q,
         NEW s2, s2[c] = TASK_STATE_BLOCK, \A u \in Task \ {c} : s2[u] = st[u],
         NEW n2, \A u \in Task \ {c, qu[q].last_task} : n2[u] = nx[u],
         NEW q2, q2[q].amount_waiting = qu[q].amount_waiting + 1,
         q2[q].first_task = IF qu[q].first_task = NULL THEN c ELSE qu[q].first_task,
         q2[q].last_task = c,
         \A p \in L \cup {TermQueue} : p # q => q2[p] = qu[p]
  PROVE  ListsOK(f, l, s2, n2, q2, O, z, L)
<1>1. /\ Waiting(s2, O, z, q) = Waiting(st, O, z, q) \cup {c}
      /\ Cardinality(Waiting(s2, O, z, q)) = Cardinality(Waiting(st, O, z, q)) + 1
      /\ \A p : p # q => Waiting(s2, O, z, p) = Waiting(st, O, z, p)
      /\ Rdy(s2) = Rdy(st)
  <2>1. Joined(st, s2, O, z, q, c)
    BY WaitingJoin
  <2> QED
    BY <2>1 DEF Joined
<1>2. EndsIn(qu[q], Waiting(st, O, z, q))
      /\ qu[q].amount_waiting = Cardinality(Waiting(st, O, z, q))
  BY DEF ListsOK
<1>3. EndsIn(q2[q], Waiting(s2, O, z, q))
  BY <1>1, <1>2 DEF EndsIn
<1>4. ASSUME NEW u \in Rdy(st) \cup Waiting(st, O, z, TermQueue) PROVE n2[u] = nx[u]
  <2>1. u \in Task /\ u # c
    BY StatesDiffer DEF Rdy, Waiting
  <2>2. u \notin Waiting(st, O, z, q)
    BY StatesDiffer DEF Rdy, Waiting
  <2>3. u # qu[q].last_task
    BY <1>2, <2>1, <2>2, TaskOpsAssumption DEF EndsIn
  <2> QED
    BY <2>1, <2>3
<1>5. Chain(n2, f, l, Rdy(s2))
  BY <1>1, <1>4, ChainFrame DEF ListsOK
<1>6. Chain(n2, qu[TermQueue].first_task, qu[TermQueue].last_task, Waiting(st, O, z, TermQueue))
  BY <1>4, ChainFrame DEF ListsOK
<1>7. TermQueue # q /\ q2[TermQueue] = qu[TermQueue]
      /\ Waiting(s2, O, z, TermQueue) = Waiting(st, O, z, TermQueue)
  BY <1>1
<1>8. s2[Idle] = st[Idle]
  BY LifecycleAssumption
<1>9. ASSUME NEW p \in L
      PROVE  /\ q2[p].amount_waiting = Cardinality(Waiting(s2, O, z, p))
             /\ EndsIn(q2[p], Waiting(s2, O, z, p))
  <2>1. CASE p = q
    BY <1>1, <1>2, <1>3, <2>1
  <2>2. CASE p # q
    BY <1>1, <2>2 DEF ListsOK
  <2> QED
    BY <2>1, <2>2
<1> QED
  BY <1>5, <1>6, <1>7, <1>8, <1>9 DEF ListsOK

\* wait_queue() on the termination queue.
ExitLinks(nx, n2, qu, q2, c, L) ==
  LET first == qu[TermQueue].first_task
      last == qu[TermQueue].last_task
  IN  /\ n2[c] = NULL /\ (last # NULL => n2[last] = c)
      /\ \A u \in Task \ {c, last} : n2[u] = nx[u]
      /\ q2[TermQueue].amount_waiting = qu[TermQueue].amount_waiting + 1
      /\ q2[TermQueue].first_task = IF first = NULL THEN c ELSE first
      /\ q2[TermQueue].last_task = c
      /\ \A p \in L : q2[p] = qu[p]

LEMMA ListsExit ==
  ASSUME NEW f, NEW l, NEW st, NEW nx, NEW qu, NEW O, NEW z, NEW L,
         ListsOK(f, l, st, nx, qu, O, z, L),
         TermQueue \notin L, NEW c \in Task, c # Idle, c # z,
         st[c] = TASK_STATE_RUNNING, O[c] = TermQueue,
         NEW s2, s2[c] = TASK_STATE_BLOCK, \A u \in Task \ {c} : s2[u] = st[u],
         NEW n2, NEW q2, ExitLinks(nx, n2, qu, q2, c, L)
  PROVE  ListsOK(f, l, s2, n2, q2, O, z, L)
<1> DEFINE S == Waiting(st, O, z, TermQueue)
<1>0. PICK first, last :
        /\ first = qu[TermQueue].first_task /\ last = qu[TermQueue].last_task
        /\ n2[c] = NULL /\ (last # NULL => n2[last] = c)
        /\ \A u \in Task \ {c, last} : n2[u] = nx[u]
        /\ q2[TermQueue].amount_waiting = qu[TermQueue].amount_waiting + 1
        /\ q2[TermQueue].first_task = IF first = NULL THEN c ELSE first
        /\ q2[TermQueue].last_task = c
        /\ \A p \in L : q2[p] = qu[p]
  BY DEF ExitLinks
<1>1. /\ Waiting(s2, O, z, TermQueue) = S \cup {c} /\ c \notin S
      /\ Cardinality(Waiting(s2, O, z, TermQueue)) = Cardinality(S) + 1
      /\ \A p : p # TermQueue => Waiting(s2, O, z, p) = Waiting(st, O, z, p)
      /\ Rdy(s2) = Rdy(st)
  <2>1. Joined(st, s2, O, z, TermQueue, c)
    BY WaitingJoin
  <2> QED
    BY <2>1 DEF Joined
<1>2. Chain(nx, first, last, S) /\ qu[TermQueue].amount_waiting = Cardinality(S)
      /\ (last # NULL => last \in S) /\ S \in SUBSET Task
  BY <1>0, ChainEnds DEF ListsOK
<1>3. \A u \in S \ {last} : n2[u] = nx[u]
  BY <1>0, <1>1, <1>2
<1>4. PICK start : start = IF first = NULL THEN c ELSE first
  OBVIOUS
<1>5. PICK T : T = S \cup {c}
  OBVIOUS
<1>6. Chain(n2, start, c, T)
  BY <1>0, <1>1, <1>2, <1>3, <1>4, <1>5, ChainAppend
<1>7. \A u \in Rdy(st) : n2[u] = nx[u]
  <2> TAKE u \in Rdy(st)
  <2>1. u \in Task /\ u # c /\ u \notin S
    BY StatesDiffer DEF Rdy, Waiting
  <2> QED
    BY <1>0, <1>2, <2>1, TaskOpsAssumption
<1>8. Chain(n2, f, l, Rdy(s2))
  BY <1>1, <1>7, ChainFrame DEF ListsOK
<1>9. s2[Idle] = st[Idle]
  BY LifecycleAssumption
<1>10. ASSUME NEW p \in L
       PROVE  /\ q2[p].amount_waiting = Cardinality(Waiting(s2, O, z, p))
              /\ EndsIn(q2[p], Waiting(s2, O, z, p))
  <2>1. p # TermQueue
    OBVIOUS
  <2> QED
    BY <1>0, <1>1, <2>1 DEF ListsOK
<1> QED
  BY <1>0, <1>1, <1>2, <1>4, <1>5, <1>6, <1>8, <1>9, <1>10 DEF ListsOK

\* signal_queue() wakes the first waiter and forgets the others.
LEMMA ListsSignal ==
  ASSUME NEW f, NEW l, NEW st, NEW nx, NEW qu, NEW O, NEW z, NEW L,
         ListsOK(f, l, st, nx, qu, O, z, L),
         NEW q \in L, TermQueue \notin L, NEW t, t = qu[q].first_task, t # NULL,
         NEW s2, s2[t] = TASK_STATE_READY, \A u \in Task \ {t} : s2[u] = st[u],
         NEW n2, n2[t] = NULL, l # NULL => n2[l] = t, \A u \in Task \ {t, l} : n2[u] = nx[u],
         NEW f2, f2 = IF f = NULL THEN t ELSE f,
         NEW q2, q2[q].amount_waiting = qu[q].amount_waiting - 1,
         q2[q].first_task = NULL, q2[q].last_task = NULL,
         \A p \in L \cup {TermQueue} : p # q => q2[p] = qu[p]
  PROVE  ListsOK(f2, t, s2, n2, q2, O, z, L)
<1>1. t \in Waiting(st, O, z, q) /\ qu[q].amount_waiting = Cardinality(Waiting(st, O, z, q))
  BY DEF ListsOK, EndsIn
<1>2. t \in Task /\ O[t] = q /\ t \notin Rdy(st)
  BY <1>1, StatesDiffer DEF Waiting, Rdy
<1>3. PICK M : M = L \ {q}
  OBVIOUS
<1>4. ListsOK(f, l, st, nx, q2, O, z, M)
  BY <1>3 DEF ListsOK
<1>5. \A p \in M \cup {TermQueue} : t \notin Waiting(st, O, z, p)
  BY <1>2, <1>3 DEF Waiting
<1>6. s2[t] \in {TASK_STATE_ZERO, TASK_STATE_READY}
  OBVIOUS
<1>7. ListsOK(f2, t, s2, n2, q2, O, z, M)
  BY <1>2, <1>4, <1>5, <1>6, ListsAppend
<1>8. Waiting(s2, O, z, q) = Waiting(st, O, z, q) \ {t}
  <2>1. ASSUME NEW u \in Task
        PROVE  u \in Waiting(s2, O, z, q) <=> u \in Waiting(st, O, z, q) /\ u # t
    <3>1. CASE u = t
      BY <3>1, StatesDiffer DEF Waiting
    <3>2. CASE u # t
      BY <3>2 DEF Waiting
    <3> QED
      BY <3>1, <3>2
  <2> QED
    BY <2>1 DEF Waiting
<1>9. Waiting(st, O, z, q) \in SUBSET Task
  BY DEF Waiting
<1>10. Cardinality(Waiting(s2, O, z, q)) = Cardinality(Waiting(st, O, z, q)) - 1
  BY <1>1, <1>8, <1>9, TasksFinite, FS_RemoveElement
<1>11. q2[q].amount_waiting = Cardinality(Waiting(s2, O, z, q))
  BY <1>1, <1>10
<1>12. EndsIn(q2[q], Waiting(s2, O, z, q))
  BY DEF EndsIn
<1> QED
  BY <1>3, <1>7, <1>11, <1>12 DEF ListsOK

\* The terminator takes the first task off the termination queue.
LEMMA ListsTake ==
  ASSUME NEW f, NEW l, NEW st, NEW nx, NEW qu, NEW O, NEW L,
         ListsOK(f, l, st, nx, qu, O, NULL, L), TermQueue \notin L,
         NEW z, z = qu[TermQueue].first_task, z # NULL,
         NEW q2, q2[TermQueue].amount_waiting = qu[TermQueue].amount_waiting - 1,
         q2[TermQueue].first_task = nx[z],
         q2[TermQueue].last_task = IF nx[z] = NULL THEN NULL ELSE qu[TermQueue].last_task,
         \A p \in L : q2[p] = qu[p]
  PROVE  ListsOK(f, l, st, nx, q2, O, z, L) /\ z \in Waiting(st, O, NULL, TermQueue)
<1> DEFINE S == Waiting(st, O, NULL, TermQueue)
<1>1. PICK last : last = qu[TermQueue].last_task
  OBVIOUS
<1>2. Chain(nx, z, last, S) /\ qu[TermQueue].amount_waiting = Cardinality(S)
  BY <1>1 DEF ListsOK
<1>3. z \in S /\ S \in SUBSET Task /\ O[z] = TermQueue
  BY <1>2, ChainEnds DEF Waiting
<1>4. Waiting(st, O, z, TermQueue) = S \ {z}
  BY <1>3, TaskOpsAssumption DEF Waiting
<1>5. ASSUME NEW p \in L PROVE Waiting(st, O, z, p) = Waiting(st, O, NULL, p)
  BY <1>3, TaskOpsAssumption DEF Waiting
<1>6. PICK a : a = nx[z]
  OBVIOUS
<1>7. PICK b : b = IF a = NULL THEN NULL ELSE last
  OBVIOUS
<1>8. Chain(nx, a, b, Waiting(st, O, z, TermQueue))
  BY <1>2, <1>4, <1>6, <1>7, ChainPop
<1>9. Cardinality(Waiting(st, O, z, TermQueue)) = Cardinality(S) - 1
  BY <1>3, <1>4, TasksFinite, FS_RemoveElement
<1>10. q2[TermQueue].first_task = a /\ q2[TermQueue].last_task = b
  BY <1>1, <1>6, <1>7
<1>11. q2[TermQueue].amount_waiting = Cardinality(Waiting(st, O, z, TermQueue))
  BY <1>2, <1>9
<1>12. ListsOK(f, l, st, nx, q2, O, z, L)
  BY <1>5, <1>8, <1>10, <1>11 DEF ListsOK
<1> QED
  BY <1>3, <1>12

\* The structure of the task that was taken apart is freed.
LEMMA ListsFree ==
  ASSUME NEW f, NEW l, NEW st, NEW nx, NEW qu, NEW O, NEW z, NEW L,
         ListsOK(f, l, st, nx, qu, O, z, L),
         z \in Task, z # Idle, st[z] = TASK_STATE_BLOCK,
         NEW s2, s2[z] = TASK_STATE_NONE, \A u \in Task \ {z} : s2[u] = st[u],
         NEW n2, \A u \in Task \ {z} : n2[u] = nx[u],
         NEW O2, \A u \in Task \ {z} : O2[u] = O[u],
         NEW M, M \subseteq L
  PROVE  ListsOK(f, l, s2, n2, qu, O2, NULL, M)
<1>1. Rdy(s2) = Rdy(st) /\ z \notin Rdy(st)
  <2>1. ASSUME NEW u \in Task PROVE u \in Rdy(s2) <=> u \in Rdy(st)
    <3>1. CASE u = z
      BY <3>1, StatesDiffer DEF Rdy
    <3>2. CASE u # z
      BY <3>2 DEF Rdy
    <3> QED
      BY <3>1, <3>2
  <2>2. z \notin Rdy(st)
    BY StatesDiffer DEF Rdy
  <2> QED
    BY <2>1, <2>2 DEF Rdy
<1>2. ASSUME NEW q PROVE Waiting(s2, O2, NULL, q) = Waiting(st, O, z, q)
  <2>1. ASSUME NEW u \in Task PROVE u \in Waiting(s2, O2, NULL, q) <=> u \in Waiting(st, O, z, q)
    <3>1. CASE u = z
      BY <3>1, StatesDiffer DEF Waiting
    <3>2. CASE u # z
      BY <3>2, TaskOpsAssumption DEF Waiting
    <3> QED
      BY <3>1, <3>2
  <2> QED
    BY <2>1 DEF Waiting
<1>3. \A u \in Rdy(st) \cup Waiting(st, O, z, TermQueue) : n2[u] = nx[u]
  BY <1>1 DEF Rdy, Waiting
<1>4. Chain(n2, f, l, Rdy(s2))
  BY <1>1, <1>3, ChainFrame DEF ListsOK
<1>5. Chain(n2, qu[TermQueue].first_task, qu[TermQueue].last_task, Waiting(st, O, z, TermQueue))
  BY <1>3, ChainFrame DEF ListsOK
<1>6. s2[Idle] = st[Idle]
  BY LifecycleAssumption
<1> QED
  BY <1>2, <1>4, <1>5, <1>6 DEF ListsOK

\* A queue is allocated.
LEMMA ListsNew ==
  ASSUME NEW f, NEW l, NEW st, NEW nx, NEW qu, NEW O, NEW z, NEW L,
         ListsOK(f, l, st, nx, qu, O, z, L),
         NEW q, q # TermQueue, \A t \in Task : st[t] = TASK_STATE_BLOCK => O[t] # q,
         NEW q2, q2[q] = EmptyQueue, \A p \in L \cup {TermQueue} : p # q => q2[p] = qu[p],
         NEW M, M = L \cup {q}
  PROVE  ListsOK(f, l, st, nx, q2, O, z, M)
<1>1. Waiting(st, O, z, q) = {}
  BY DEF Waiting
<1>2. /\ q2[q].amount_waiting = Cardinality(Waiting(st, O, z, q))
      /\ EndsIn(q2[q], Waiting(st, O, z, q))
  BY <1>1, FS_EmptySet DEF EmptyQueue, EndsIn
<1> QED
  BY <1>2 DEF ListsOK

\* What a task that is not blocked waits for does not matter.
LEMMA ListsOn ==
  ASSUME NEW f, NEW l, NEW st, NEW nx, NEW qu, NEW O, NEW z, NEW L,
         ListsOK(f, l, st, nx, qu, O, z, L),
         NEW c \in Task, st[c] # TASK_STATE_BLOCK,
         NEW O2, \A u \in Task \ {c} : O2[u] = O[u]
  PROVE  ListsOK(f, l, st, nx, qu, O2, z, L)
<1>1. ASSUME NEW q PROVE Waiting(st, O2, z, q) = Waiting(st, O, z, q)
  BY DEF Waiting
<1> QED
  BY <1>1 DEF ListsOK

-----------------------------------------------------------------------------
(***************************************************************************)
(* The calls of the kernel keep the lists.                                 *)
(***************************************************************************)
KernelOK(kk, O, z, L) ==
  /\ kk \in KernelState
  /\ ListsOK(kk.first_task, kk.last_task, kk.state, kk.next, kk.queue, O, z, L)

\* Only the current task runs; it may have blocked, and not be switched out yet.
OneRuns(kk) ==
  /\ kk.state[kk.current] \in {TASK_STATE_RUNNING, TASK_STATE_BLOCK}
  /\ \A t \in Task : kk.state[t] = TASK_STATE_RUNNING => t = kk.current

Blk(kk) == {t \in Task : kk.state[t] = TASK_STATE_BLOCK}

Non(kk) == {t \in Task : kk.state[t] = TASK_STATE_NONE}

LEMMA Fields ==
  ASSUME NEW kk \in KernelState
  PROVE  /\ kk.current \in Task /\ kk.first_task \in TaskOrNull /\ kk.last_task \in TaskOrNull
         /\ kk.sched_lock \in Nat /\ kk.task_switch_lock \in Nat /\ kk.postponed \in BOOLEAN
         /\ kk.ticks \in Nat /\ kk.state \in [Task -> TaskState]
         /\ kk.next \in [Task -> TaskOrNull] /\ kk.sem \in [Sem -> Semaphore]
         /\ kk.queue \in [Queue -> ResourceQueue]
BY DEF KernelState

\* The locks, the time slice and a postponed switch do not touch the lists.
LEMMA KernelSame ==
  ASSUME NEW kk, NEW O, NEW z, NEW L, KernelOK(kk, O, z, L), NEW r \in KernelState,
         r.current = kk.current, r.first_task = kk.first_task, r.last_task = kk.last_task,
         r.state = kk.state, r.next = kk.next, r.queue = kk.queue
  PROVE  /\ KernelOK(r, O, z, L) /\ (OneRuns(kk) => OneRuns(r))
         /\ Blk(r) = Blk(kk) /\ Non(r) = Non(kk)
BY DEF KernelOK, OneRuns, Blk, Non

\* What Requeue() leaves: nobody runs, and somebody is ready.
LEMMA Requeued ==
  ASSUME NEW kk, NEW O, NEW z, NEW L, KernelOK(kk, O, z, L), OneRuns(kk),
         kk.first_task # NULL, kk.last_task # NULL, NEW r, r = Requeue(kk)
  PROVE  /\ KernelOK(r, O, z, L) /\ r.first_task = kk.first_task
         /\ \A t \in Task : r.state[t] # TASK_STATE_RUNNING
         /\ Blk(r) = Blk(kk) /\ Non(r) = Non(kk)
         /\ r.task_switch_lock = kk.task_switch_lock /\ r.postponed = kk.postponed
<1> DEFINE c == kk.current
           l == kk.last_task
<1>1. kk \in KernelState /\ ListsOK(kk.first_task, l, kk.state, kk.next, kk.queue, O, z, L)
  BY DEF KernelOK
<1>2. /\ c \in Task /\ l \in Task /\ kk.state \in [Task -> TaskState]
      /\ kk.next \in [Task -> TaskOrNull]
  BY <1>1, Fields DEF TaskOrNull
<1>3. CASE kk.state[c] = TASK_STATE_RUNNING
  <2>1. r = [kk EXCEPT !.next = [@ EXCEPT ![c] = NULL, ![l] = c],
                       !.state[c] = TASK_STATE_READY,
                       !.last_task = c]
    BY <1>3 DEF Requeue
  <2>2. PICK n2 : n2 = [kk.next EXCEPT ![c] = NULL, ![l] = c]
    OBVIOUS
  <2>3. PICK s2 : s2 = [kk.state EXCEPT ![c] = TASK_STATE_READY]
    OBVIOUS
  <2>4. r = [kk EXCEPT !.next = n2, !.state = s2, !.last_task = c]
    BY <1>1, <2>1, <2>2, <2>3 DEF KernelState
  <2>5. s2 \in [Task -> TaskState] /\ s2[c] = TASK_STATE_READY
        /\ \A u \in Task \ {c} : s2[u] = kk.state[u]
    BY <1>2, <2>3 DEF TaskState
  <2>6. l \in Rdy(kk.state) /\ c \notin Rdy(kk.state) /\ c # l
    <3>1. l \in Rdy(kk.state)
      BY <1>1, ChainEnds DEF ListsOK
    <3>2. c \notin Rdy(kk.state)
      BY <1>3, StatesDiffer DEF Rdy
    <3> QED
      BY <3>1, <3>2
  <2>7. n2 \in [Task -> TaskOrNull] /\ n2[c] = NULL /\ n2[l] = c
        /\ \A u \in Task \ {c, l} : n2[u] = kk.next[u]
    BY <1>2, <2>2, <2>6 DEF TaskOrNull
  <2>8. c \in TaskOrNull /\ s2 \in [Task -> TaskState]
    BY <1>2, <2>5 DEF TaskOrNull
  <2>9. r \in KernelState
    BY <1>1, <2>4, <2>7, <2>8 DEF KernelState
  <2>10. /\ r.next = n2 /\ r.state = s2 /\ r.last_task = c /\ r.first_task = kk.first_task
         /\ r.queue = kk.queue /\ r.task_switch_lock = kk.task_switch_lock
         /\ r.postponed = kk.postponed
    BY <1>1, <2>4 DEF KernelState
  <2>11. \A q \in L \cup {TermQueue} : c \notin Waiting(kk.state, O, z, q)
    BY <1>3, StatesDiffer DEF Waiting
  <2>12. s2[c] \in {TASK_STATE_ZERO, TASK_STATE_READY}
    BY <2>5
  <2>13. ListsOK(kk.first_task, c, s2, n2, kk.queue, O, z, L)
    BY <1>1, <1>2, <2>5, <2>6, <2>7, <2>11, <2>12, ListsAppend
  <2>14. \A t \in Task : s2[t] # TASK_STATE_RUNNING
    BY <1>3, <2>5, StatesDiffer DEF OneRuns
  <2>15. Blk(r) = Blk(kk) /\ Non(r) = Non(kk)
    <3>1. ASSUME NEW u \in Task
          PROVE  /\ s2[u] = TASK_STATE_BLOCK <=> kk.state[u] = TASK_STATE_BLOCK
                 /\ s2[u] = TASK_STATE_NONE <=> kk.state[u] = TASK_STATE_NONE
      <4>1. CASE u = c
        BY <4>1, <1>3, <2>5, StatesDiffer
      <4>2. CASE u # c
        BY <4>2, <2>5
      <4> QED
        BY <4>1, <4>2
    <3> QED
      BY <2>10, <3>1 DEF Blk, Non
  <2> QED
    BY <2>9, <2>10, <2>13, <2>14, <2>15 DEF KernelOK
<1>4. CASE kk.state[c] # TASK_STATE_RUNNING
  <2>1. r = kk
    BY <1>4 DEF Requeue
  <2> QED
    BY <1>4, <2>1 DEF OneRuns
<1> QED
  BY <1>3, <1>4

LEMMA Popped ==
  ASSUME NEW kk, NEW O, NEW z, NEW L, KernelOK(kk, O, z, L), kk.first_task # NULL,
         \A t \in Task : kk.state[t] # TASK_STATE_RUNNING, NEW r, r = PopFirst(kk)
  PROVE  /\ KernelOK(r, O, z, L) /\ OneRuns(r) /\ r.state[r.current] = TASK_STATE_RUNNING
         /\ Blk(r) = Blk(kk) /\ Non(r) = Non(kk)
         /\ r.task_switch_lock = kk.task_switch_lock /\ r.postponed = kk.postponed
<1> DEFINE f == kk.first_task
           l == kk.last_task
<1>1. kk \in KernelState /\ ListsOK(f, l, kk.state, kk.next, kk.queue, O, z, L)
  BY DEF KernelOK
<1>2. /\ f \in Task /\ l \in TaskOrNull /\ kk.state \in [Task -> TaskState]
      /\ kk.next \in [Task -> TaskOrNull] /\ TASK_DEFAULT_TIME \in Nat
  BY <1>1, Fields, TaskOpsAssumption DEF TaskOrNull
<1>3. PICK f2 : f2 = IF f = l THEN NULL ELSE kk.next[f]
  OBVIOUS
<1>4. PICK l2 : l2 = IF f = l THEN NULL ELSE l
  OBVIOUS
<1>5. PICK s2 : s2 = [kk.state EXCEPT ![f] = TASK_STATE_RUNNING]
  OBVIOUS
<1>6. PICK n2 : n2 = [kk.next EXCEPT ![f] = NULL]
  OBVIOUS
<1>7. r = [kk EXCEPT !.current = f, !.first_task = f2, !.last_task = l2, !.state = s2,
                     !.next = n2, !.ticks = TASK_DEFAULT_TIME]
  BY <1>1, <1>3, <1>4, <1>5, <1>6 DEF PopFirst, KernelState
<1>8. f2 \in TaskOrNull /\ l2 \in TaskOrNull
  BY <1>2, <1>3, <1>4 DEF TaskOrNull
<1>9. s2 \in [Task -> TaskState] /\ s2[f] = TASK_STATE_RUNNING
      /\ \A u \in Task \ {f} : s2[u] = kk.state[u]
  BY <1>2, <1>5 DEF TaskState
<1>10. n2 \in [Task -> TaskOrNull] /\ \A u \in Task \ {f} : n2[u] = kk.next[u]
  BY <1>2, <1>6 DEF TaskOrNull
<1>11. r \in KernelState
  BY <1>1, <1>2, <1>7, <1>8, <1>9, <1>10 DEF KernelState
<1>12. /\ r.current = f /\ r.first_task = f2 /\ r.last_task = l2 /\ r.state = s2 /\ r.next = n2
       /\ r.queue = kk.queue /\ r.task_switch_lock = kk.task_switch_lock
       /\ r.postponed = kk.postponed
  BY <1>1, <1>7 DEF KernelState
<1>13. ListsOK(f2, l2, s2, n2, kk.queue, O, z, L)
  BY <1>1, <1>3, <1>4, <1>9, <1>10, ListsPop
<1>14. f \in Rdy(kk.state)
  BY <1>1, ChainEnds DEF ListsOK
<1>15. Blk(r) = Blk(kk) /\ Non(r) = Non(kk)
  <2>1. ASSUME NEW u \in Task
        PROVE  /\ s2[u] = TASK_STATE_BLOCK <=> kk.state[u] = TASK_STATE_BLOCK
               /\ s2[u] = TASK_STATE_NONE <=> kk.state[u] = TASK_STATE_NONE
    <3>1. CASE u = f
      BY <3>1, <1>9, <1>14, StatesDiffer DEF Rdy
    <3>2. CASE u # f
      BY <3>2, <1>9
    <3> QED
      BY <3>1, <3>2
  <2> QED
    BY <1>12, <2>1 DEF Blk, Non
<1>16. OneRuns(r) /\ r.state[r.current] = TASK_STATE_RUNNING
  BY <1>9, <1>12 DEF OneRuns
<1> QED
  BY <1>11, <1>12, <1>13, <1>15, <1>16 DEF KernelOK

\* yield() with the lock free: a task that is not blocked runs afterwards.
LEMMA Yielded ==
  ASSUME NEW kk, NEW O, NEW z, NEW L, KernelOK(kk, O, z, L), OneRuns(kk),
         kk.task_switch_lock = 0, NEW r, r = yield(kk)
  PROVE  /\ KernelOK(r, O, z, L) /\ OneRuns(r) /\ r.state[r.current] = TASK_STATE_RUNNING
         /\ Blk(r) = Blk(kk) /\ Non(r) = Non(kk)
         /\ r.task_switch_lock = 0 /\ r.postponed = kk.postponed
<1>1. kk \in KernelState /\ Chain(kk.next, kk.first_task, kk.last_task, Rdy(kk.state))
      /\ kk.state[Idle] \notin {TASK_STATE_BLOCK, TASK_STATE_NONE}
  BY DEF KernelOK, ListsOK
<1>2. kk.first_task = NULL <=> kk.last_task = NULL
  BY <1>1, ChainEnds
<1>3. ~(kk.task_switch_lock > 0)
  OBVIOUS
<1>4. CASE kk.first_task = NULL
  <2>1. r = kk
    BY <1>3, <1>4 DEF yield
  <2>2. Rdy(kk.state) = {}
    BY <1>1, <1>4, ChainEnds
  <2>3. kk.state[Idle] = TASK_STATE_RUNNING
    BY <1>1, <2>2, LifecycleAssumption, Fields DEF Rdy, TaskState
  <2>4. kk.current = Idle
    BY <2>3, LifecycleAssumption DEF OneRuns
  <2> QED
    BY <2>1, <2>3, <2>4
<1>5. CASE kk.first_task # NULL
  <2>1. r = PopFirst(Requeue(kk))
    BY <1>2, <1>3, <1>5 DEF yield
  <2>2. PICK a : a = Requeue(kk)
    OBVIOUS
  <2>3. /\ KernelOK(a, O, z, L) /\ a.first_task = kk.first_task
        /\ \A t \in Task : a.state[t] # TASK_STATE_RUNNING
        /\ Blk(a) = Blk(kk) /\ Non(a) = Non(kk)
        /\ a.task_switch_lock = kk.task_switch_lock /\ a.postponed = kk.postponed
    BY <1>2, <1>5, <2>2, Requeued
  <2>4. r = PopFirst(a) /\ a.first_task # NULL
    BY <1>5, <2>1, <2>2, <2>3
  <2>5. /\ KernelOK(r, O, z, L) /\ OneRuns(r) /\ r.state[r.current] = TASK_STATE_RUNNING
        /\ Blk(r) = Blk(a) /\ Non(r) = Non(a)
        /\ r.task_switch_lock = a.task_switch_lock /\ r.postponed = a.postponed
    BY <2>3, <2>4, Popped
  <2> QED
    BY <2>3, <2>5
<1> QED
  BY <1>4, <1>5

LEMMA Locked ==
  ASSUME NEW kk, NEW O, NEW z, NEW L, KernelOK(kk, O, z, L),
         NEW r, r = lock_task_switches(kk)
  PROVE  /\ KernelOK(r, O, z, L) /\ (OneRuns(kk) => OneRuns(r))
         /\ r.current = kk.current /\ r.state = kk.state /\ r.queue = kk.queue
         /\ Blk(r) = Blk(kk) /\ Non(r) = Non(kk)
         /\ r.task_switch_lock = kk.task_switch_lock + 1 /\ r.postponed = kk.postponed
<1>1. kk \in KernelState
  BY DEF KernelOK
<1>2. r = [kk EXCEPT !.task_switch_lock = @ + 1] /\ kk.task_switch_lock + 1 \in Nat
  BY <1>1, Fields DEF lock_task_switches
<1>3. /\ r \in KernelState /\ r.task_switch_lock = kk.task_switch_lock + 1
      /\ r.current = kk.current /\ r.first_task = kk.first_task /\ r.last_task = kk.last_task
      /\ r.state = kk.state /\ r.next = kk.next /\ r.queue = kk.queue
      /\ r.postponed = kk.postponed
  BY <1>1, <1>2 DEF KernelState
<1> QED
  BY <1>3, KernelSame

\* unlock_task_switches() of the outermost lock makes the switch that was
\* postponed, so that a task that has blocked does not run on.
LEMMA Unlocked ==
  ASSUME NEW kk, NEW O, NEW z, NEW L, KernelOK(kk, O, z, L), OneRuns(kk),
         kk.task_switch_lock = 1, kk.state[kk.current] = TASK_STATE_BLOCK => kk.postponed,
         NEW r, r = unlock_task_switches(kk)
  PROVE  /\ KernelOK(r, O, z, L) /\ OneRuns(r) /\ r.state[r.current] = TASK_STATE_RUNNING
         /\ Blk(r) = Blk(kk) /\ Non(r) = Non(kk)
         /\ r.task_switch_lock = 0
<1>1. kk \in KernelState
  BY DEF KernelOK
<1>2. PICK u : u = [kk EXCEPT !.task_switch_lock = @ - 1]
  OBVIOUS
<1>3. /\ u \in KernelState /\ u.task_switch_lock = 0
      /\ u.current = kk.current /\ u.first_task = kk.first_task /\ u.last_task = kk.last_task
      /\ u.state = kk.state /\ u.next = kk.next /\ u.queue = kk.queue
      /\ u.postponed = kk.postponed
  BY <1>1, <1>2 DEF KernelState
<1>4. KernelOK(u, O, z, L) /\ OneRuns(u) /\ Blk(u) = Blk(kk) /\ Non(u) = Non(kk)
  BY <1>3, KernelSame
<1>5. CASE kk.postponed
  <2>1. r = yield([u EXCEPT !.postponed = FALSE])
    BY <1>2, <1>3, <1>5 DEF unlock_task_switches
  <2>2. PICK v : v = [u EXCEPT !.postponed = FALSE]
    OBVIOUS
  <2>3. /\ v \in KernelState /\ v.task_switch_lock = 0
        /\ v.current = u.current /\ v.first_task = u.first_task /\ v.last_task = u.last_task
        /\ v.state = u.state /\ v.next = u.next /\ v.queue = u.queue
    BY <1>3, <2>2 DEF KernelState
  <2>4. KernelOK(v, O, z, L) /\ OneRuns(v) /\ Blk(v) = Blk(u) /\ Non(v) = Non(u)
    BY <1>4, <2>3, KernelSame
  <2>5. r = yield(v)
    BY <2>1, <2>2
  <2> QED
    BY <1>4, <2>3, <2>4, <2>5, Yielded
<1>6. CASE ~kk.postponed
  <2>1. r = u
    BY <1>2, <1>3, <1>6 DEF unlock_task_switches
  <2>2. u.state[u.current] = TASK_STATE_RUNNING
    BY <1>3, <1>6 DEF OneRuns
  <2> QED
    BY <1>3, <1>4, <2>1, <2>2
<1> QED
  BY <1>5, <1>6

\* unlock_task_switches() of an inner lock only counts.
LEMMA UnlockedInner ==
  ASSUME NEW kk, NEW O, NEW z, NEW L, KernelOK(kk, O, z, L), kk.task_switch_lock = 2,
         NEW r, r = unlock_task_switches(kk)
  PROVE  /\ KernelOK(r, O, z, L) /\ (OneRuns(kk) => OneRuns(r))
         /\ r.current = kk.current /\ r.state = kk.state
         /\ Blk(r) = Blk(kk) /\ Non(r) = Non(kk)
         /\ r.task_switch_lock = 1 /\ r.postponed = kk.postponed
<1>1. kk \in KernelState
  BY DEF KernelOK
<1>2. PICK u : u = [kk EXCEPT !.task_switch_lock = @ - 1]
  OBVIOUS
<1>3. /\ u \in KernelState /\ u.task_switch_lock = 1
      /\ u.current = kk.current /\ u.first_task = kk.first_task /\ u.last_task = kk.last_task
      /\ u.state = kk.state /\ u.next = kk.next /\ u.queue = kk.queue
      /\ u.postponed = kk.postponed
  BY <1>1, <1>2 DEF KernelState
<1>4. r = u
  BY <1>2, <1>3 DEF unlock_task_switches
<1> QED
  BY <1>3, <1>4, KernelSame

\* block_task() with the lock held.
BlockStep(kk, r) ==
  /\ r \in KernelState /\ r.state = [kk.state EXCEPT ![kk.current] = TASK_STATE_BLOCK]
  /\ r.postponed = TRUE
  /\ r.current = kk.current /\ r.first_task = kk.first_task /\ r.last_task = kk.last_task
  /\ r.next = kk.next /\ r.queue = kk.queue /\ r.task_switch_lock = kk.task_switch_lock

LEMMA BlockFields ==
  ASSUME NEW kk \in KernelState, kk.task_switch_lock > 0, NEW r, r = block_task(kk)
  PROVE  BlockStep(kk, r)
<1>0. PICK s2 : s2 = [kk.state EXCEPT ![kk.current] = TASK_STATE_BLOCK]
  OBVIOUS
<1>1. s2 \in [Task -> TaskState]
  BY <1>0, Fields DEF TaskState
<1>2. PICK a : a = [kk EXCEPT !.state[kk.current] = TASK_STATE_BLOCK]
  OBVIOUS
<1>3. a = [kk EXCEPT !.state = s2]
  BY <1>0, <1>2 DEF KernelState
<1>4. a.task_switch_lock > 0
  BY <1>3 DEF KernelState
<1>5. r = [a EXCEPT !.postponed = TRUE]
  BY <1>2, <1>4 DEF block_task, yield
<1>6. r = [kk EXCEPT !.state = s2, !.postponed = TRUE]
  BY <1>3, <1>5 DEF KernelState
<1>7. /\ r \in KernelState /\ r.state = s2 /\ r.postponed = TRUE
      /\ r.current = kk.current /\ r.first_task = kk.first_task /\ r.last_task = kk.last_task
      /\ r.next = kk.next /\ r.queue = kk.queue /\ r.task_switch_lock = kk.task_switch_lock
  BY <1>1, <1>6 DEF KernelState
<1> QED
  BY <1>0, <1>7 DEF BlockStep

LEMMA BlockedSets ==
  ASSUME NEW st \in [Task -> TaskState], NEW c \in Task, st[c] = TASK_STATE_RUNNING,
         NEW s2, s2 = [st EXCEPT ![c] = TASK_STATE_BLOCK]
  PROVE  /\ {t \in Task : s2[t] = TASK_STATE_BLOCK} = {t \in Task : st[t] = TASK_STATE_BLOCK} \cup {c}
         /\ {t \in Task : s2[t] = TASK_STATE_NONE} = {t \in Task : st[t] = TASK_STATE_NONE}
         /\ s2[c] = TASK_STATE_BLOCK /\ \A u \in Task \ {c} : s2[u] = st[u]
<1>1. s2[c] = TASK_STATE_BLOCK /\ \A u \in Task \ {c} : s2[u] = st[u]
  OBVIOUS
<1>2. ASSUME NEW u \in Task
      PROVE  /\ s2[u] = TASK_STATE_BLOCK <=> st[u] = TASK_STATE_BLOCK \/ u = c
             /\ s2[u] = TASK_STATE_NONE <=> st[u] = TASK_STATE_NONE
  <2>1. CASE u = c
    BY <1>1, <2>1, StatesDiffer
  <2>2. CASE u # c
    BY <1>1, <2>2
  <2> QED
    BY <2>1, <2>2
<1> QED
  BY <1>1, <1>2

\* The links and the queue WaitBody() leaves for block_task().
WaitLinks(kk, q, c, n2, q2) ==
  /\ n2 \in [Task -> TaskOrNull] /\ n2[c] = NULL
  /\ kk.queue[q].first_task # NULL => n2[kk.queue[q].last_task] = c
  /\ \A u \in Task \ {c, kk.queue[q].last_task} : n2[u] = kk.next[u]
  /\ q2 \in [Queue -> ResourceQueue]
  /\ q2[q].amount_waiting = kk.queue[q].amount_waiting + 1
  /\ q2[q].first_task = IF kk.queue[q].first_task = NULL THEN c ELSE kk.queue[q].first_task
  /\ q2[q].last_task = c
  /\ \A p \in Queue : p # q => q2[p] = kk.queue[p]

WaitStep(kk, q, c, r) ==
  /\ r \in KernelState /\ r.state = [kk.state EXCEPT ![c] = TASK_STATE_BLOCK]
  /\ r.postponed = TRUE
  /\ r.current = c /\ r.first_task = kk.first_task /\ r.last_task = kk.last_task
  /\ r.task_switch_lock = kk.task_switch_lock
  /\ WaitLinks(kk, q, c, r.next, r.queue)

LEMMA WaitEntry ==
  ASSUME NEW w \in ResourceQueue, NEW c \in Task, NEW e,
         e = [w EXCEPT !.amount_waiting = @ + 1, !.last_task = c]
  PROVE  e = [amount_waiting |-> w.amount_waiting + 1, first_task |-> w.first_task,
              last_task |-> c]
<1>1. c \in TaskOrNull
  BY DEF TaskOrNull
<1>2. w.amount_waiting + 1 \in Nat
  BY DEF ResourceQueue
<1>3. /\ e \in ResourceQueue /\ e.amount_waiting = w.amount_waiting + 1
      /\ e.first_task = w.first_task /\ e.last_task = c
  BY <1>1, <1>2 DEF ResourceQueue
<1>4. e = [amount_waiting |-> e.amount_waiting, first_task |-> e.first_task,
           last_task |-> e.last_task]
  BY <1>3 DEF ResourceQueue
<1> QED
  BY <1>3, <1>4

LEMMA WaitFields ==
  ASSUME NEW kk \in KernelState, kk.task_switch_lock > 0, NEW q \in Queue,
         NEW c, c = kk.current,
         kk.queue[q].first_task # NULL => kk.queue[q].last_task \in Task \ {c},
         NEW r, r = WaitBody(kk, q)
  PROVE  WaitStep(kk, q, c, r)
<1> DEFINE w == kk.queue[q]
<1>0. PICK s2 : s2 = [kk.state EXCEPT ![c] = TASK_STATE_BLOCK]
  OBVIOUS
<1>1. /\ c \in Task /\ kk.next \in [Task -> TaskOrNull] /\ kk.queue \in [Queue -> ResourceQueue]
      /\ w \in ResourceQueue
  BY Fields
<1>2. w.amount_waiting \in Nat /\ w.first_task \in TaskOrNull /\ w.last_task \in TaskOrNull
  BY <1>1 DEF ResourceQueue
<1>3. PICK x : x = IF w.first_task = NULL THEN c ELSE w.first_task
  OBVIOUS
<1>4. PICK e : e = [amount_waiting |-> w.amount_waiting + 1, first_task |-> x, last_task |-> c]
  OBVIOUS
<1>5. e \in ResourceQueue
  BY <1>1, <1>2, <1>3, <1>4 DEF ResourceQueue, TaskOrNull
<1>6. PICK q2 : q2 = [kk.queue EXCEPT ![q] = e]
  OBVIOUS
<1>7. PICK n1 : n1 = IF w.first_task = NULL THEN kk.next ELSE [kk.next EXCEPT ![w.last_task] = c]
  OBVIOUS
<1>8. PICK n2 : n2 = [n1 EXCEPT ![c] = NULL]
  OBVIOUS
<1>9. PICK a : a = IF w.first_task = NULL THEN [kk EXCEPT !.queue[q].first_task = c]
                                         ELSE [kk EXCEPT !.next[w.last_task] = c]
  OBVIOUS
<1>10. PICK b : b = [a EXCEPT !.queue[q].amount_waiting = @ + 1,
                              !.queue[q].last_task = c, !.next[c] = NULL]
  OBVIOUS
<1>11. r = block_task(b)
  BY <1>9, <1>10 DEF WaitBody
<1>12. b = [kk EXCEPT !.queue = q2, !.next = n2]
  <2>1. CASE w.first_task = NULL
    <3>1. a = [kk EXCEPT !.queue[q].first_task = c]
      BY <1>9, <2>1
    <3>2. PICK e1 : e1 = [w EXCEPT !.first_task = c]
      OBVIOUS
    <3>3. a = [kk EXCEPT !.queue = [kk.queue EXCEPT ![q] = e1]]
      BY <3>1, <3>2 DEF KernelState
    <3>4. a.queue = [kk.queue EXCEPT ![q] = e1] /\ a.next = n1
      BY <1>7, <2>1, <3>3 DEF KernelState
    <3>5. a.queue[q] = e1
      BY <1>1, <3>4
    <3>6. [e1 EXCEPT !.amount_waiting = @ + 1, !.last_task = c] = e
      <4>1. PICK d : d = [e1 EXCEPT !.amount_waiting = @ + 1, !.last_task = c]
        OBVIOUS
      <4>2. e1.first_task = x
        BY <1>1, <1>3, <2>1, <3>2 DEF ResourceQueue
      <4>3. d = [amount_waiting |-> w.amount_waiting + 1, first_task |-> e1.first_task,
                 last_task |-> c]
        <5>1. e1 \in ResourceQueue /\ e1.amount_waiting = w.amount_waiting
          BY <1>1, <3>2 DEF ResourceQueue, TaskOrNull
        <5>2. d = [amount_waiting |-> e1.amount_waiting + 1, first_task |-> e1.first_task,
                   last_task |-> c]
          BY <1>1, <4>1, <5>1, WaitEntry
        <5> QED
          BY <5>1, <5>2
      <4> QED
        BY <1>4, <4>1, <4>2, <4>3
    <3>7. [a.queue EXCEPT ![q].amount_waiting = @ + 1, ![q].last_task = c] = q2
      BY <1>1, <1>6, <3>4, <3>5, <3>6
    <3>8. b = [a EXCEPT !.queue = q2, !.next = n2]
      BY <1>8, <1>10, <3>3, <3>4, <3>7 DEF KernelState
    <3> QED
      BY <3>3, <3>8 DEF KernelState
  <2>2. CASE w.first_task # NULL
    <3>1. a = [kk EXCEPT !.next[w.last_task] = c]
      BY <1>9, <2>2
    <3>2. a = [kk EXCEPT !.next = n1]
      BY <1>7, <2>2, <3>1 DEF KernelState
    <3>3. a.queue = kk.queue /\ a.next = n1
      BY <3>2 DEF KernelState
    <3>4. [w EXCEPT !.amount_waiting = @ + 1, !.last_task = c] = e
      <4>1. PICK d : d = [w EXCEPT !.amount_waiting = @ + 1, !.last_task = c]
        OBVIOUS
      <4>2. d = [amount_waiting |-> w.amount_waiting + 1, first_task |-> w.first_task,
                 last_task |-> c]
        BY <1>1, <4>1, WaitEntry
      <4>3. w.first_task = x
        BY <1>3, <2>2
      <4> QED
        BY <1>4, <4>1, <4>2, <4>3
    <3>5. [a.queue EXCEPT ![q].amount_waiting = @ + 1, ![q].last_task = c] = q2
      BY <1>1, <1>6, <3>3, <3>4
    <3>6. b = [a EXCEPT !.queue = q2, !.next = n2]
      BY <1>8, <1>10, <3>2, <3>3, <3>5 DEF KernelState
    <3> QED
      BY <3>2, <3>6 DEF KernelState
  <2> QED
    BY <2>1, <2>2
<1>13. n2 \in [Task -> TaskOrNull] /\ n2[c] = NULL
       /\ (w.first_task # NULL => n2[w.last_task] = c)
       /\ \A u \in Task \ {c, w.last_task} : n2[u] = kk.next[u]
  BY <1>1, <1>7, <1>8 DEF TaskOrNull
<1>14. q2 \in [Queue -> ResourceQueue] /\ q2[q] = e /\ \A p \in Queue : p # q => q2[p] = kk.queue[p]
  BY <1>1, <1>5, <1>6
<1>15. WaitLinks(kk, q, c, n2, q2)
  BY <1>3, <1>4, <1>13, <1>14 DEF WaitLinks
<1>16. /\ b \in KernelState /\ b.next = n2 /\ b.queue = q2 /\ b.state = kk.state
       /\ b.current = c /\ b.first_task = kk.first_task /\ b.last_task = kk.last_task
       /\ b.task_switch_lock = kk.task_switch_lock
  BY <1>12, <1>13, <1>14 DEF KernelState
<1>17. b.task_switch_lock > 0
  BY <1>16
<1>18. /\ r \in KernelState /\ r.state = s2 /\ r.postponed = TRUE
       /\ r.current = b.current /\ r.first_task = b.first_task /\ r.last_task = b.last_task
       /\ r.next = b.next /\ r.queue = b.queue /\ r.task_switch_lock = b.task_switch_lock
  <2>1. BlockStep(b, r)
    BY <1>11, <1>16, <1>17, BlockFields
  <2> QED
    BY <1>0, <1>16, <2>1 DEF BlockStep
<1> QED
  BY <1>0, <1>15, <1>16, <1>18 DEF WaitStep

\* WaitBody(): the running task blocks on a queue.
BlockedOn(kk, O, z, L, c, r) ==
  /\ KernelOK(r, O, z, L) /\ OneRuns(r) /\ r.current = c /\ r.postponed = TRUE
  /\ r.task_switch_lock = kk.task_switch_lock
  /\ Blk(r) = Blk(kk) \cup {c} /\ Non(r) = Non(kk)

LEMMA Waited ==
  ASSUME NEW kk, NEW O, NEW z, NEW L, KernelOK(kk, O, z, L), OneRuns(kk),
         kk.task_switch_lock > 0, L \subseteq Queue, TermQueue \notin L,
         NEW q \in L \cup {TermQueue}, NEW c, c = kk.current, c # Idle, c # z,
         kk.state[c] = TASK_STATE_RUNNING, O[c] = q, NEW r, r = WaitBody(kk, q)
  PROVE  BlockedOn(kk, O, z, L, c, r)
<1> DEFINE w == kk.queue[q]
<1>1. kk \in KernelState
      /\ ListsOK(kk.first_task, kk.last_task, kk.state, kk.next, kk.queue, O, z, L)
  BY DEF KernelOK
<1>2. c \in Task /\ kk.state \in [Task -> TaskState] /\ q \in Queue
  BY <1>1, Fields, LifecycleAssumption
<1>3. /\ w.first_task = NULL => w.last_task = NULL
      /\ w.first_task # NULL => w.last_task \in Task \ {c} /\ w.last_task # NULL
  <2>1. \A t \in Waiting(kk.state, O, z, q) : t \in Task \ {c} /\ t # NULL
    BY StatesDiffer, TaskOpsAssumption DEF Waiting
  <2>2. CASE q \in L
    <3>1. EndsIn(w, Waiting(kk.state, O, z, q))
      BY <1>1, <2>2 DEF ListsOK
    <3> QED
      BY <2>1, <3>1 DEF EndsIn
  <2>3. CASE q = TermQueue
    <3>1. Chain(kk.next, w.first_task, w.last_task, Waiting(kk.state, O, z, q))
      BY <1>1, <2>3 DEF ListsOK
    <3>2. /\ w.first_task = NULL <=> w.last_task = NULL
          /\ w.last_task # NULL => w.last_task \in Waiting(kk.state, O, z, q)
      BY <3>1, ChainEnds
    <3> QED
      BY <2>1, <3>2
  <2> QED
    BY <2>2, <2>3
<1>4. PICK s2 : s2 = [kk.state EXCEPT ![c] = TASK_STATE_BLOCK]
  OBVIOUS
<1>5. /\ r \in KernelState /\ r.state = s2 /\ r.postponed = TRUE
      /\ r.current = c /\ r.first_task = kk.first_task /\ r.last_task = kk.last_task
      /\ r.task_switch_lock = kk.task_switch_lock
      /\ WaitLinks(kk, q, c, r.next, r.queue)
  <2>1. WaitStep(kk, q, c, r)
    BY <1>1, <1>2, <1>3, WaitFields
  <2> QED
    BY <1>4, <2>1 DEF WaitStep
<1>6. s2[c] = TASK_STATE_BLOCK /\ \A u \in Task \ {c} : s2[u] = kk.state[u]
  BY <1>2, <1>4
<1>7. Blk(r) = Blk(kk) \cup {c} /\ Non(r) = Non(kk)
  BY <1>2, <1>4, <1>5, BlockedSets DEF Blk, Non
<1>8. OneRuns(r)
  BY <1>5, <1>6, StatesDiffer DEF OneRuns
<1>9. PICK n2 : n2 = r.next
  OBVIOUS
<1>10. PICK q2 : q2 = r.queue
  OBVIOUS
<1>11. PICK first : first = w.first_task
  OBVIOUS
<1>12. PICK last : last = w.last_task
  OBVIOUS
<1>13. /\ n2[c] = NULL /\ (last # NULL => n2[last] = c)
       /\ \A u \in Task \ {c, last} : n2[u] = kk.next[u]
       /\ q2[q].amount_waiting = kk.queue[q].amount_waiting + 1
       /\ q2[q].first_task = IF first = NULL THEN c ELSE first
       /\ q2[q].last_task = c
       /\ \A p \in Queue : p # q => q2[p] = kk.queue[p]
  BY <1>3, <1>5, <1>9, <1>10, <1>11, <1>12 DEF WaitLinks
<1>14. TermQueue \in Queue
  BY LifecycleAssumption
<1>15. ListsOK(kk.first_task, kk.last_task, s2, n2, q2, O, z, L)
  <2>1. CASE q \in L
    <3>1. \A p \in L \cup {TermQueue} : p # q => q2[p] = kk.queue[p]
      BY <1>13, <1>14
    <3>2. q2[q].first_task = IF kk.queue[q].first_task = NULL THEN c ELSE kk.queue[q].first_task
      BY <1>11, <1>13
    <3>3. \A u \in Task \ {c, kk.queue[q].last_task} : n2[u] = kk.next[u]
      BY <1>12, <1>13
    <3> QED
      BY <1>1, <1>2, <1>6, <1>13, <2>1, <3>1, <3>2, <3>3, ListsWait
  <2>2. CASE q = TermQueue
    <3>1. \A p \in L : q2[p] = kk.queue[p]
      BY <1>13, <2>2
    <3>2. ExitLinks(kk.next, n2, kk.queue, q2, c, L)
      BY <1>11, <1>12, <1>13, <2>2, <3>1 DEF ExitLinks
    <3> QED
      BY <1>1, <1>2, <1>6, <2>2, <3>2, ListsExit
  <2> QED
    BY <2>1, <2>2
<1> QED
  BY <1>5, <1>7, <1>8, <1>9, <1>10, <1>15 DEF KernelOK, BlockedOn

\* unblock_task() and copy_task(): state st[t] of a task that is on no list,
\* and the end of the ready list.
LinkStep(kk, t, r) ==
  /\ r \in KernelState /\ r.state = [kk.state EXCEPT ![t] = TASK_STATE_READY]
  /\ r.first_task = (IF kk.first_task = NULL THEN t ELSE kk.first_task) /\ r.last_task = t
  /\ r.next[t] = NULL /\ (kk.last_task # NULL => r.next[kk.last_task] = t)
  /\ \A u \in Task \ {t, kk.last_task} : r.next[u] = kk.next[u]
  /\ r.current = kk.current /\ r.queue = kk.queue
  /\ r.task_switch_lock = kk.task_switch_lock /\ r.postponed = kk.postponed

LEMMA LinkFields ==
  ASSUME NEW kk \in KernelState, kk.first_task = NULL <=> kk.last_task = NULL,
         NEW t \in Task, t # kk.last_task, NEW r, r = unblock_task(kk, t) \/ r = copy_task(kk, t)
  PROVE  LinkStep(kk, t, r)
<1> DEFINE l == kk.last_task
<1>1. /\ kk.state \in [Task -> TaskState] /\ kk.next \in [Task -> TaskOrNull]
      /\ l \in TaskOrNull /\ kk.first_task \in TaskOrNull /\ t \in TaskOrNull
  BY Fields DEF TaskOrNull
<1>2. PICK s2 : s2 = [kk.state EXCEPT ![t] = TASK_STATE_READY]
  OBVIOUS
<1>3. PICK n1 : n1 = [kk.next EXCEPT ![t] = NULL]
  OBVIOUS
<1>4. PICK a : a = [kk EXCEPT !.state[t] = TASK_STATE_READY, !.next[t] = NULL]
  OBVIOUS
<1>5. r = LinkLast(a, t)
  BY <1>4 DEF unblock_task, copy_task
<1>6. a = [kk EXCEPT !.state = s2, !.next = n1]
  BY <1>2, <1>3, <1>4 DEF KernelState
<1>7. /\ s2 \in [Task -> TaskState] /\ n1 \in [Task -> TaskOrNull]
      /\ n1[t] = NULL /\ \A u \in Task \ {t} : n1[u] = kk.next[u]
  BY <1>1, <1>2, <1>3 DEF TaskState, TaskOrNull
<1>8. a.last_task = l /\ a.first_task = kk.first_task /\ a.next = n1
  BY <1>6 DEF KernelState
<1>9. CASE l = NULL
  <2>1. r = [a EXCEPT !.first_task = t, !.last_task = t]
    BY <1>5, <1>8, <1>9 DEF LinkLast
  <2>2. r = [kk EXCEPT !.state = s2, !.next = n1, !.first_task = t, !.last_task = t]
    BY <1>6, <2>1 DEF KernelState
  <2>3. /\ r \in KernelState /\ r.state = s2 /\ r.first_task = t /\ r.last_task = t
        /\ r.next = n1 /\ r.current = kk.current /\ r.queue = kk.queue
        /\ r.task_switch_lock = kk.task_switch_lock /\ r.postponed = kk.postponed
    BY <1>1, <1>7, <2>2 DEF KernelState
  <2> QED
    BY <1>2, <1>7, <1>9, <2>3 DEF LinkStep
<1>10. CASE l # NULL
  <2>1. r = [a EXCEPT !.next[l] = t, !.last_task = t]
    BY <1>5, <1>8, <1>10 DEF LinkLast
  <2>2. PICK n2 : n2 = [n1 EXCEPT ![l] = t]
    OBVIOUS
  <2>3. r = [a EXCEPT !.next = n2, !.last_task = t]
    BY <1>6, <1>8, <2>1, <2>2 DEF KernelState
  <2>4. r = [kk EXCEPT !.state = s2, !.next = n2, !.last_task = t]
    BY <1>6, <2>3 DEF KernelState
  <2>5. l \in Task
    BY <1>1, <1>10 DEF TaskOrNull
  <2>6. /\ n2 \in [Task -> TaskOrNull] /\ n2[t] = NULL /\ n2[l] = t
        /\ \A u \in Task \ {t, l} : n2[u] = kk.next[u]
    BY <1>1, <1>7, <2>2, <2>5
  <2>7. /\ r \in KernelState /\ r.state = s2 /\ r.first_task = kk.first_task /\ r.last_task = t
        /\ r.next = n2 /\ r.current = kk.current /\ r.queue = kk.queue
        /\ r.task_switch_lock = kk.task_switch_lock /\ r.postponed = kk.postponed
    BY <1>1, <1>7, <2>4, <2>6 DEF KernelState
  <2> QED
    BY <1>2, <1>10, <2>6, <2>7 DEF LinkStep
<1> QED
  BY <1>9, <1>10

LEMMA ReadiedSets ==
  ASSUME NEW st \in [Task -> TaskState], NEW t \in Task, NEW v,
         v \in {TASK_STATE_ZERO, TASK_STATE_READY},
         NEW s2, s2 = [st EXCEPT ![t] = v]
  PROVE  /\ {u \in Task : s2[u] = TASK_STATE_BLOCK} = {u \in Task : st[u] = TASK_STATE_BLOCK} \ {t}
         /\ {u \in Task : s2[u] = TASK_STATE_NONE} = {u \in Task : st[u] = TASK_STATE_NONE} \ {t}
         /\ s2[t] = v /\ \A u \in Task \ {t} : s2[u] = st[u]
<1>1. s2[t] = v /\ \A u \in Task \ {t} : s2[u] = st[u]
  OBVIOUS
<1>2. ASSUME NEW u \in Task
      PROVE  /\ s2[u] = TASK_STATE_BLOCK <=> st[u] = TASK_STATE_BLOCK /\ u # t
             /\ s2[u] = TASK_STATE_NONE <=> st[u] = TASK_STATE_NONE /\ u # t
  <2>1. CASE u = t
    BY <1>1, <2>1, StatesDiffer
  <2>2. CASE u # t
    BY <1>1, <2>2
  <2> QED
    BY <2>1, <2>2
<1> QED
  BY <1>1, <1>2

\* unblock_task() and copy_task() of a task no queue knows of.
LEMMA Unblocked ==
  ASSUME NEW kk, NEW O, NEW z, NEW L, KernelOK(kk, O, z, L), OneRuns(kk),
         NEW t \in Blk(kk) \cup Non(kk), t # kk.current,
         \A q \in L \cup {TermQueue} : t \notin Waiting(kk.state, O, z, q),
         NEW r, r = unblock_task(kk, t) \/ r = copy_task(kk, t)
  PROVE  /\ KernelOK(r, O, z, L) /\ OneRuns(r) /\ r.current = kk.current
         /\ r.state[r.current] = kk.state[kk.current]
         /\ r.task_switch_lock = kk.task_switch_lock /\ r.postponed = kk.postponed
         /\ Blk(r) = Blk(kk) \ {t} /\ Non(r) = Non(kk) \ {t}
<1>1. kk \in KernelState
      /\ ListsOK(kk.first_task, kk.last_task, kk.state, kk.next, kk.queue, O, z, L)
  BY DEF KernelOK
<1>2. t \in Task /\ kk.state \in [Task -> TaskState] /\ kk.current \in Task
  BY <1>1, Fields DEF Blk, Non
<1>3. t \notin Rdy(kk.state)
  BY StatesDiffer DEF Blk, Non, Rdy
<1>4. /\ kk.first_task = NULL <=> kk.last_task = NULL
      /\ kk.last_task # NULL => kk.last_task \in Rdy(kk.state)
  BY <1>1, ChainEnds DEF ListsOK
<1>5. t # kk.last_task
  BY <1>2, <1>3, <1>4, TaskOpsAssumption
<1>6. LinkStep(kk, t, r)
  BY <1>1, <1>2, <1>4, <1>5, LinkFields
<1>7. PICK s2 : s2 = r.state
  OBVIOUS
<1>8. s2 = [kk.state EXCEPT ![t] = TASK_STATE_READY]
  BY <1>6, <1>7 DEF LinkStep
<1>9. s2[t] = TASK_STATE_READY /\ (\A u \in Task \ {t} : s2[u] = kk.state[u])
      /\ s2[t] \in {TASK_STATE_ZERO, TASK_STATE_READY}
  BY <1>2, <1>8
<1>10. Blk(r) = Blk(kk) \ {t} /\ Non(r) = Non(kk) \ {t}
  BY <1>2, <1>7, <1>8, ReadiedSets DEF Blk, Non
<1>11. PICK n2 : n2 = r.next
  OBVIOUS
<1>12. PICK f2 : f2 = r.first_task
  OBVIOUS
<1>13. /\ f2 = IF kk.first_task = NULL THEN t ELSE kk.first_task
       /\ n2[t] = NULL /\ (kk.last_task # NULL => n2[kk.last_task] = t)
       /\ \A u \in Task \ {t, kk.last_task} : n2[u] = kk.next[u]
  BY <1>6, <1>11, <1>12 DEF LinkStep
<1>14. ListsOK(f2, t, s2, n2, kk.queue, O, z, L)
  BY <1>1, <1>2, <1>3, <1>9, <1>13, ListsAppend
<1>15. /\ r \in KernelState /\ r.last_task = t /\ r.queue = kk.queue /\ r.current = kk.current
       /\ r.task_switch_lock = kk.task_switch_lock /\ r.postponed = kk.postponed
  BY <1>6 DEF LinkStep
<1>16. r.state[r.current] = kk.state[kk.current]
  BY <1>2, <1>7, <1>9, <1>15
<1>17. OneRuns(r)
  BY <1>7, <1>9, <1>15, <1>16, StatesDiffer DEF OneRuns
<1> QED
  BY <1>7, <1>10, <1>11, <1>12, <1>14, <1>15, <1>16, <1>17 DEF KernelOK

\* create_task() links a new task at the head of the ready list.
HeadStep(kk, t, r) ==
  /\ r \in KernelState /\ r.state = [kk.state EXCEPT ![t] = TASK_STATE_ZERO]
  /\ r.last_task = (IF kk.first_task = NULL THEN t ELSE kk.last_task) /\ r.first_task = t
  /\ r.next[t] = kk.first_task /\ \A u \in Task \ {t} : r.next[u] = kk.next[u]
  /\ r.current = kk.current /\ r.queue = kk.queue
  /\ r.task_switch_lock = kk.task_switch_lock /\ r.postponed = kk.postponed

LEMMA HeadFields ==
  ASSUME NEW kk \in KernelState, NEW t \in Task, NEW r, r = create_task(kk, t)
  PROVE  HeadStep(kk, t, r)
<1> DEFINE f == kk.first_task
<1>1. /\ kk.state \in [Task -> TaskState] /\ kk.next \in [Task -> TaskOrNull]
      /\ kk.last_task \in TaskOrNull /\ f \in TaskOrNull /\ t \in TaskOrNull
  BY Fields DEF TaskOrNull
<1>2. PICK s2 : s2 = [kk.state EXCEPT ![t] = TASK_STATE_ZERO]
  OBVIOUS
<1>3. PICK n1 : n1 = [kk.next EXCEPT ![t] = NULL]
  OBVIOUS
<1>4. PICK a : a = [kk EXCEPT !.state[t] = TASK_STATE_ZERO, !.next[t] = NULL]
  OBVIOUS
<1>5. r = LinkFirst(a, t)
  BY <1>4 DEF create_task
<1>6. a = [kk EXCEPT !.state = s2, !.next = n1]
  BY <1>2, <1>3, <1>4 DEF KernelState
<1>7. /\ s2 \in [Task -> TaskState] /\ n1 \in [Task -> TaskOrNull]
      /\ n1[t] = NULL /\ \A u \in Task \ {t} : n1[u] = kk.next[u]
  BY <1>1, <1>2, <1>3 DEF TaskState, TaskOrNull
<1>8. a.first_task = f /\ a.next = n1
  BY <1>6 DEF KernelState
<1>9. CASE f = NULL
  <2>1. r = [a EXCEPT !.first_task = t, !.last_task = t]
    BY <1>5, <1>8, <1>9 DEF LinkFirst
  <2>2. r = [kk EXCEPT !.state = s2, !.next = n1, !.first_task = t, !.last_task = t]
    BY <1>6, <2>1 DEF KernelState
  <2>3. /\ r \in KernelState /\ r.state = s2 /\ r.first_task = t /\ r.last_task = t
        /\ r.next = n1 /\ r.current = kk.current /\ r.queue = kk.queue
        /\ r.task_switch_lock = kk.task_switch_lock /\ r.postponed = kk.postponed
    BY <1>1, <1>7, <2>2 DEF KernelState
  <2> QED
    BY <1>2, <1>7, <1>9, <2>3 DEF HeadStep
<1>10. CASE f # NULL
  <2>1. r = [a EXCEPT !.next[t] = f, !.first_task = t]
    BY <1>5, <1>8, <1>10 DEF LinkFirst
  <2>2. PICK n2 : n2 = [n1 EXCEPT ![t] = f]
    OBVIOUS
  <2>3. r = [a EXCEPT !.next = n2, !.first_task = t]
    BY <1>6, <1>8, <2>1, <2>2 DEF KernelState
  <2>4. r = [kk EXCEPT !.state = s2, !.next = n2, !.first_task = t]
    BY <1>6, <2>3 DEF KernelState
  <2>5. /\ n2 \in [Task -> TaskOrNull] /\ n2[t] = f
        /\ \A u \in Task \ {t} : n2[u] = kk.next[u]
    BY <1>1, <1>7, <2>2
  <2>6. /\ r \in KernelState /\ r.state = s2 /\ r.first_task = t /\ r.last_task = kk.last_task
        /\ r.next = n2 /\ r.current = kk.current /\ r.queue = kk.queue
        /\ r.task_switch_lock = kk.task_switch_lock /\ r.postponed = kk.postponed
    BY <1>1, <1>7, <2>4, <2>5 DEF KernelState
  <2> QED
    BY <1>2, <1>10, <2>5, <2>6 DEF HeadStep
<1> QED
  BY <1>9, <1>10

LEMMA Created ==
  ASSUME NEW kk, NEW O, NEW z, NEW L, KernelOK(kk, O, z, L), OneRuns(kk),
         NEW t \in Non(kk), NEW r, r = create_task(kk, t)
  PROVE  /\ KernelOK(r, O, z, L) /\ OneRuns(r) /\ r.current = kk.current
         /\ r.state[r.current] = kk.state[kk.current]
         /\ r.task_switch_lock = kk.task_switch_lock /\ r.postponed = kk.postponed
         /\ Blk(r) = Blk(kk) /\ Non(r) = Non(kk) \ {t}
<1>1. kk \in KernelState
      /\ ListsOK(kk.first_task, kk.last_task, kk.state, kk.next, kk.queue, O, z, L)
  BY DEF KernelOK
<1>2. t \in Task /\ kk.state \in [Task -> TaskState] /\ kk.current \in Task
      /\ kk.state[t] = TASK_STATE_NONE
  BY <1>1, Fields DEF Non
<1>3. t \notin Rdy(kk.state) /\ t \notin Blk(kk)
      /\ \A q \in L \cup {TermQueue} : t \notin Waiting(kk.state, O, z, q)
  BY <1>2, StatesDiffer DEF Blk, Rdy, Waiting
<1>4. t # kk.current
  BY <1>2, StatesDiffer DEF OneRuns
<1>5. HeadStep(kk, t, r)
  BY <1>1, <1>2, HeadFields
<1>6. PICK s2 : s2 = r.state
  OBVIOUS
<1>7. s2 = [kk.state EXCEPT ![t] = TASK_STATE_ZERO]
  BY <1>5, <1>6 DEF HeadStep
<1>8. s2[t] = TASK_STATE_ZERO /\ (\A u \in Task \ {t} : s2[u] = kk.state[u])
      /\ s2[t] \in {TASK_STATE_ZERO, TASK_STATE_READY}
  BY <1>2, <1>7
<1>9. Blk(r) = Blk(kk) \ {t} /\ Non(r) = Non(kk) \ {t}
  BY <1>2, <1>6, <1>7, ReadiedSets DEF Blk, Non
<1>10. PICK n2 : n2 = r.next
  OBVIOUS
<1>11. PICK l2 : l2 = r.last_task
  OBVIOUS
<1>12. /\ l2 = IF kk.first_task = NULL THEN t ELSE kk.last_task
       /\ n2[t] = kk.first_task /\ \A u \in Task \ {t} : n2[u] = kk.next[u]
  BY <1>5, <1>10, <1>11 DEF HeadStep
<1>13. ListsOK(t, l2, s2, n2, kk.queue, O, z, L)
  BY <1>1, <1>2, <1>3, <1>8, <1>12, ListsPrepend
<1>14. /\ r \in KernelState /\ r.first_task = t /\ r.queue = kk.queue /\ r.current = kk.current
       /\ r.task_switch_lock = kk.task_switch_lock /\ r.postponed = kk.postponed
  BY <1>5 DEF HeadStep
<1>15. r.state[r.current] = kk.state[kk.current]
  BY <1>2, <1>4, <1>6, <1>8, <1>14
<1>16. OneRuns(r)
  BY <1>6, <1>8, <1>14, <1>15, StatesDiffer DEF OneRuns
<1> QED
  BY <1>3, <1>6, <1>9, <1>10, <1>11, <1>13, <1>14, <1>15, <1>16 DEF KernelOK

\* SignalBody() on a queue other than the termination queue: it wakes at most
\* one task, which waited there.
LEMMA Signalled ==
  ASSUME NEW kk, NEW O, NEW z, NEW L, KernelOK(kk, O, z, L), OneRuns(kk),
         L \subseteq Queue, TermQueue \notin L, NEW q \in L, O[kk.current] # q,
         NEW r, r = SignalBody(kk, q)
  PROVE  /\ KernelOK(r, O, z, L) /\ OneRuns(r) /\ r.current = kk.current
         /\ r.state[r.current] = kk.state[kk.current]
         /\ r.task_switch_lock = kk.task_switch_lock /\ r.postponed = kk.postponed
         /\ \E t : Blk(r) = Blk(kk) \ {t} /\ (t \in Blk(kk) => O[t] = q)
         /\ Non(r) = Non(kk)
<1> DEFINE w == kk.queue[q]
           t == w.first_task
<1>1. kk \in KernelState
      /\ ListsOK(kk.first_task, kk.last_task, kk.state, kk.next, kk.queue, O, z, L)
  BY DEF KernelOK
<1>2. CASE t = NULL
  <2>1. r = kk
    BY <1>2 DEF SignalBody
  <2>2. NULL \notin Task /\ Blk(kk) \subseteq Task
    BY TaskOpsAssumption DEF Blk
  <2>3. Blk(kk) = Blk(kk) \ {NULL} /\ NULL \notin Blk(kk)
    BY <2>2
  <2>4. \E u : Blk(r) = Blk(kk) \ {u} /\ (u \in Blk(kk) => O[u] = q)
    BY <2>1, <2>3, Zenon
  <2> QED
    BY <2>1, <2>4
<1>3. CASE t # NULL
  <2>1. /\ t \in Waiting(kk.state, O, z, q)
        /\ w.amount_waiting = Cardinality(Waiting(kk.state, O, z, q))
    BY <1>1, <1>3 DEF ListsOK, EndsIn
  <2>2. t \in Task /\ O[t] = q /\ kk.state[t] = TASK_STATE_BLOCK /\ t # kk.current
    BY <2>1 DEF Waiting
  <2>3. t \notin Rdy(kk.state)
    BY <2>2, StatesDiffer DEF Rdy
  <2>4. /\ kk.first_task = NULL <=> kk.last_task = NULL
        /\ kk.last_task # NULL => kk.last_task \in Rdy(kk.state)
    BY <1>1, ChainEnds DEF ListsOK
  <2>5. t # kk.last_task
    BY <2>2, <2>3, <2>4, TaskOpsAssumption
  <2>6. PICK u : u = unblock_task(kk, t)
    OBVIOUS
  <2>7. LinkStep(kk, t, u)
    BY <1>1, <2>2, <2>4, <2>5, <2>6, LinkFields
  <2>8. u \in KernelState /\ u.queue = kk.queue /\ u.next[t] = NULL
    BY <2>7 DEF LinkStep
  <2>9. /\ kk.queue \in [Queue -> ResourceQueue] /\ q \in Queue /\ w \in ResourceQueue
        /\ kk.state \in [Task -> TaskState] /\ kk.current \in Task
    BY <1>1, Fields
  <2>10. w.amount_waiting \in Nat /\ w.amount_waiting - 1 \in Nat
    <3>1. Waiting(kk.state, O, z, q) \in SUBSET Task
      BY DEF Waiting
    <3>2. Cardinality(Waiting(kk.state, O, z, q)) \in Nat
          /\ Cardinality(Waiting(kk.state, O, z, q)) # 0
      BY <2>1, <3>1, TasksFinite
    <3> QED
      BY <2>1, <3>2
  <2>11. r = [u EXCEPT !.queue[q].first_task = NULL, !.queue[q].last_task = NULL,
                       !.queue[q].amount_waiting = @ - 1]
    BY <1>3, <2>6, <2>8 DEF SignalBody, UnlinkFirstQueued
  <2>12. PICK e : e = [[[w EXCEPT !.first_task = NULL] EXCEPT !.last_task = NULL]
                         EXCEPT !.amount_waiting = @ - 1]
    OBVIOUS
  <2>13. /\ e \in ResourceQueue /\ e.first_task = NULL /\ e.last_task = NULL
         /\ e.amount_waiting = w.amount_waiting - 1
    BY <2>9, <2>10, <2>12 DEF ResourceQueue, TaskOrNull
  <2>14. PICK q2 : q2 = [kk.queue EXCEPT ![q] = e]
    OBVIOUS
  <2>15. /\ q2 \in [Queue -> ResourceQueue] /\ q2[q] = e
         /\ \A p \in Queue : p # q => q2[p] = kk.queue[p]
    BY <2>9, <2>13, <2>14
  <2>16. q2 = [kk.queue EXCEPT ![q].first_task = NULL, ![q].last_task = NULL,
                               ![q].amount_waiting = @ - 1]
    BY <2>9, <2>12, <2>14
  <2>17. r = [u EXCEPT !.queue = q2]
    <3>1. q2 = [u.queue EXCEPT ![q].first_task = NULL, ![q].last_task = NULL,
                               ![q].amount_waiting = @ - 1]
      BY <2>8, <2>16
    <3> QED
      BY <2>8, <2>11, <3>1 DEF KernelState
  <2>18. /\ r \in KernelState /\ r.queue = q2 /\ r.state = u.state /\ r.next = u.next
         /\ r.first_task = u.first_task /\ r.last_task = u.last_task /\ r.current = u.current
         /\ r.task_switch_lock = u.task_switch_lock /\ r.postponed = u.postponed
    BY <2>8, <2>15, <2>17 DEF KernelState
  <2>19. PICK s2 : s2 = r.state
    OBVIOUS
  <2>20. s2 = [kk.state EXCEPT ![t] = TASK_STATE_READY]
    BY <2>7, <2>18, <2>19 DEF LinkStep
  <2>21. s2[t] = TASK_STATE_READY /\ \A v \in Task \ {t} : s2[v] = kk.state[v]
    BY <2>2, <2>9, <2>20
  <2>22. Blk(r) = Blk(kk) \ {t} /\ Non(r) = Non(kk) \ {t}
    <3>1. PICK v \in Task : v = t
      BY <2>2
    <3>2. s2 = [kk.state EXCEPT ![v] = TASK_STATE_READY]
      BY <2>20, <3>1
    <3>3. /\ {x \in Task : s2[x] = TASK_STATE_BLOCK}
               = {x \in Task : kk.state[x] = TASK_STATE_BLOCK} \ {v}
          /\ {x \in Task : s2[x] = TASK_STATE_NONE}
               = {x \in Task : kk.state[x] = TASK_STATE_NONE} \ {v}
      BY <2>9, <3>2, ReadiedSets
    <3> QED
      BY <2>19, <3>1, <3>3 DEF Blk, Non
  <2>23. t \notin Non(kk)
    BY <2>2, StatesDiffer DEF Non
  <2>24. PICK n2 : n2 = r.next
    OBVIOUS
  <2>25. PICK f2 : f2 = r.first_task
    OBVIOUS
  <2>26. /\ f2 = IF kk.first_task = NULL THEN t ELSE kk.first_task
         /\ n2[t] = NULL /\ (kk.last_task # NULL => n2[kk.last_task] = t)
         /\ \A v \in Task \ {t, kk.last_task} : n2[v] = kk.next[v]
         /\ r.last_task = t /\ r.current = kk.current
         /\ r.task_switch_lock = kk.task_switch_lock /\ r.postponed = kk.postponed
    BY <2>7, <2>18, <2>24, <2>25 DEF LinkStep
  <2>27. TermQueue \in Queue /\ \A p \in L \cup {TermQueue} : p # q => q2[p] = kk.queue[p]
    BY <2>15, LifecycleAssumption
  <2>28. /\ q2[q].amount_waiting = kk.queue[q].amount_waiting - 1
         /\ q2[q].first_task = NULL /\ q2[q].last_task = NULL
    BY <2>13, <2>15
  <2>29. PICK tt : tt = t
    OBVIOUS
  <2>30. ListsOK(f2, tt, s2, n2, q2, O, z, L)
    <3>1. /\ tt = kk.queue[q].first_task /\ tt # NULL /\ s2[tt] = TASK_STATE_READY
          /\ \A v \in Task \ {tt} : s2[v] = kk.state[v]
          /\ f2 = IF kk.first_task = NULL THEN tt ELSE kk.first_task
          /\ n2[tt] = NULL /\ (kk.last_task # NULL => n2[kk.last_task] = tt)
          /\ \A v \in Task \ {tt, kk.last_task} : n2[v] = kk.next[v]
      BY <1>3, <2>21, <2>26, <2>29
    <3> QED
      BY <1>1, <2>27, <2>28, <3>1, ListsSignal
  <2>31. r.state[r.current] = kk.state[kk.current]
    BY <2>2, <2>9, <2>19, <2>21, <2>26
  <2>32. OneRuns(r)
    BY <2>19, <2>21, <2>26, <2>31, StatesDiffer DEF OneRuns
  <2>33. KernelOK(r, O, z, L)
    BY <2>18, <2>19, <2>24, <2>25, <2>26, <2>29, <2>30 DEF KernelOK
  <2>34. \E v : Blk(r) = Blk(kk) \ {v} /\ (v \in Blk(kk) => O[v] = q)
    BY <2>2, <2>22
  <2> QED
    BY <2>22, <2>23, <2>26, <2>31, <2>32, <2>33, <2>34
<1> QED
  BY <1>2, <1>3

LEMMA NewQueue ==
  ASSUME NEW kk, NEW O, NEW z, NEW L, KernelOK(kk, O, z, L), NEW q \in Queue, q # TermQueue,
         \A t \in Task : kk.state[t] = TASK_STATE_BLOCK => O[t] # q, L \subseteq Queue,
         NEW r, r = [kk EXCEPT !.queue[q] = EmptyQueue], NEW M, M = L \cup {q}
  PROVE  /\ KernelOK(r, O, z, M) /\ (OneRuns(kk) => OneRuns(r))
         /\ r.current = kk.current /\ r.state = kk.state
         /\ r.task_switch_lock = kk.task_switch_lock /\ r.postponed = kk.postponed
         /\ Blk(r) = Blk(kk) /\ Non(r) = Non(kk)
<1>1. kk \in KernelState
      /\ ListsOK(kk.first_task, kk.last_task, kk.state, kk.next, kk.queue, O, z, L)
  BY DEF KernelOK
<1>2. kk.queue \in [Queue -> ResourceQueue] /\ EmptyQueue \in ResourceQueue /\ TermQueue \in Queue
  BY <1>1, Fields, LifecycleAssumption DEF EmptyQueue, ResourceQueue, TaskOrNull
<1>3. PICK q2 : q2 = [kk.queue EXCEPT ![q] = EmptyQueue]
  OBVIOUS
<1>4. /\ q2 \in [Queue -> ResourceQueue] /\ q2[q] = EmptyQueue
      /\ \A p \in L \cup {TermQueue} : p # q => q2[p] = kk.queue[p]
  BY <1>2, <1>3
<1>5. r = [kk EXCEPT !.queue = q2]
  BY <1>1, <1>3 DEF KernelState
<1>6. /\ r \in KernelState /\ r.queue = q2 /\ r.state = kk.state /\ r.next = kk.next
      /\ r.first_task = kk.first_task /\ r.last_task = kk.last_task /\ r.current = kk.current
      /\ r.task_switch_lock = kk.task_switch_lock /\ r.postponed = kk.postponed
  BY <1>1, <1>4, <1>5 DEF KernelState
<1>7. ListsOK(kk.first_task, kk.last_task, kk.state, kk.next, q2, O, z, M)
  BY <1>1, <1>4, ListsNew
<1> QED
  BY <1>6, <1>7 DEF KernelOK, OneRuns, Blk, Non

LEMMA KernelOn ==
  ASSUME NEW kk, NEW O, NEW z, NEW L, KernelOK(kk, O, z, L),
         NEW c \in Task, kk.state[c] # TASK_STATE_BLOCK,
         NEW O2, \A u \in Task \ {c} : O2[u] = O[u]
  PROVE  KernelOK(kk, O2, z, L)
BY ListsOn DEF KernelOK

\* What a call that ends with a task switch leaves: B are blocked.
Switched(kk, O, z, L, r, B) ==
  /\ KernelOK(r, O, z, L) /\ OneRuns(r) /\ r.state[r.current] = TASK_STATE_RUNNING
  /\ r.task_switch_lock = 0
  /\ Blk(r) = B /\ Non(r) = Non(kk)

\* wait_queue() of a user task, up to the switch it ends with.
LEMMA WaitCalled ==
  ASSUME NEW kk, NEW O, NEW z, NEW L, KernelOK(kk, O, z, L), OneRuns(kk),
         kk.task_switch_lock = 0, L \subseteq Queue, TermQueue \notin L,
         NEW q \in L \cup {TermQueue}, NEW c, c = kk.current, c # Idle, c # z,
         kk.state[c] = TASK_STATE_RUNNING, O[c] = q, NEW r, r = wait_queue(kk, q)
  PROVE  Switched(kk, O, z, L, r, Blk(kk) \cup {c})
<1>1. PICK a : a = lock_task_switches(kk)
  OBVIOUS
<1>2. /\ KernelOK(a, O, z, L) /\ OneRuns(a) /\ a.current = c /\ a.state = kk.state
      /\ Blk(a) = Blk(kk) /\ Non(a) = Non(kk) /\ a.task_switch_lock = 0 + 1
  BY <1>1, Locked
<1>3. PICK b : b = WaitBody(a, q)
  OBVIOUS
<1>4. a.state[c] = TASK_STATE_RUNNING /\ a.task_switch_lock > 0 /\ a.task_switch_lock = 1
      /\ c = a.current
  BY <1>2
<1>5. /\ KernelOK(b, O, z, L) /\ OneRuns(b) /\ b.current = c /\ b.postponed = TRUE
      /\ b.task_switch_lock = a.task_switch_lock
      /\ Blk(b) = Blk(a) \cup {c} /\ Non(b) = Non(a)
  <2>1. BlockedOn(a, O, z, L, c, b)
    BY <1>2, <1>3, <1>4, Waited
  <2> QED
    BY <2>1 DEF BlockedOn
<1>6. r = unlock_task_switches(b)
  BY <1>1, <1>3 DEF wait_queue
<1>7. b.task_switch_lock = 1 /\ (b.state[b.current] = TASK_STATE_BLOCK => b.postponed)
  BY <1>4, <1>5
<1>8. /\ KernelOK(r, O, z, L) /\ OneRuns(r) /\ r.state[r.current] = TASK_STATE_RUNNING
      /\ Blk(r) = Blk(b) /\ Non(r) = Non(b) /\ r.task_switch_lock = 0
  BY <1>5, <1>6, <1>7, Unlocked
<1> QED
  BY <1>2, <1>5, <1>8 DEF Switched

\* terminate_task(): the task waits on the termination queue, and a terminator
\* that was blocked is ready.
LEMMA Exited ==
  ASSUME NEW kk, NEW O, NEW z, NEW L, KernelOK(kk, O, z, L), OneRuns(kk),
         kk.task_switch_lock = 0, L \subseteq Queue, TermQueue \notin L,
         NEW c, c = kk.current, c # Idle, c # z,
         kk.state[c] = TASK_STATE_RUNNING, O[c] = TermQueue,
         term \in TaskOrNull, term # c,
         term # NULL => O[term] \notin L \cup {TermQueue}, NEW r, r = terminate_task(kk)
  PROVE  Switched(kk, O, z, L, r, (Blk(kk) \cup {c}) \ {term})
<1>1. PICK a : a = lock_task_switches(kk)
  OBVIOUS
<1>2. /\ KernelOK(a, O, z, L) /\ OneRuns(a) /\ a.current = c /\ a.state = kk.state
      /\ Blk(a) = Blk(kk) /\ Non(a) = Non(kk) /\ a.task_switch_lock = 0 + 1
  BY <1>1, Locked
<1>3. PICK b : b = lock_task_switches(a)
  OBVIOUS
<1>4. /\ KernelOK(b, O, z, L) /\ OneRuns(b) /\ b.current = a.current /\ b.state = a.state
      /\ Blk(b) = Blk(a) /\ Non(b) = Non(a) /\ b.task_switch_lock = a.task_switch_lock + 1
  BY <1>2, <1>3, Locked
<1>5. b.state[c] = TASK_STATE_RUNNING /\ b.task_switch_lock > 0 /\ b.task_switch_lock = 2
      /\ c = b.current
  BY <1>2, <1>4
<1>6. PICK d : d = WaitBody(b, TermQueue)
  OBVIOUS
<1>7. /\ KernelOK(d, O, z, L) /\ OneRuns(d) /\ d.current = c /\ d.postponed = TRUE
      /\ d.task_switch_lock = b.task_switch_lock
      /\ Blk(d) = Blk(b) \cup {c} /\ Non(d) = Non(b)
  <2>1. TermQueue \in L \cup {TermQueue}
    OBVIOUS
  <2>2. BlockedOn(b, O, z, L, c, d)
    BY <1>4, <1>5, <1>6, <2>1, Waited
  <2> QED
    BY <2>2 DEF BlockedOn
<1>8. PICK w : w = unlock_task_switches(d)
  OBVIOUS
<1>9. /\ KernelOK(w, O, z, L) /\ OneRuns(w) /\ w.current = d.current /\ w.state = d.state
      /\ Blk(w) = Blk(d) /\ Non(w) = Non(d) /\ w.task_switch_lock = 1
      /\ w.postponed = d.postponed
  BY <1>5, <1>7, <1>8, UnlockedInner
<1>10. w = wait_queue(a, TermQueue)
  BY <1>3, <1>6, <1>8 DEF wait_queue
<1>11. PICK e : e = IF term # NULL /\ w.state[term] = TASK_STATE_BLOCK
                   THEN unblock_task(w, term) ELSE w
  OBVIOUS
<1>12. r = unlock_task_switches(e)
  BY <1>1, <1>10, <1>11 DEF terminate_task
<1>13. /\ KernelOK(e, O, z, L) /\ OneRuns(e) /\ e.postponed = TRUE /\ e.task_switch_lock = 1
       /\ Blk(e) = Blk(w) \ {term} /\ Non(e) = Non(w)
  <2>1. CASE term # NULL /\ w.state[term] = TASK_STATE_BLOCK
    <3>1. PICK t : t = term
      OBVIOUS
    <3>2. t \in Task /\ t \in Blk(w) \cup Non(w) /\ t # w.current /\ t \notin Non(w)
      BY <1>7, <1>9, <2>1, <3>1, StatesDiffer DEF TaskOrNull, Blk, Non
    <3>3. \A q \in L \cup {TermQueue} : t \notin Waiting(w.state, O, z, q)
      BY <2>1, <3>1 DEF Waiting
    <3>4. e = unblock_task(w, t)
      BY <1>11, <2>1, <3>1
    <3>5. /\ KernelOK(e, O, z, L) /\ OneRuns(e)
          /\ e.task_switch_lock = w.task_switch_lock /\ e.postponed = w.postponed
          /\ Blk(e) = Blk(w) \ {t} /\ Non(e) = Non(w) \ {t}
      BY <1>9, <3>2, <3>3, <3>4, Unblocked
    <3> QED
      BY <1>7, <1>9, <3>1, <3>2, <3>5
  <2>2. CASE ~(term # NULL /\ w.state[term] = TASK_STATE_BLOCK)
    <3>1. e = w
      BY <1>11, <2>2
    <3>2. term \notin Blk(w)
      BY <2>2, TaskOpsAssumption DEF Blk
    <3> QED
      BY <1>7, <1>9, <3>1, <3>2
  <2> QED
    BY <2>1, <2>2
<1>14. /\ KernelOK(r, O, z, L) /\ OneRuns(r) /\ r.state[r.current] = TASK_STATE_RUNNING
       /\ Blk(r) = Blk(e) /\ Non(r) = Non(e) /\ r.task_switch_lock = 0
  BY <1>12, <1>13, Unlocked
<1> QED
  BY <1>2, <1>4, <1>7, <1>9, <1>13, <1>14 DEF Switched

\* signal_queue() of the keyboard interrupt, whoever is interrupted.
LEMMA SignalCalled ==
  ASSUME NEW kk, NEW O, NEW z, NEW L, KernelOK(kk, O, z, L), OneRuns(kk),
         L \subseteq Queue, TermQueue \notin L, NEW q \in L, O[kk.current] # q,
         kk.task_switch_lock \in {0, 1},
         kk.task_switch_lock = 0 /\ kk.state[kk.current] = TASK_STATE_BLOCK => kk.postponed,
         NEW r, r = unlock_task_switches(SignalBody(lock_task_switches(kk), q))
  PROVE  /\ KernelOK(r, O, z, L) /\ OneRuns(r)
         /\ r.task_switch_lock = kk.task_switch_lock
         /\ kk.task_switch_lock = 0 => r.state[r.current] = TASK_STATE_RUNNING
         /\ kk.task_switch_lock = 1 => /\ r.current = kk.current
                                       /\ r.state[r.current] = kk.state[kk.current]
         /\ \E t : Blk(r) = Blk(kk) \ {t} /\ (t \in Blk(kk) => O[t] = q)
         /\ Non(r) = Non(kk)
<1>1. PICK a : a = lock_task_switches(kk)
  OBVIOUS
<1>2. /\ KernelOK(a, O, z, L) /\ OneRuns(a) /\ a.current = kk.current /\ a.state = kk.state
      /\ Blk(a) = Blk(kk) /\ Non(a) = Non(kk)
      /\ a.task_switch_lock = kk.task_switch_lock + 1 /\ a.postponed = kk.postponed
  BY <1>1, Locked
<1>3. PICK b : b = SignalBody(a, q)
  OBVIOUS
<1>4. /\ KernelOK(b, O, z, L) /\ OneRuns(b) /\ b.current = a.current
      /\ b.state[b.current] = a.state[a.current]
      /\ b.task_switch_lock = a.task_switch_lock /\ b.postponed = a.postponed
      /\ \E t : Blk(b) = Blk(a) \ {t} /\ (t \in Blk(a) => O[t] = q)
      /\ Non(b) = Non(a)
  BY <1>2, <1>3, Signalled
<1>5. r = unlock_task_switches(b)
  BY <1>1, <1>3
<1>6. CASE kk.task_switch_lock = 0
  <2>1. b.task_switch_lock = 1 /\ (b.state[b.current] = TASK_STATE_BLOCK => b.postponed)
    BY <1>2, <1>4, <1>6
  <2>2. /\ KernelOK(r, O, z, L) /\ OneRuns(r) /\ r.state[r.current] = TASK_STATE_RUNNING
        /\ Blk(r) = Blk(b) /\ Non(r) = Non(b) /\ r.task_switch_lock = 0
    BY <1>4, <1>5, <2>1, Unlocked
  <2> QED
    BY <1>2, <1>4, <1>6, <2>2
<1>7. CASE kk.task_switch_lock = 1
  <2>1. b.task_switch_lock = 2
    BY <1>2, <1>4, <1>7
  <2>2. /\ KernelOK(r, O, z, L) /\ OneRuns(r) /\ r.current = b.current /\ r.state = b.state
        /\ Blk(r) = Blk(b) /\ Non(r) = Non(b) /\ r.task_switch_lock = 1
    BY <1>4, <1>5, <2>1, UnlockedInner
  <2> QED
    BY <1>2, <1>4, <1>7, <2>2
<1> QED
  BY <1>6, <1>7

-----------------------------------------------------------------------------
(***************************************************************************)
(* The inductive invariant.  Besides the lists it says where each task is, *)
(* who may be blocked there, that the terminator holds the lock exactly    *)
(* between its checks, and who owns pids and wait queues.                  *)
(***************************************************************************)
Queues == queues \cup {KbdQueue}

\* Where tasks are, and what a task in a call waits on.
CallsOK ==
  /\ \A t \in User : pc[t] \in {"user", "wait", "read", "exit"}
  /\ pc[Idle] = "user"
  /\ pc[Terminator] \in {"start", "loop", "check", "relock", "drain"}
  /\ \A t \in Task : /\ on[t] = KbdQueue <=> pc[t] = "read"
                     /\ on[t] = TermQueue <=> pc[t] = "exit"
                     /\ on[t] \in WaitQueue <=> pc[t] = "wait"

\* Who is blocked, and whose structure is free.
StatesOK ==
  /\ \A t \in Blk(k) : t = Terminator \/ pc[t] \in {"wait", "read", "exit"}
  /\ Terminator \in Blk(k) => pc[Terminator] \in {"check", "relock"}
  /\ \A t \in Task : pc[t] = "exit" => t \in Blk(k)
  /\ \A t \in Task : pc[t] = "wait" /\ t \in Blk(k) => on[t] \in queues
  /\ \A t \in Non(k) : t \in User /\ pc[t] = "user" /\ wq[t] = NULL

\* Only the terminator runs on after it has blocked, up to its check, and only
\* it keeps the lock between steps.
SwitchOK ==
  /\ k.state[k.current] = TASK_STATE_BLOCK
       => k.current = Terminator /\ pc[Terminator] = "check" /\ k.postponed
  /\ k.task_switch_lock = IF pc[Terminator] \in {"loop", "drain"} THEN 1 ELSE 0
  /\ pc[Terminator] \in {"loop", "drain"} => k.current = Terminator

TerminatorOK ==
  /\ term = IF pc[Terminator] = "start" THEN NULL ELSE Terminator
  /\ quitter # NULL <=> pc[Terminator] = "drain"
  /\ quitter # NULL => quitter \in User /\ pc[quitter] = "exit"

OwnersOK ==
  /\ \A t \in Task : wq[t] # NULL => wq[t] \in queues
  /\ \A t, u \in Task : wq[t] # NULL /\ wq[t] = wq[u] => t = u
  /\ \A q \in queues : \E t \in Task : wq[t] = q

PidsOK ==
  /\ \A t \in User : t \notin Non(k) => pid[t] < last_pid
  /\ \A t, u \in User : t \notin Non(k) /\ u \notin Non(k) /\ pc[t] # "exit" /\ pc[u] # "exit"
                          /\ pid[t] = pid[u] => t = u

Whole ==
  /\ TypeOK
  /\ KernelOK(k, on, quitter, Queues) /\ OneRuns(k)
  /\ CallsOK /\ StatesOK /\ SwitchOK /\ TerminatorOK /\ OwnersOK /\ PidsOK

LEMMA QueueFacts ==
  /\ TermQueue \in Queue /\ KbdQueue \in Queue /\ TermQueue # KbdQueue /\ NULL \notin Queue
  /\ Queue = WaitQueue \cup {TermQueue, KbdQueue}
  /\ TermQueue \notin WaitQueue /\ KbdQueue \notin WaitQueue /\ NULL \notin WaitQueue
  /\ Idle \in Task /\ Terminator \in Task /\ Idle \notin User /\ Terminator \notin User
  /\ Idle # Terminator /\ NULL \notin Task
  /\ Task = User \cup {Idle, Terminator}
BY LifecycleAssumption, TaskOpsAssumption DEF WaitQueue, User, Kernel

LEMMA QueuesFacts ==
  ASSUME TypeOK
  PROVE  Queues \subseteq Queue /\ TermQueue \notin Queues
BY QueueFacts DEF TypeOK, Queues

\* A task that is in no call, and the terminator, wait on nothing.
LEMMA OnNothing ==
  ASSUME TypeOK, CallsOK, NEW t \in Task, pc[t] \notin {"wait", "read", "exit"}
  PROVE  on[t] = NULL
BY QueueFacts DEF TypeOK, CallsOK

LEMMA UserFacts ==
  ASSUME Whole, NEW t, InUserMode(t)
  PROVE  /\ t \in User /\ t \in Task /\ k.current = t /\ pc[t] = "user" /\ on[t] = NULL
         /\ t # Idle /\ t # Terminator /\ k.state[t] = TASK_STATE_RUNNING
         /\ k.task_switch_lock = 0 /\ quitter = NULL
         /\ pc[Terminator] \in {"start", "check", "relock"}
         /\ on[Terminator] = NULL /\ term \in {NULL, Terminator}
         /\ t \notin Blk(k) /\ t \notin Non(k)
<1>1. t \in User /\ t \in Task /\ k.current = t /\ pc[t] = "user" /\ t # Idle /\ t # Terminator
  BY QueueFacts DEF InUserMode
<1>2. k.state[t] = TASK_STATE_RUNNING
  BY <1>1 DEF Whole, OneRuns, SwitchOK
<1>3. pc[Terminator] \in {"start", "check", "relock"}
  BY <1>1 DEF Whole, SwitchOK, CallsOK
<1>4. k.task_switch_lock = 0 /\ quitter = NULL /\ term \in {NULL, Terminator}
  BY <1>3 DEF Whole, SwitchOK, TerminatorOK
<1>5. on[t] = NULL /\ on[Terminator] = NULL
  BY <1>1, <1>3, OnNothing, QueueFacts DEF Whole
<1>6. t \notin Blk(k) /\ t \notin Non(k)
  BY <1>2, StatesDiffer DEF Blk, Non
<1> QED
  BY <1>1, <1>2, <1>3, <1>4, <1>5, <1>6

\* A user task blocks in a call: what that does to where tasks are.
LEMMA CallBlocks ==
  ASSUME Whole, NEW t, InUserMode(t), NEW p, NEW q,
         \/ p = "wait" /\ q \in queues
         \/ p = "read" /\ q = KbdQueue
         \/ p = "exit" /\ q = TermQueue,
         pc' = [pc EXCEPT ![t] = p], on' = [on EXCEPT ![t] = q],
         NEW x, x \in {NULL, Terminator},
         Blk(k') = (Blk(k) \cup {t}) \ {x}, Non(k') \subseteq Non(k),
         \A u \in Non(k') : wq'[u] = NULL,
         OneRuns(k'), k'.state[k'.current] = TASK_STATE_RUNNING, k'.task_switch_lock = 0,
         queues' = queues, term' = term, quitter' = quitter
  PROVE  CallsOK' /\ StatesOK' /\ SwitchOK' /\ TerminatorOK'
<1>1. pc \in [Task -> {"user", "wait", "read", "exit", "start", "loop", "check", "relock", "drain"}]
      /\ on \in [Task -> Queue \cup {NULL}] /\ queues \subseteq WaitQueue
  BY DEF Whole, TypeOK
<1>2. t \in User /\ t \in Task /\ t # Idle /\ t # Terminator /\ pc[t] = "user"
  BY UserFacts
<1>3. /\ pc'[t] = p /\ \A u \in Task \ {t} : pc'[u] = pc[u]
      /\ on'[t] = q /\ \A u \in Task \ {t} : on'[u] = on[u]
  BY <1>1, <1>2
<1>4. /\ q = KbdQueue <=> p = "read"
      /\ q = TermQueue <=> p = "exit"
      /\ q \in WaitQueue <=> p = "wait"
      /\ p \in {"wait", "read", "exit"}
  BY <1>1, QueueFacts
<1>5. CallsOK'
  BY <1>2, <1>3, <1>4, QueueFacts DEF Whole, CallsOK
<1>6. x \notin User /\ x # t
  BY <1>2, QueueFacts, TaskOpsAssumption
<1>7. StatesOK'
  <2>1. ASSUME NEW u \in Blk(k') PROVE u = Terminator \/ pc'[u] \in {"wait", "read", "exit"}
    BY <1>2, <1>3, <1>4 DEF Whole, StatesOK, Blk
  <2>2. Terminator \in Blk(k') => pc'[Terminator] \in {"check", "relock"}
    BY <1>2, <1>3, QueueFacts DEF Whole, StatesOK
  <2>3. ASSUME NEW u \in Task, pc'[u] = "exit" PROVE u \in Blk(k')
    <3>1. u \in Blk(k) \cup {t}
      BY <1>3, <2>3 DEF Whole, StatesOK
    <3>2. u # x
      <4>1. x # NULL => pc'[x] # "exit"
        BY <1>2, <1>3, QueueFacts DEF Whole, CallsOK
      <4> QED
        BY <2>3, <4>1, TaskOpsAssumption
    <3> QED
      BY <3>1, <3>2
  <2>4. ASSUME NEW u \in Task, pc'[u] = "wait", u \in Blk(k') PROVE on'[u] \in queues'
    BY <1>2, <1>3, <1>4, <2>4, <1>1, QueueFacts DEF Whole, StatesOK
  <2>5. ASSUME NEW u \in Non(k') PROVE u \in User /\ pc'[u] = "user" /\ wq'[u] = NULL
    <3>1. u \in Non(k) /\ u # t /\ u \in Task
      BY UserFacts DEF Non
    <3> QED
      BY <1>3, <3>1 DEF Whole, StatesOK
  <2> QED
    BY <2>1, <2>2, <2>3, <2>4, <2>5 DEF StatesOK
<1>8. pc'[Terminator] = pc[Terminator] /\ pc[Terminator] \notin {"loop", "drain"}
  BY <1>2, <1>3, QueueFacts, UserFacts
<1>9. SwitchOK'
  BY <1>8, StatesDiffer DEF SwitchOK
<1>10. TerminatorOK'
  BY <1>8, UserFacts DEF Whole, TerminatorOK
<1> QED
  BY <1>5, <1>7, <1>9, <1>10

-----------------------------------------------------------------------------
(***************************************************************************)
(* A walk through `next' meets the tasks of a list in order, and ends.     *)
(***************************************************************************)
LEMMA LeastNat ==
  ASSUME NEW T, T \subseteq Nat, T # {}
  PROVE  \E x \in T : \A y \in T : x <= y
<1>1. PICK x \in T : \A y \in T : ~(<<y, x>> \in OpToRel(<, Nat))
  BY NatLessThanWellFounded, WFMin
<1>2. ASSUME NEW y \in Nat, NEW z \in Nat, y < z PROVE <<y, z>> \in OpToRel(<, Nat)
  <2>1. <<y, z>> \in {s \in Nat \X Nat : s[1] < s[2]}
    BY <1>2
  <2> QED
    BY <2>1 DEF OpToRel
<1>3. \A y \in T : ~(y < x)
  BY <1>1, <1>2
<1> QED
  BY <1>3

IsWalk(at, kk, first) ==
  at = [i \in 1 .. Cardinality(Task) + 1 |->
          IF i = 1 THEN first
          ELSE IF at[i - 1] = NULL THEN NULL ELSE kk.next[at[i - 1]]]

\* g lists the tasks that f numbers, and then NULL.
Listed(g, f, n, N) == g = [i \in 1 .. N + 1 |-> IF i <= n THEN f[i] ELSE NULL]

Follows(g, kk, first, i) ==
  g[i] = IF i = 1 THEN first ELSE IF g[i - 1] = NULL THEN NULL ELSE kk.next[g[i - 1]]

LEMMA Sizes ==
  ASSUME NEW S \in SUBSET Task
  PROVE  /\ Cardinality(S) \in Nat /\ Cardinality(Task) \in Nat
         /\ Cardinality(S) <= Cardinality(Task)
<1>1. IsFiniteSet(Task) /\ Cardinality(Task) \in Nat /\ Cardinality(S) \in Nat
  BY TasksFinite, FS_CardinalityType, TaskOpsAssumption
<1>2. Cardinality(S) <= Cardinality(Task)
  BY <1>1, FS_Subset
<1> QED
  BY <1>1, <1>2

LEMMA WalkStep ==
  ASSUME NEW kk, NEW first, NEW last, NEW S, NEW f, S \in SUBSET Task,
         Links(kk.next, first, last, S, f), NEW n, n = Cardinality(S),
         NEW N \in Nat, n \in Nat, n <= N, NEW g, Listed(g, f, n, N),
         NEW i \in 1 .. N + 1
  PROVE  Follows(g, kk, first, i)
<1>1. n \in Nat /\ N \in Nat /\ n <= N
  OBVIOUS
<1>2. /\ f \in [1 .. n -> S] /\ first = (IF n = 0 THEN NULL ELSE f[1])
      /\ \A j \in 1 .. n : kk.next[f[j]] = IF j = n THEN NULL ELSE f[j + 1]
  BY DEF Links
<1>3. g = [j \in 1 .. N + 1 |-> IF j <= n THEN f[j] ELSE NULL]
  BY DEF Listed
<1>4. g[i] = IF i = 1 THEN first ELSE IF g[i - 1] = NULL THEN NULL ELSE kk.next[g[i - 1]]
  <2>1. CASE i = 1
    BY <1>1, <1>2, <1>3, <2>1
  <2>2. CASE i # 1
    <3>1. i \in Nat /\ i - 1 \in 1 .. N + 1
      BY <1>1, <2>2
    <3>2. g[i] = (IF i <= n THEN f[i] ELSE NULL)
          /\ g[i - 1] = (IF i - 1 <= n THEN f[i - 1] ELSE NULL)
      BY <1>3, <3>1
    <3>3. CASE i - 1 <= n
      <4>1. i - 1 \in 1 .. n
        BY <1>1, <3>1, <3>3
      <4>2. f[i - 1] \in Task /\ f[i - 1] # NULL
        BY <1>2, <4>1, TaskOpsAssumption
      <4>3. kk.next[f[i - 1]] = IF i - 1 = n THEN NULL ELSE f[(i - 1) + 1]
        BY <1>2, <4>1
      <4>4. (i - 1) + 1 = i /\ (i - 1 = n <=> ~(i <= n))
        BY <1>1, <3>1, <3>3
      <4> QED
        BY <2>2, <3>2, <3>3, <4>2, <4>3, <4>4
    <3>4. CASE ~(i - 1 <= n)
      <4>1. ~(i <= n)
        BY <1>1, <3>1, <3>4
      <4> QED
        BY <2>2, <3>2, <3>4, <4>1
    <3> QED
      BY <3>3, <3>4
  <2> QED
    BY <2>1, <2>2
<1> QED
  BY <1>4 DEF Follows

LEMMA WalkIs ==
  ASSUME NEW kk, NEW first, NEW last, NEW S, NEW f, S \in SUBSET Task,
         Links(kk.next, first, last, S, f), NEW n, n = Cardinality(S),
         NEW N, N = Cardinality(Task), NEW w, w = Walk(kk, first)
  PROVE  n \in Nat /\ N \in Nat /\ n <= N /\ Listed(w, f, n, N)
<1>1. n \in Nat /\ N \in Nat /\ n <= N
  BY Sizes
<1>2. PICK g : g = [i \in 1 .. N + 1 |-> IF i <= n THEN f[i] ELSE NULL]
  OBVIOUS
<1>3. \A i \in 1 .. N + 1 :
        g[i] = IF i = 1 THEN first ELSE IF g[i - 1] = NULL THEN NULL ELSE kk.next[g[i - 1]]
  <2>1. Listed(g, f, n, N)
    BY <1>2 DEF Listed
  <2>2. \A i \in 1 .. N + 1 : Follows(g, kk, first, i)
    BY <1>1, <2>1, WalkStep
  <2> QED
    BY <2>2, Zenon DEF Follows
<1>4. g = [i \in 1 .. N + 1 |-> g[i]]
  BY <1>1, <1>2
<1>5. IsWalk(g, kk, first)
  <2>1. g = [i \in 1 .. N + 1 |-> IF i = 1 THEN first
                                  ELSE IF g[i - 1] = NULL THEN NULL ELSE kk.next[g[i - 1]]]
    BY <1>3, <1>4, Zenon
  <2> QED
    BY <2>1 DEF IsWalk
<1>6. PICK at : at = CHOOSE h : IsWalk(h, kk, first)
  OBVIOUS
<1>7. IsWalk(at, kk, first)
  BY <1>5, <1>6
<1>8. w = at
  BY <1>6 DEF Walk, IsWalk
<1>9. /\ at = [i \in 1 .. N + 1 |-> at[i]]
      /\ \A i \in 1 .. N + 1 :
           at[i] = IF i = 1 THEN first ELSE IF at[i - 1] = NULL THEN NULL ELSE kk.next[at[i - 1]]
  BY <1>7, Zenon DEF IsWalk
<1>10. \A i \in 1 .. N + 1 : at[i] = g[i]
  <2> DEFINE T == {i \in Nat : i \in 1 .. N + 1 /\ at[i] # g[i]}
  <2> SUFFICES ASSUME T # {} PROVE FALSE
    BY <1>1
  <2>1. PICK m \in T : \A j \in T : m <= j
    BY LeastNat
  <2>2. m \in Nat /\ m \in 1 .. N + 1 /\ at[m] # g[m]
    BY <2>1
  <2>3. CASE m = 1
    BY <1>3, <1>9, <2>2, <2>3
  <2>4. CASE m # 1
    <3>1. m - 1 \in Nat /\ m - 1 \in 1 .. N + 1 /\ m - 1 \notin T
      BY <1>1, <2>1, <2>2, <2>4
    <3>2. at[m - 1] = g[m - 1]
      BY <3>1
    <3> HIDE DEF T
    <3>3. at[m] = (IF at[m - 1] = NULL THEN NULL ELSE kk.next[at[m - 1]])
          /\ g[m] = (IF g[m - 1] = NULL THEN NULL ELSE kk.next[g[m - 1]])
      BY <1>3, <1>9, <2>2, <2>4
    <3> QED
      BY <2>2, <3>2, <3>3
  <2> QED
    BY <2>3, <2>4
<1>11. at = g
  BY <1>4, <1>9, <1>10
<1> QED
  BY <1>1, <1>2, <1>8, <1>11 DEF Listed

\* find_task() finds a task, if anything.
LEMMA FoundIsTask ==
  ASSUME Whole, NEW p, find_task(p) # NULL
  PROVE  find_task(p) \in Task
<1>1. k \in KernelState /\ Chain(k.next, k.first_task, k.last_task, Rdy(k.state)) /\ k.current \in Task
  BY Fields DEF Whole, KernelOK, ListsOK
<1>2. PICK f : Links(k.next, k.first_task, k.last_task, Rdy(k.state), f)
  BY <1>1 DEF Chain
<1>3. PICK S : S = Rdy(k.state)
  OBVIOUS
<1>4. S \in SUBSET Task /\ f \in [1 .. Cardinality(S) -> S]
  BY <1>2, <1>3 DEF Rdy, Links
<1>5. PICK at : at = Walk(k, k.first_task)
  OBVIOUS
<1> DEFINE n == Cardinality(S)
           N == Cardinality(Task)
<1>6. n \in Nat /\ N \in Nat /\ Listed(at, f, n, N)
  BY <1>2, <1>3, <1>4, <1>5, WalkIs
<1> HIDE DEF n, N
<1>7. DOMAIN at = 1 .. N + 1 /\ \A i \in DOMAIN at : at[i] \in Task \cup {NULL}
  BY <1>4, <1>6 DEF Listed, n
<1> DEFINE found == {i \in DOMAIN at : at[i] # NULL /\ pid[at[i]] = p}
<1>8. find_task(p) = IF pid[k.current] = p THEN k.current
                     ELSE IF found = {} THEN NULL
                     ELSE at[CHOOSE i \in found : \A j \in found : i <= j]
  BY <1>5 DEF find_task
<1>9. found # {} => at[CHOOSE i \in found : \A j \in found : i <= j] \in Task
  <2> HAVE found # {}
  <2>1. found \subseteq Nat
    BY <1>6, <1>7
  <2>2. \E i \in found : \A j \in found : i <= j
    BY <2>1, LeastNat
  <2>3. PICK i : i = CHOOSE m \in found : \A j \in found : m <= j
    OBVIOUS
  <2>4. i \in found
    BY <2>2, <2>3
  <2> QED
    BY <1>7, <2>3, <2>4
<1> QED
  BY <1>1, <1>8, <1>9

LEMMA ChainIsList ==
  ASSUME NEW first, NEW last, NEW S, Chain(k.next, first, last, S)
  PROVE  IsList(first, last, S)
<1>1. PICK f : Links(k.next, first, last, S, f) /\ S \in SUBSET Task
  BY DEF Chain
<1>2. PICK n : n = Cardinality(S)
  OBVIOUS
<1>3. PICK N : N = Cardinality(Task)
  OBVIOUS
<1>4. PICK at : at = Walk(k, first)
  OBVIOUS
<1>5. n \in Nat /\ N \in Nat /\ n <= N /\ Listed(at, f, n, N)
  BY <1>1, <1>2, <1>3, <1>4, WalkIs
<1>6. /\ f \in [1 .. n -> S] /\ (\A t \in S : \E i \in 1 .. n : f[i] = t)
      /\ last = IF n = 0 THEN NULL ELSE f[n]
  BY <1>1, <1>2 DEF Links
<1>7. /\ \A i \in 1 .. n : i \in 1 .. N + 1 /\ i <= n
      /\ n + 1 \in 1 .. N + 1 /\ ~(n + 1 <= n)
  BY <1>5
<1>8. (\A i \in 1 .. n : at[i] = f[i]) /\ at[n + 1] = NULL
  BY <1>5, <1>7 DEF Listed
<1>9. {at[i] : i \in 1 .. n} = S
  BY <1>6, <1>8
<1>10. last = IF n = 0 THEN NULL ELSE at[n]
  <2>1. n # 0 => n \in 1 .. n
    BY <1>5
  <2> QED
    BY <1>6, <1>8, <2>1
<1> QED
  BY <1>2, <1>4, <1>8, <1>9, <1>10 DEF IsList

-----------------------------------------------------------------------------
(***************************************************************************)
(* Every step keeps the invariant.                                         *)
(***************************************************************************)
LEMMA TypeFacts ==
  ASSUME Whole
  PROVE  /\ k \in KernelState
         /\ pc \in [Task -> {"user", "wait", "read", "exit", "start", "loop", "check",
                             "relock", "drain"}]
         /\ on \in [Task -> Queue \cup {NULL}] /\ pid \in [Task -> 0 .. MaxPid]
         /\ wq \in [Task -> WaitQueue \cup {NULL}] /\ queues \subseteq WaitQueue
         /\ term \in TaskOrNull /\ quitter \in TaskOrNull
         /\ last_pid \in 0 .. MaxPid /\ last_pid \in Nat /\ MaxPid \in Nat
         /\ \A t \in Task : pid[t] \in 0 .. MaxPid /\ pid[t] \in Nat
         /\ children \in [Task -> SUBSET (0 .. MaxPid)]
<1>1. /\ pid \in [Task -> 0 .. MaxPid] /\ last_pid \in 0 .. MaxPid
      /\ MaxPid \in Nat
  BY LifecycleAssumption DEF Whole, TypeOK
<1> QED
  BY <1>1 DEF Whole, TypeOK

\* Pids are as unique as before when no structure is allocated.
LEMMA PidsStay ==
  ASSUME Whole, pid' = pid, last_pid' = last_pid, Non(k) \subseteq Non(k'),
         \A u \in User : pc[u] = "exit" => pc'[u] = "exit"
  PROVE  PidsOK'
BY DEF Whole, PidsOK

LEMMA TerminateCalled ==
  ASSUME NEW kk, NEW O, NEW L, KernelOK(kk, O, NULL, L), OneRuns(kk),
         L \subseteq Queue, TermQueue \notin L, NEW t \in Task, t # Idle, t # Terminator,
         kk.current = t, kk.state[t] = TASK_STATE_RUNNING, kk.task_switch_lock = 0,
         NEW O2, O2[t] = TermQueue, \A u \in Task \ {t} : O2[u] = O[u],
         O[Terminator] = NULL, term \in {NULL, Terminator}, NEW r, r = terminate_task(kk)
  PROVE  Switched(kk, O2, NULL, L, r, (Blk(kk) \cup {t}) \ {term})
<1>1. kk.state[t] # TASK_STATE_BLOCK /\ t # NULL
  BY StatesDiffer, QueueFacts
<1>2. KernelOK(kk, O2, NULL, L)
  BY <1>1, KernelOn
<1>3. term \in TaskOrNull /\ term # t /\ (term # NULL => O2[term] \notin L \cup {TermQueue})
  BY <1>1, QueueFacts DEF TaskOrNull
<1> QED
  BY <1>1, <1>2, <1>3, Exited

LEMMA ExitStep ==
  ASSUME Whole, NEW t \in User, exit(t)
  PROVE  Whole'
<1>1. /\ InUserMode(t) /\ k' = terminate_task(k)
      /\ pc' = [pc EXCEPT ![t] = "exit"] /\ on' = [on EXCEPT ![t] = TermQueue]
      /\ children' = [children EXCEPT ![t] = {}]
      /\ pid' = pid /\ wq' = wq /\ queues' = queues /\ term' = term /\ quitter' = quitter
      /\ last_pid' = last_pid
  BY DEF exit
<1>2. /\ t \in Task /\ k.current = t /\ k.state[t] = TASK_STATE_RUNNING
      /\ k.task_switch_lock = 0 /\ term \in {NULL, Terminator} /\ quitter = NULL
      /\ t # Idle /\ t # Terminator /\ on[Terminator] = NULL
  BY <1>1, UserFacts
<1>3. /\ KernelOK(k, on, NULL, Queues) /\ OneRuns(k)
      /\ Queues \subseteq Queue /\ TermQueue \notin Queues
      /\ on'[t] = TermQueue /\ \A u \in Task \ {t} : on'[u] = on[u]
  BY <1>1, <1>2, QueuesFacts, TypeFacts DEF Whole
<1>4. /\ KernelOK(k', on', quitter, Queues) /\ OneRuns(k')
      /\ k'.state[k'.current] = TASK_STATE_RUNNING /\ k'.task_switch_lock = 0
      /\ Blk(k') = (Blk(k) \cup {t}) \ {term} /\ Non(k') = Non(k)
  <2>1. Switched(k, on', NULL, Queues, k', (Blk(k) \cup {t}) \ {term})
    BY <1>1, <1>2, <1>3, TerminateCalled
  <2> QED
    BY <1>2, <2>1 DEF Switched
<1>5. \A u \in Non(k') : wq'[u] = NULL
  BY <1>1, <1>4 DEF Whole, StatesOK
<1>6. CallsOK' /\ StatesOK' /\ SwitchOK' /\ TerminatorOK'
  BY <1>1, <1>2, <1>4, <1>5, CallBlocks
<1>7. TypeOK'
  BY <1>1, <1>2, <1>4, TypeFacts, QueueFacts DEF KernelOK, TypeOK
<1>8. OwnersOK'
  BY <1>1 DEF Whole, OwnersOK
<1>9. PidsOK'
  <2>1. \A u \in User : pc[u] = "exit" => pc'[u] = "exit"
    BY <1>1, TypeFacts, QueueFacts
  <2> QED
    BY <1>1, <1>4, <2>1, PidsStay
<1>10. Queues' = Queues
  BY <1>1 DEF Queues
<1> QED
  BY <1>1, <1>4, <1>6, <1>7, <1>8, <1>9, <1>10 DEF Whole

LEMMA ExecStep ==
  ASSUME Whole, NEW t \in User, exec(t)
  PROVE  Whole'
<1>1. PICK n \in User, q \in WaitQueue :
        /\ Fresh(n, q) /\ k' = terminate_task(create_task(k, n))
        /\ pid' = [pid EXCEPT ![n] = pid[t]]
        /\ wq' = [wq EXCEPT ![n] = wq[t], ![t] = NULL]
        /\ children' = [children EXCEPT ![t] = {}]
  BY DEF exec
<1>2. /\ InUserMode(t) /\ pc' = [pc EXCEPT ![t] = "exit"] /\ on' = [on EXCEPT ![t] = TermQueue]
      /\ queues' = queues /\ term' = term /\ quitter' = quitter
  BY DEF exec
<1>3. /\ t \in Task /\ k.current = t /\ k.state[t] = TASK_STATE_RUNNING
      /\ k.task_switch_lock = 0 /\ term \in {NULL, Terminator} /\ quitter = NULL
      /\ t # Idle /\ t # Terminator /\ on[Terminator] = NULL /\ t \notin Non(k)
  BY <1>2, UserFacts
<1>4. /\ KernelOK(k, on, NULL, Queues) /\ OneRuns(k)
      /\ Queues \subseteq Queue /\ TermQueue \notin Queues
      /\ on'[t] = TermQueue /\ \A u \in Task \ {t} : on'[u] = on[u]
  BY <1>2, <1>3, QueuesFacts, TypeFacts DEF Whole
<1>5. n \in Non(k) /\ n \in Task /\ n # t /\ last_pid < MaxPid /\ last_pid' = last_pid + 1
  BY <1>1, <1>3, QueueFacts DEF Fresh, Non
<1>6. PICK kk : kk = create_task(k, n)
  OBVIOUS
<1>7. /\ KernelOK(kk, on, NULL, Queues) /\ OneRuns(kk) /\ kk.current = k.current
      /\ kk.state[kk.current] = k.state[k.current] /\ kk.task_switch_lock = k.task_switch_lock
      /\ Blk(kk) = Blk(k) /\ Non(kk) = Non(k) \ {n}
  BY <1>4, <1>5, <1>6, Created
<1>8. /\ KernelOK(k', on', quitter, Queues) /\ OneRuns(k')
      /\ k'.state[k'.current] = TASK_STATE_RUNNING /\ k'.task_switch_lock = 0
      /\ Blk(k') = (Blk(k) \cup {t}) \ {term} /\ Non(k') = Non(k) \ {n}
  <2>1. kk.current = t /\ kk.state[t] = TASK_STATE_RUNNING /\ kk.task_switch_lock = 0
        /\ k' = terminate_task(kk)
    BY <1>1, <1>3, <1>6, <1>7
  <2>2. Switched(kk, on', NULL, Queues, k', (Blk(kk) \cup {t}) \ {term})
    BY <1>3, <1>4, <1>7, <2>1, TerminateCalled
  <2> QED
    BY <1>3, <1>7, <2>2 DEF Switched
<1>9. /\ wq'[n] = wq[t] /\ wq'[t] = NULL /\ \A u \in Task \ {n, t} : wq'[u] = wq[u]
      /\ pid'[n] = pid[t] /\ \A u \in Task \ {n} : pid'[u] = pid[u]
      /\ wq[n] = NULL /\ pc'[t] = "exit" /\ \A u \in Task \ {t} : pc'[u] = pc[u]
  BY <1>1, <1>2, <1>3, <1>5, TypeFacts DEF Whole, StatesOK
<1>10. \A u \in Non(k') : wq'[u] = NULL
  BY <1>8, <1>9, <1>3 DEF Whole, StatesOK, Non
<1>11. CallsOK' /\ StatesOK' /\ SwitchOK' /\ TerminatorOK'
  BY <1>2, <1>3, <1>8, <1>10, CallBlocks
<1>12. TypeOK'
  <2>1. last_pid' \in 0 .. MaxPid
    BY <1>5, TypeFacts
  <2>2. wq' \in [Task -> WaitQueue \cup {NULL}] /\ pid' \in [Task -> 0 .. MaxPid]
        /\ children' \in [Task -> SUBSET (0 .. MaxPid)]
    BY <1>1, <1>3, TypeFacts
  <2> QED
    BY <1>2, <1>3, <1>8, <2>1, <2>2, TypeFacts, QueueFacts DEF KernelOK, TypeOK
<1>13. OwnersOK'
  <2>1. ASSUME NEW u \in Task, wq'[u] # NULL PROVE wq'[u] \in queues'
    BY <1>2, <1>3, <1>9, <2>1 DEF Whole, OwnersOK
  <2>2. ASSUME NEW u \in Task, NEW v \in Task, wq'[u] # NULL, wq'[u] = wq'[v] PROVE u = v
    BY <1>3, <1>5, <1>9, <2>2 DEF Whole, OwnersOK
  <2>3. ASSUME NEW r \in queues' PROVE \E u \in Task : wq'[u] = r
    <3>1. PICK u \in Task : wq[u] = r
      BY <1>2 DEF Whole, OwnersOK
    <3>2. r # NULL
      BY <1>2, TypeFacts, QueueFacts
    <3> QED
      BY <1>5, <1>9, <3>1, <3>2
  <2> QED
    BY <2>1, <2>2, <2>3 DEF OwnersOK
<1>14. PidsOK'
  <2>1. ASSUME NEW u \in User, u \notin Non(k') PROVE pid'[u] < last_pid'
    <3>1. u \in Task /\ pid[u] \in Nat /\ pid[t] \in Nat /\ last_pid \in Nat /\ pid[t] < last_pid
      BY <1>3, TypeFacts, QueueFacts DEF Whole, PidsOK
    <3>2. CASE u = n
      BY <1>5, <1>9, <3>1, <3>2
    <3>3. CASE u # n
      <4>1. pid[u] < last_pid
        BY <1>8, <2>1, <3>3 DEF Whole, PidsOK
      <4> QED
        BY <1>5, <1>9, <3>1, <3>3, <4>1
    <3> QED
      BY <3>2, <3>3
  <2>2. ASSUME NEW u \in User, NEW v \in User, u \notin Non(k'), v \notin Non(k'),
               pc'[u] # "exit", pc'[v] # "exit", pid'[u] = pid'[v]
        PROVE  u = v
    <3>2. ASSUME NEW w \in User, w # n, w # t, w \notin Non(k'), pc'[w] # "exit" PROVE pid'[w] # pid[t]
      <4>1. w \in Task /\ w \notin Non(k) /\ pc[w] # "exit" /\ pid'[w] = pid[w] /\ pc[t] # "exit"
        BY <1>2, <1>8, <1>9, <3>2, QueueFacts DEF InUserMode
      <4> QED
        BY <1>3, <3>2, <4>1 DEF Whole, PidsOK
    <3>3. CASE u = n \/ v = n
      BY <1>9, <2>2, <3>2, <3>3
    <3>4. CASE u # n /\ v # n
      <4>1. /\ u \in Task /\ u \notin Non(k) /\ pc[u] # "exit" /\ pid'[u] = pid[u]
            /\ v \in Task /\ v \notin Non(k) /\ pc[v] # "exit" /\ pid'[v] = pid[v]
        BY <1>8, <1>9, <2>2, <3>4, QueueFacts
      <4> QED
        BY <2>2, <4>1 DEF Whole, PidsOK
    <3> QED
      BY <3>3, <3>4
  <2> QED
    BY <2>1, <2>2 DEF PidsOK
<1>15. Queues' = Queues
  BY <1>2 DEF Queues
<1> QED
  BY <1>2, <1>8, <1>11, <1>12, <1>13, <1>14, <1>15 DEF Whole

LEMMA QueueCalled ==
  ASSUME NEW kk, NEW O, NEW L, KernelOK(kk, O, NULL, L), OneRuns(kk),
         L \subseteq Queue, TermQueue \notin L, NEW q \in L, NEW t \in Task, t # Idle,
         kk.current = t, kk.state[t] = TASK_STATE_RUNNING, kk.task_switch_lock = 0,
         NEW O2, O2[t] = q, \A u \in Task \ {t} : O2[u] = O[u],
         NEW r, r = wait_queue(kk, q)
  PROVE  Switched(kk, O2, NULL, L, r, Blk(kk) \cup {t})
<1>1. kk.state[t] # TASK_STATE_BLOCK /\ t # NULL
  BY StatesDiffer, QueueFacts
<1>2. KernelOK(kk, O2, NULL, L)
  BY <1>1, KernelOn
<1> QED
  BY <1>1, <1>2, WaitCalled

\* read() and wait(): the task blocks on a queue that is signalled later.
BlocksIn(t, p, q) ==
  /\ InUserMode(t)
  /\ (p = "wait" /\ q \in queues) \/ (p = "read" /\ q = KbdQueue)
  /\ k' = wait_queue(k, q)
  /\ pc' = [pc EXCEPT ![t] = p]
  /\ on' = [on EXCEPT ![t] = q]
  /\ UNCHANGED <<pid, wq, queues, term, quitter, last_pid, children>>

LEMMA BlockingCall ==
  ASSUME Whole, NEW t \in User, NEW p, NEW q, BlocksIn(t, p, q)
  PROVE  Whole'
<1>1. /\ InUserMode(t) /\ k' = wait_queue(k, q) /\ pc' = [pc EXCEPT ![t] = p]
      /\ on' = [on EXCEPT ![t] = q]
      /\ (p = "wait" /\ q \in queues) \/ (p = "read" /\ q = KbdQueue)
  BY DEF BlocksIn
<1>2. /\ pid' = pid /\ wq' = wq /\ queues' = queues /\ term' = term /\ quitter' = quitter
      /\ last_pid' = last_pid /\ children' = children
  BY DEF BlocksIn
<1>3. /\ t \in Task /\ k.current = t /\ k.state[t] = TASK_STATE_RUNNING
      /\ k.task_switch_lock = 0 /\ quitter = NULL /\ t # NULL
      /\ t # Idle /\ t # Terminator /\ k.state[t] # TASK_STATE_BLOCK
  BY <1>1, UserFacts, StatesDiffer, QueueFacts
<1>4. /\ KernelOK(k, on, NULL, Queues) /\ OneRuns(k)
      /\ Queues \subseteq Queue /\ TermQueue \notin Queues
      /\ on'[t] = q /\ \A u \in Task \ {t} : on'[u] = on[u]
  BY <1>1, <1>3, QueuesFacts, TypeFacts DEF Whole
<1>5. q \in Queues
  BY <1>1 DEF Queues
<1>6. /\ KernelOK(k', on', quitter, Queues) /\ OneRuns(k')
      /\ k'.state[k'.current] = TASK_STATE_RUNNING /\ k'.task_switch_lock = 0
      /\ Blk(k') = Blk(k) \cup {t} /\ Non(k') = Non(k)
  <2>1. k' = wait_queue(k, q)
    BY <1>1
  <2>2. Switched(k, on', NULL, Queues, k', Blk(k) \cup {t})
    BY <1>3, <1>4, <1>5, <2>1, QueueCalled
  <2> QED
    BY <1>3, <2>2 DEF Switched
<1>7. \A u \in Non(k') : wq'[u] = NULL
  BY <1>2, <1>6 DEF Whole, StatesOK
<1>8. CallsOK' /\ StatesOK' /\ SwitchOK' /\ TerminatorOK'
  <2>1. Blk(k') = (Blk(k) \cup {t}) \ {NULL}
    BY <1>3, <1>6, QueueFacts DEF Blk
  <2> QED
    BY <1>1, <1>2, <1>3, <1>6, <1>7, <2>1, CallBlocks
<1>9. TypeOK'
  <2>1. q \in Queue /\ p \in {"wait", "read"}
    BY <1>1, <1>4, <1>5
  <2> QED
    BY <1>1, <1>2, <1>3, <1>6, <2>1, TypeFacts, QueueFacts DEF KernelOK, TypeOK
<1>10. OwnersOK'
  BY <1>2 DEF Whole, OwnersOK
<1>11. PidsOK'
  <2>1. \A u \in User : pc[u] = "exit" => pc'[u] = "exit"
    BY <1>1, TypeFacts, QueueFacts DEF InUserMode
  <2> QED
    BY <1>2, <1>6, <2>1, PidsStay
<1>12. Queues' = Queues
  BY <1>2 DEF Queues
<1> QED
  BY <1>2, <1>6, <1>8, <1>9, <1>10, <1>11, <1>12 DEF Whole

LEMMA ReadStep ==
  ASSUME Whole, NEW t \in User, read(t)
  PROVE  Whole'
<1>1. BlocksIn(t, "read", KbdQueue)
  BY DEF read, BlocksIn
<1> QED
  BY <1>1, BlockingCall

LEMMA WaitCallStep ==
  ASSUME Whole, NEW t \in User, NEW p, wait(t, p)
  PROVE  Whole'
<1>1. PICK q : q = wq[find_task(p)]
  OBVIOUS
<1>2. find_task(p) \in Task /\ q # NULL
  BY <1>1, FoundIsTask DEF wait
<1>3. q \in queues
  BY <1>1, <1>2 DEF Whole, OwnersOK
<1>4. BlocksIn(t, "wait", q)
  BY <1>1, <1>3 DEF wait, BlocksIn
<1> QED
  BY <1>4, BlockingCall

\* Nobody who is blocked waits on a queue that is not allocated.
LEMMA NobodyOn ==
  ASSUME Whole, NEW q \in WaitQueue, q \notin queues, NEW u \in Task,
         k.state[u] = TASK_STATE_BLOCK
  PROVE  on[u] # q
<1>1. u \in Blk(k)
  BY DEF Blk
<1> QED
  BY <1>1 DEF Whole, StatesOK, CallsOK

LEMMA Forked ==
  ASSUME NEW kk, NEW O, NEW L, KernelOK(kk, O, NULL, L), OneRuns(kk),
         L \subseteq Queue, NEW q \in Queue, q # TermQueue,
         \A u \in Task : kk.state[u] = TASK_STATE_BLOCK => O[u] # q,
         NEW c \in Non(kk), c # kk.current, NEW M, M = L \cup {q},
         NEW r, r = copy_task([kk EXCEPT !.queue[q] = EmptyQueue], c)
  PROVE  /\ KernelOK(r, O, NULL, M) /\ OneRuns(r) /\ r.current = kk.current
         /\ r.state[r.current] = kk.state[kk.current]
         /\ r.task_switch_lock = kk.task_switch_lock
         /\ Blk(r) = Blk(kk) /\ Non(r) = Non(kk) \ {c}
<1>1. PICK s : s = [kk EXCEPT !.queue[q] = EmptyQueue]
  OBVIOUS
<1>2. /\ KernelOK(s, O, NULL, M) /\ (OneRuns(kk) => OneRuns(s))
      /\ s.current = kk.current /\ s.state = kk.state
      /\ s.task_switch_lock = kk.task_switch_lock
      /\ Blk(s) = Blk(kk) /\ Non(s) = Non(kk)
  BY <1>1, NewQueue
<1>3. c \in Blk(s) \cup Non(s) /\ c # s.current /\ c \notin Blk(s)
  BY <1>2, StatesDiffer DEF Blk, Non
<1>4. \A p \in M \cup {TermQueue} : c \notin Waiting(s.state, O, NULL, p)
  BY <1>3 DEF Waiting, Blk
<1>5. r = unblock_task(s, c) \/ r = copy_task(s, c)
  BY <1>1
<1>6. /\ KernelOK(r, O, NULL, M) /\ OneRuns(r) /\ r.current = s.current
      /\ r.state[r.current] = s.state[s.current]
      /\ r.task_switch_lock = s.task_switch_lock /\ r.postponed = s.postponed
      /\ Blk(r) = Blk(s) \ {c} /\ Non(r) = Non(s) \ {c}
  BY <1>2, <1>3, <1>4, <1>5, Unblocked
<1> QED
  BY <1>2, <1>3, <1>6

LEMMA ForkStep ==
  ASSUME Whole, NEW t \in User, fork(t)
  PROVE  Whole'
<1>1. PICK c \in User, q \in WaitQueue :
        /\ Fresh(c, q) /\ k' = copy_task([k EXCEPT !.queue[q] = EmptyQueue], c)
        /\ pid' = [pid EXCEPT ![c] = last_pid]
        /\ wq' = [wq EXCEPT ![c] = q]
        /\ queues' = queues \cup {q}
        /\ children' = [children EXCEPT ![t] = @ \cup {last_pid}]
  BY DEF fork
<1>2. InUserMode(t) /\ pc' = pc /\ on' = on /\ term' = term /\ quitter' = quitter
  BY DEF fork
<1>3. /\ t \in Task /\ k.current = t /\ k.state[t] = TASK_STATE_RUNNING
      /\ k.task_switch_lock = 0 /\ quitter = NULL /\ t \notin Non(k)
      /\ pc[Terminator] \in {"start", "check", "relock"}
  BY <1>2, UserFacts
<1>4. /\ c \in Non(k) /\ c \in Task /\ c # t /\ last_pid < MaxPid /\ last_pid' = last_pid + 1
      /\ q \in WaitQueue /\ q \notin queues /\ q \in Queue /\ q # TermQueue /\ q # NULL
  BY <1>1, <1>3, QueueFacts DEF Fresh, Non
<1>5. /\ KernelOK(k, on, NULL, Queues) /\ OneRuns(k) /\ Queues \subseteq Queue
      /\ c # k.current /\ \A u \in Task : k.state[u] = TASK_STATE_BLOCK => on[u] # q
  BY <1>3, <1>4, NobodyOn, QueuesFacts DEF Whole
<1>6. Queues' = Queues \cup {q}
  BY <1>1 DEF Queues
<1>7. /\ KernelOK(k', on', quitter', Queues') /\ OneRuns(k') /\ k'.current = t
      /\ k'.state[t] = TASK_STATE_RUNNING /\ k'.task_switch_lock = 0
      /\ Blk(k') = Blk(k) /\ Non(k') = Non(k) \ {c}
  <2>1. PICK r : r = k'
    OBVIOUS
  <2>2. r = copy_task([k EXCEPT !.queue[q] = EmptyQueue], c)
    BY <1>1, <2>1
  <2>3. PICK M : M = Queues \cup {q}
    OBVIOUS
  <2>4. /\ KernelOK(r, on, NULL, M) /\ OneRuns(r) /\ r.current = k.current
        /\ r.state[r.current] = k.state[k.current]
        /\ r.task_switch_lock = k.task_switch_lock
        /\ Blk(r) = Blk(k) /\ Non(r) = Non(k) \ {c}
    BY <1>4, <1>5, <2>2, <2>3, Forked
  <2> QED
    BY <1>2, <1>3, <1>6, <2>1, <2>3, <2>4
<1>8. /\ wq'[c] = q /\ \A u \in Task \ {c} : wq'[u] = wq[u]
      /\ pid'[c] = last_pid /\ \A u \in Task \ {c} : pid'[u] = pid[u]
      /\ wq[c] = NULL /\ pc[c] = "user"
  BY <1>1, <1>4, TypeFacts DEF Whole, StatesOK
<1>9. CallsOK'
  BY <1>2 DEF Whole, CallsOK
<1>10. StatesOK'
  <2>1. ASSUME NEW u \in Non(k') PROVE u \in User /\ pc'[u] = "user" /\ wq'[u] = NULL
    BY <1>2, <1>7, <1>8 DEF Whole, StatesOK, Non
  <2>2. \A u \in Task : pc'[u] = "wait" /\ u \in Blk(k') => on'[u] \in queues'
    BY <1>1, <1>2, <1>7 DEF Whole, StatesOK
  <2> QED
    BY <1>2, <1>7, <2>1, <2>2 DEF Whole, StatesOK
<1>11. SwitchOK' /\ TerminatorOK'
  BY <1>2, <1>3, <1>7, StatesDiffer DEF Whole, SwitchOK, TerminatorOK
<1>12. TypeOK'
  <2>1. last_pid' \in 0 .. MaxPid
    BY <1>4, TypeFacts
  <2>2. wq' \in [Task -> WaitQueue \cup {NULL}] /\ pid' \in [Task -> 0 .. MaxPid]
        /\ children' \in [Task -> SUBSET (0 .. MaxPid)] /\ queues' \subseteq WaitQueue
    BY <1>1, <1>3, <1>4, TypeFacts
  <2> QED
    BY <1>2, <1>7, <2>1, <2>2, TypeFacts DEF KernelOK, TypeOK
<1>13. OwnersOK'
  <2>1. ASSUME NEW u \in Task, wq'[u] # NULL PROVE wq'[u] \in queues'
    BY <1>1, <1>8, <2>1 DEF Whole, OwnersOK
  <2>2. ASSUME NEW u \in Task, NEW v \in Task, wq'[u] # NULL, wq'[u] = wq'[v] PROVE u = v
    BY <1>4, <1>8, <2>2 DEF Whole, OwnersOK
  <2>3. ASSUME NEW r \in queues' PROVE \E u \in Task : wq'[u] = r
    <3>1. CASE r = q
      BY <1>4, <1>8, <3>1
    <3>2. CASE r \in queues
      <4>1. PICK u \in Task : wq[u] = r
        BY <3>2 DEF Whole, OwnersOK
      <4>2. r # NULL
        BY <3>2, TypeFacts, QueueFacts
      <4> QED
        BY <1>8, <4>1, <4>2
    <3> QED
      BY <1>1, <3>1, <3>2
  <2> QED
    BY <2>1, <2>2, <2>3 DEF OwnersOK
<1>14. PidsOK'
  <2>1. ASSUME NEW u \in User, u \notin Non(k'), u # c
        PROVE  pid'[u] = pid[u] /\ pid[u] < last_pid /\ u \notin Non(k) /\ pid[u] \in Nat
    BY <1>7, <1>8, <2>1, TypeFacts, QueueFacts DEF Whole, PidsOK
  <2>2. ASSUME NEW u \in User, u \notin Non(k') PROVE pid'[u] < last_pid'
    BY <1>4, <1>8, <2>1, <2>2, TypeFacts
  <2>3. ASSUME NEW u \in User, NEW v \in User, u \notin Non(k'), v \notin Non(k'),
               pc'[u] # "exit", pc'[v] # "exit", pid'[u] = pid'[v]
        PROVE  u = v
    <3>1. CASE u = c \/ v = c
      BY <1>8, <2>1, <2>3, <3>1, TypeFacts
    <3>2. CASE u # c /\ v # c
      BY <1>2, <2>1, <2>3, <3>2 DEF Whole, PidsOK
    <3> QED
      BY <3>1, <3>2
  <2> QED
    BY <2>2, <2>3 DEF PidsOK
<1> QED
  BY <1>7, <1>9, <1>10, <1>11, <1>12, <1>13, <1>14 DEF Whole

\* Kernel code that no task waits in: the timer, the keyboard, signal_queue().
KernelMoves ==
  UNCHANGED <<pc, on, pid, wq, queues, term, quitter, last_pid, children>>

LEMMA KernelStep ==
  ASSUME Whole, KernelMoves, KernelOK(k', on, quitter, Queues), OneRuns(k'),
         Non(k') = Non(k), Blk(k') \subseteq Blk(k),
         \A u \in Blk(k) : u \notin Blk(k') => pc[u] # "exit",
         SwitchOK'
  PROVE  Whole'
<1>1. /\ pc' = pc /\ on' = on /\ pid' = pid /\ wq' = wq /\ queues' = queues /\ term' = term
      /\ quitter' = quitter /\ last_pid' = last_pid /\ children' = children
  BY DEF KernelMoves
<1>2. TypeOK'
  BY <1>1 DEF Whole, TypeOK, KernelOK
<1>3. CallsOK' /\ TerminatorOK' /\ OwnersOK'
  BY <1>1 DEF Whole, CallsOK, TerminatorOK, OwnersOK
<1>4. StatesOK'
  BY <1>1 DEF Whole, StatesOK
<1>5. PidsOK'
  BY <1>1, PidsStay
<1>6. Queues' = Queues
  BY <1>1 DEF Queues
<1> QED
  BY <1>1, <1>2, <1>3, <1>4, <1>5, <1>6 DEF Whole

LEMMA TimerStep ==
  ASSUME Whole, scheduler_irq0
  PROVE  Whole'
<1>1. k' = yield(k) /\ KernelMoves
  BY DEF scheduler_irq0, KernelMoves
<1>2. KernelOK(k, on, quitter, Queues) /\ OneRuns(k) /\ k \in KernelState
      /\ k.task_switch_lock \in {0, 1}
  BY DEF Whole, TypeOK, SwitchOK
<1>3. CASE k.task_switch_lock = 0
  <2>1. PICK r : r = k'
    OBVIOUS
  <2>2. /\ KernelOK(r, on, quitter, Queues) /\ OneRuns(r) /\ r.state[r.current] = TASK_STATE_RUNNING
        /\ Blk(r) = Blk(k) /\ Non(r) = Non(k) /\ r.task_switch_lock = 0
    BY <1>1, <1>2, <1>3, <2>1, Yielded
  <2>3. SwitchOK'
    BY <1>1, <1>3, <2>1, <2>2, StatesDiffer DEF Whole, SwitchOK, KernelMoves
  <2> QED
    BY <1>1, <2>1, <2>2, <2>3, KernelStep
<1>4. CASE k.task_switch_lock = 1
  <2>1. k' = [k EXCEPT !.postponed = TRUE]
    BY <1>1, <1>4 DEF yield
  <2>2. /\ k' \in KernelState /\ k'.current = k.current /\ k'.first_task = k.first_task
        /\ k'.last_task = k.last_task /\ k'.state = k.state /\ k'.next = k.next
        /\ k'.queue = k.queue /\ k'.task_switch_lock = k.task_switch_lock
    BY <1>2, <2>1 DEF KernelState
  <2>3. /\ KernelOK(k', on, quitter, Queues) /\ OneRuns(k')
        /\ Blk(k') = Blk(k) /\ Non(k') = Non(k)
    BY <1>2, <2>2, KernelSame
  <2>4. SwitchOK'
    BY <1>1, <1>4, <2>2 DEF Whole, SwitchOK, KernelMoves
  <2> QED
    BY <1>1, <2>3, <2>4, KernelStep
<1> QED
  BY <1>2, <1>3, <1>4

LEMMA KeyboardStep ==
  ASSUME Whole, irq1
  PROVE  Whole'
<1>1. KernelMoves /\ k' = unlock_task_switches(SignalBody(lock_task_switches(k), KbdQueue))
  BY DEF irq1, KernelMoves
<1>2. k.current \in Task /\ on[k.current] # KbdQueue
  <2>1. k.current \in Task
    BY TypeFacts, Fields
  <2>2. pc[k.current] # "read"
    BY <2>1 DEF irq1, Interruptible, Kernel, Whole, CallsOK
  <2> QED
    BY <2>1, <2>2 DEF Whole, CallsOK
<1>3. /\ KernelOK(k, on, quitter, Queues) /\ OneRuns(k) /\ Queues \subseteq Queue
      /\ TermQueue \notin Queues /\ KbdQueue \in Queues
      /\ k.task_switch_lock \in {0, 1}
      /\ k.task_switch_lock = 0 /\ k.state[k.current] = TASK_STATE_BLOCK => k.postponed
  BY QueuesFacts DEF Whole, TypeOK, SwitchOK, Queues
<1>4. PICK r : r = k'
  OBVIOUS
<1>5. /\ KernelOK(r, on, quitter, Queues) /\ OneRuns(r)
      /\ r.task_switch_lock = k.task_switch_lock
      /\ k.task_switch_lock = 0 => r.state[r.current] = TASK_STATE_RUNNING
      /\ k.task_switch_lock = 1 => /\ r.current = k.current
                                   /\ r.state[r.current] = k.state[k.current]
      /\ \E t : Blk(r) = Blk(k) \ {t} /\ (t \in Blk(k) => on[t] = KbdQueue)
      /\ Non(r) = Non(k)
  BY <1>1, <1>2, <1>3, <1>4, SignalCalled
<1>6. PICK t : Blk(r) = Blk(k) \ {t} /\ (t \in Blk(k) => on[t] = KbdQueue)
  BY <1>5
<1>7. Blk(r) \subseteq Blk(k) /\ \A u \in Blk(k) : u \notin Blk(r) => pc[u] # "exit"
  BY <1>6 DEF Whole, CallsOK, Blk
<1>8. SwitchOK'
  BY <1>1, <1>3, <1>4, <1>5, StatesDiffer DEF Whole, SwitchOK, KernelMoves
<1> QED
  BY <1>1, <1>4, <1>5, <1>7, <1>8, KernelStep

LEMMA TermFacts ==
  ASSUME Whole, NEW place, At(place)
  PROVE  /\ Terminator \in Task /\ Terminator \notin User /\ k.current = Terminator
         /\ pc[Terminator] = place /\ on[Terminator] = NULL
         /\ Terminator # Idle
         /\ place # "check" => k.state[Terminator] = TASK_STATE_RUNNING /\ Terminator \notin Blk(k)
<1>1. /\ Terminator \in Task /\ Terminator \notin User /\ k.current = Terminator
      /\ pc[Terminator] = place /\ Terminator # Idle
  BY QueueFacts DEF At
<1>2. on[Terminator] = NULL
  BY <1>1, OnNothing DEF Whole, CallsOK
<1>3. place # "check" => k.state[Terminator] = TASK_STATE_RUNNING
  BY <1>1 DEF Whole, SwitchOK, OneRuns
<1> QED
  BY <1>1, <1>2, <1>3, StatesDiffer DEF Blk

LEMMA TermDrainStep ==
  ASSUME Whole, TermDrain
  PROVE  Whole'
<1>1. PICK q : q = wq[quitter]
  OBVIOUS
<1>2. /\ KernelMoves /\ k' = SignalBody(k, q) /\ At("drain") /\ q # NULL
  BY <1>1 DEF TermDrain, KernelMoves, Drained
<1>3. /\ k.current = Terminator /\ pc[Terminator] = "drain" /\ on[Terminator] = NULL
  BY <1>2, TermFacts
<1>4. quitter \in Task /\ q \in queues /\ q \in WaitQueue /\ q \in Queues
  BY <1>1, <1>2, <1>3, TypeFacts, QueueFacts DEF Whole, TerminatorOK, OwnersOK, Queues
<1>5. /\ KernelOK(k, on, quitter, Queues) /\ OneRuns(k) /\ Queues \subseteq Queue
      /\ TermQueue \notin Queues /\ on[k.current] # q
  BY <1>2, <1>3, QueuesFacts DEF Whole
<1>6. PICK r : r = k'
  OBVIOUS
<1>7. /\ KernelOK(r, on, quitter, Queues) /\ OneRuns(r) /\ r.current = k.current
      /\ r.state[r.current] = k.state[k.current]
      /\ r.task_switch_lock = k.task_switch_lock /\ r.postponed = k.postponed
      /\ \E t : Blk(r) = Blk(k) \ {t} /\ (t \in Blk(k) => on[t] = q)
      /\ Non(r) = Non(k)
  BY <1>2, <1>4, <1>5, <1>6, Signalled
<1>8. PICK t : Blk(r) = Blk(k) \ {t} /\ (t \in Blk(k) => on[t] = q)
  BY <1>7
<1>9. Blk(r) \subseteq Blk(k) /\ \A u \in Blk(k) : u \notin Blk(r) => pc[u] # "exit"
  BY <1>4, <1>8 DEF Whole, CallsOK, Blk
<1>10. SwitchOK'
  BY <1>2, <1>6, <1>7 DEF Whole, SwitchOK, KernelMoves
<1> QED
  BY <1>2, <1>6, <1>7, <1>9, <1>10, KernelStep

\* A step of the terminator from one place to the next.
TermGoes(p) ==
  /\ pc' = [pc EXCEPT ![Terminator] = p]
  /\ UNCHANGED <<on, pid, wq, queues, last_pid, children>>

LEMMA TermMoves ==
  ASSUME Whole, NEW p \in {"loop", "check", "relock", "drain"}, TermGoes(p),
         KernelOK(k', on, quitter', Queues), OneRuns(k'), Non(k') = Non(k),
         Blk(k') \cup {Terminator} = Blk(k) \cup {Terminator},
         Terminator \in Blk(k') => p \in {"check", "relock"},
         term' = Terminator, quitter' # NULL <=> p = "drain",
         quitter' # NULL => quitter' \in User /\ pc[quitter'] = "exit",
         SwitchOK'
  PROVE  Whole'
<1>1. /\ pc' = [pc EXCEPT ![Terminator] = p] /\ on' = on /\ pid' = pid /\ wq' = wq
      /\ queues' = queues /\ last_pid' = last_pid /\ children' = children
  BY DEF TermGoes
<1>2. /\ pc'[Terminator] = p /\ (\A u \in Task \ {Terminator} : pc'[u] = pc[u])
      /\ Terminator \in Task /\ Terminator \notin User /\ Idle # Terminator /\ Idle \in Task
      /\ \A u \in User : u \in Task /\ pc'[u] = pc[u]
  BY <1>1, TypeFacts, QueueFacts
<1>3. TypeOK'
  <2>1. quitter' \in TaskOrNull /\ Terminator \in TaskOrNull
    BY <1>2 DEF TaskOrNull
  <2> QED
    BY <1>1, <1>2, <2>1, TypeFacts DEF TypeOK, KernelOK
<1>4. CallsOK'
  <2>1. pc[Terminator] \notin {"read", "exit", "wait"}
    BY DEF Whole, CallsOK
  <2>2. \A u \in Task : /\ pc'[u] = "read" <=> pc[u] = "read"
                        /\ pc'[u] = "exit" <=> pc[u] = "exit"
                        /\ pc'[u] = "wait" <=> pc[u] = "wait"
    BY <1>2, <2>1
  <2> QED
    BY <1>1, <1>2, <2>2 DEF Whole, CallsOK
<1>5. StatesOK'
  <2>1. ASSUME NEW u \in Task, u # Terminator PROVE pc'[u] = pc[u] /\ (u \in Blk(k') <=> u \in Blk(k))
    BY <1>2, <2>1
  <2>2. \A u \in Blk(k') : u = Terminator \/ pc'[u] \in {"wait", "read", "exit"}
    BY <2>1 DEF Whole, StatesOK, Blk
  <2>3. Terminator \in Blk(k') => pc'[Terminator] \in {"check", "relock"}
    BY <1>2
  <2>4. \A u \in Task : pc'[u] = "exit" => u \in Blk(k')
    BY <1>2, <2>1 DEF Whole, StatesOK
  <2>5. \A u \in Task : pc'[u] = "wait" /\ u \in Blk(k') => on'[u] \in queues'
    BY <1>1, <1>2, <2>1 DEF Whole, StatesOK
  <2>6. \A u \in Non(k') : u \in User /\ pc'[u] = "user" /\ wq'[u] = NULL
    BY <1>1, <1>2 DEF Whole, StatesOK
  <2> QED
    BY <2>2, <2>3, <2>4, <2>5, <2>6 DEF StatesOK
<1>6. TerminatorOK'
  BY <1>2 DEF TerminatorOK
<1>7. OwnersOK'
  BY <1>1 DEF Whole, OwnersOK
<1>8. PidsOK'
  BY <1>1, <1>2, PidsStay
<1>9. Queues' = Queues
  BY <1>1 DEF Queues
<1> QED
  BY <1>1, <1>3, <1>4, <1>5, <1>6, <1>7, <1>8, <1>9 DEF Whole

\* lock_task_switches() of the terminator, before its loop and after each check.
LEMMA TermLockStep ==
  ASSUME Whole, TermStart \/ TermRelock
  PROVE  Whole'
<1>1. /\ k' = lock_task_switches(k) /\ TermGoes("loop") /\ quitter' = quitter
      /\ At("start") \/ At("relock")
  BY DEF TermStart, TermRelock, Goto, TermGoes
<1>2. /\ k.current = Terminator /\ pc[Terminator] \in {"start", "relock"}
      /\ k.state[Terminator] = TASK_STATE_RUNNING /\ Terminator \notin Blk(k)
  BY <1>1, TermFacts
<1>3. term' = Terminator
  <2>1. CASE TermStart
    BY <2>1 DEF TermStart
  <2>2. CASE TermRelock
    BY <2>2 DEF TermRelock, At, Whole, TerminatorOK
  <2> QED
    BY <2>1, <2>2
<1>4. quitter = NULL /\ k.task_switch_lock = 0
  BY <1>2 DEF Whole, TerminatorOK, SwitchOK
<1>5. KernelOK(k, on, quitter, Queues) /\ OneRuns(k)
  BY DEF Whole
<1>6. PICK r : r = k'
  OBVIOUS
<1>7. /\ KernelOK(r, on, quitter, Queues) /\ OneRuns(r)
      /\ r.current = k.current /\ r.state = k.state
      /\ Blk(r) = Blk(k) /\ Non(r) = Non(k)
      /\ r.task_switch_lock = k.task_switch_lock + 1
  BY <1>1, <1>5, <1>6, Locked
<1>8. pc'[Terminator] = "loop"
  BY <1>1, TypeFacts, QueueFacts DEF TermGoes
<1>9. SwitchOK'
  BY <1>2, <1>4, <1>6, <1>7, <1>8, StatesDiffer DEF SwitchOK
<1> QED
  BY <1>1, <1>2, <1>3, <1>4, <1>6, <1>7, <1>9, TermMoves

LEMMA TermCheckStep ==
  ASSUME Whole, TermCheck
  PROVE  Whole'
<1>1. /\ TermGoes("relock") /\ quitter' = quitter /\ term' = term /\ At("check")
      /\ k' = IF k.task_switch_lock = 0 /\ k.postponed
              THEN yield([k EXCEPT !.postponed = FALSE]) ELSE k
  BY DEF TermCheck, Goto, TermGoes
<1>2. k.current = Terminator /\ pc[Terminator] = "check" /\ Terminator \in Task
  BY <1>1, TermFacts
<1>3. quitter = NULL /\ term = Terminator /\ k.task_switch_lock = 0
  BY <1>2 DEF Whole, TerminatorOK, SwitchOK
<1>4. KernelOK(k, on, quitter, Queues) /\ OneRuns(k) /\ k \in KernelState
  BY DEF Whole, TypeOK
<1>5. PICK r : r = k'
  OBVIOUS
<1>6. /\ KernelOK(r, on, quitter, Queues) /\ OneRuns(r) /\ r.state[r.current] = TASK_STATE_RUNNING
      /\ Blk(r) = Blk(k) /\ Non(r) = Non(k) /\ r.task_switch_lock = 0
  <2>1. CASE k.postponed
    <3>1. PICK s : s = [k EXCEPT !.postponed = FALSE]
      OBVIOUS
    <3>2. /\ s \in KernelState /\ s.current = k.current /\ s.first_task = k.first_task
          /\ s.last_task = k.last_task /\ s.state = k.state /\ s.next = k.next
          /\ s.queue = k.queue /\ s.task_switch_lock = k.task_switch_lock
      BY <1>4, <3>1 DEF KernelState
    <3>3. /\ KernelOK(s, on, quitter, Queues) /\ OneRuns(s)
          /\ Blk(s) = Blk(k) /\ Non(s) = Non(k)
      BY <1>4, <3>2, KernelSame
    <3>4. r = yield(s) /\ s.task_switch_lock = 0
      BY <1>1, <1>3, <1>5, <2>1, <3>1, <3>2
    <3>5. /\ KernelOK(r, on, quitter, Queues) /\ OneRuns(r)
          /\ r.state[r.current] = TASK_STATE_RUNNING
          /\ Blk(r) = Blk(s) /\ Non(r) = Non(s) /\ r.task_switch_lock = 0
      BY <3>3, <3>4, Yielded
    <3> QED
      BY <3>3, <3>5
  <2>2. CASE ~k.postponed
    <3>1. r = k
      BY <1>1, <1>5, <2>2
    <3>2. k.state[k.current] = TASK_STATE_RUNNING
      BY <2>2 DEF Whole, SwitchOK, OneRuns
    <3> QED
      BY <1>3, <1>4, <3>1, <3>2
  <2> QED
    BY <2>1, <2>2
<1>7. pc'[Terminator] = "relock"
  BY <1>1, TypeFacts, QueueFacts DEF TermGoes
<1>8. SwitchOK'
  BY <1>5, <1>6, <1>7, StatesDiffer DEF SwitchOK
<1> QED
  BY <1>1, <1>3, <1>5, <1>6, <1>8, TermMoves

\* block_task() of a task that no queue is to know of.
AloneBlocked(kk, O, z, L, c, r) ==
  /\ KernelOK(r, O, z, L) /\ OneRuns(r) /\ r.current = c /\ r.postponed = TRUE
  /\ r.task_switch_lock = 0 /\ r.state[c] = TASK_STATE_BLOCK
  /\ Blk(r) = Blk(kk) \cup {c} /\ Non(r) = Non(kk)

LEMMA BlockedAlone ==
  ASSUME NEW kk, NEW O, NEW z, NEW L, KernelOK(kk, O, z, L), OneRuns(kk),
         kk.task_switch_lock = 1, NEW c, c = kk.current, c # Idle,
         kk.state[c] = TASK_STATE_RUNNING, O[c] \notin L \cup {TermQueue},
         NEW r, r = [block_task(kk) EXCEPT !.task_switch_lock = @ - 1]
  PROVE  AloneBlocked(kk, O, z, L, c, r)
<1>1. /\ kk \in KernelState /\ c \in Task /\ kk.task_switch_lock > 0
      /\ kk.state \in [Task -> TaskState]
      /\ ListsOK(kk.first_task, kk.last_task, kk.state, kk.next, kk.queue, O, z, L)
  BY Fields DEF KernelOK
<1>2. PICK s : s = block_task(kk)
  OBVIOUS
<1>3. BlockStep(kk, s)
  BY <1>1, <1>2, BlockFields
<1>4. /\ s \in KernelState /\ s.state = [kk.state EXCEPT ![c] = TASK_STATE_BLOCK]
      /\ s.postponed = TRUE /\ s.current = c /\ s.first_task = kk.first_task
      /\ s.last_task = kk.last_task /\ s.next = kk.next /\ s.queue = kk.queue
      /\ s.task_switch_lock = 1
  BY <1>3 DEF BlockStep
<1>5. /\ {t \in Task : s.state[t] = TASK_STATE_BLOCK}
           = {t \in Task : kk.state[t] = TASK_STATE_BLOCK} \cup {c}
      /\ {t \in Task : s.state[t] = TASK_STATE_NONE} = {t \in Task : kk.state[t] = TASK_STATE_NONE}
      /\ s.state[c] = TASK_STATE_BLOCK /\ \A u \in Task \ {c} : s.state[u] = kk.state[u]
  BY <1>1, <1>4, BlockedSets
<1>6. ListsOK(kk.first_task, kk.last_task, s.state, kk.next, kk.queue, O, z, L)
  BY <1>1, <1>5, ListsBlock
<1>7. r = [s EXCEPT !.task_switch_lock = @ - 1]
  BY <1>2
<1>8. /\ r \in KernelState /\ r.state = s.state /\ r.postponed = TRUE /\ r.current = c
      /\ r.first_task = kk.first_task /\ r.last_task = kk.last_task /\ r.next = kk.next
      /\ r.queue = kk.queue /\ r.task_switch_lock = 0
  <2>1. r = [s EXCEPT !.task_switch_lock = 0]
    <3>1. s.task_switch_lock - 1 = 0
      BY <1>4
    <3> QED
      BY <1>7, <3>1, Zenon
  <2>2. PICK v : v = r
    OBVIOUS
  <2>3. v = [s EXCEPT !.task_switch_lock = 0]
    BY <2>1, <2>2
  <2>4. /\ v \in KernelState /\ v.state = s.state /\ v.postponed = s.postponed
        /\ v.current = s.current /\ v.first_task = s.first_task
        /\ v.last_task = s.last_task /\ v.next = s.next
        /\ v.queue = s.queue /\ v.task_switch_lock = 0
    <3>1. s \in KernelState
      BY <1>4
    <3> QED
      BY <2>3, <3>1 DEF KernelState
  <2> QED
    BY <1>4, <2>2, <2>4
<1>9. KernelOK(r, O, z, L)
  BY <1>6, <1>8 DEF KernelOK
<1>10. Blk(r) = Blk(kk) \cup {c} /\ Non(r) = Non(kk)
  BY <1>5, <1>8 DEF Blk, Non
<1>11. OneRuns(r)
  <2>1. \A u \in Task : r.state[u] = TASK_STATE_RUNNING => u = c
    BY <1>1, <1>5, <1>8, StatesDiffer DEF OneRuns
  <2>2. r.state[r.current] = TASK_STATE_BLOCK
    BY <1>5, <1>8
  <2> QED
    BY <1>8, <2>1, <2>2 DEF OneRuns
<1> QED
  BY <1>5, <1>8, <1>9, <1>10, <1>11 DEF AloneBlocked

LEMMA TermBlockStep ==
  ASSUME Whole, TermBlock
  PROVE  Whole'
<1>1. /\ TermGoes("check") /\ quitter' = quitter /\ term' = term /\ At("loop")
      /\ k' = [block_task(k) EXCEPT !.task_switch_lock = @ - 1]
  BY DEF TermBlock, Goto, TermGoes
<1>2. /\ k.current = Terminator /\ pc[Terminator] = "loop" /\ Terminator # Idle
      /\ k.state[Terminator] = TASK_STATE_RUNNING /\ on[Terminator] = NULL
  BY <1>1, TermFacts
<1>3. quitter = NULL /\ term = Terminator /\ k.task_switch_lock = 1
  BY <1>2 DEF Whole, TerminatorOK, SwitchOK
<1>4. /\ KernelOK(k, on, quitter, Queues) /\ OneRuns(k)
      /\ on[Terminator] \notin Queues \cup {TermQueue}
  BY <1>2, QueuesFacts, QueueFacts DEF Whole
<1>5. PICK r : r = k'
  OBVIOUS
<1>6. /\ KernelOK(r, on, quitter, Queues) /\ OneRuns(r) /\ r.current = Terminator
      /\ r.postponed = TRUE /\ r.task_switch_lock = 0
      /\ r.state[Terminator] = TASK_STATE_BLOCK
      /\ Blk(r) = Blk(k) \cup {Terminator} /\ Non(r) = Non(k)
  <2>1. r = [block_task(k) EXCEPT !.task_switch_lock = @ - 1]
    BY <1>1, <1>5
  <2>2. AloneBlocked(k, on, quitter, Queues, Terminator, r)
    BY <1>2, <1>3, <1>4, <2>1, BlockedAlone
  <2> QED
    BY <2>2 DEF AloneBlocked
<1>7. pc'[Terminator] = "check"
  BY <1>1, TypeFacts, QueueFacts DEF TermGoes
<1>8. SwitchOK'
  BY <1>5, <1>6, <1>7 DEF SwitchOK
<1> QED
  BY <1>1, <1>3, <1>5, <1>6, <1>8, TermMoves

\* The termination queue without its first task, who is taken apart.
Unlinked(kk, O, L, z, r) ==
  /\ KernelOK(r, O, z, L) /\ OneRuns(r) /\ r.current = kk.current
  /\ r.state = kk.state /\ r.task_switch_lock = kk.task_switch_lock
  /\ Blk(r) = Blk(kk) /\ Non(r) = Non(kk)
  /\ z \in Task /\ kk.state[z] = TASK_STATE_BLOCK /\ O[z] = TermQueue

UnlinkStep(kk, z, second, r) ==
  r = [kk EXCEPT !.queue[TermQueue].first_task = second,
                 !.queue[TermQueue].last_task = IF second = NULL /\ z # NULL THEN NULL ELSE @,
                 !.queue[TermQueue].amount_waiting = @ - 1]

LEMMA Taken ==
  ASSUME NEW kk, NEW O, NEW L, KernelOK(kk, O, NULL, L), OneRuns(kk),
         TermQueue \notin L, L \subseteq Queue,
         NEW z, z = kk.queue[TermQueue].first_task, kk.queue[TermQueue].amount_waiting > 0,
         NEW second, second = IF z = NULL THEN NULL ELSE kk.next[z],
         NEW r, UnlinkStep(kk, z, second, r)
  PROVE  Unlinked(kk, O, L, z, r)
<1> DEFINE w == kk.queue[TermQueue]
           S == Waiting(kk.state, O, NULL, TermQueue)
<1>1. /\ kk \in KernelState /\ kk.queue \in [Queue -> ResourceQueue]
      /\ kk.next \in [Task -> TaskOrNull]
      /\ ListsOK(kk.first_task, kk.last_task, kk.state, kk.next, kk.queue, O, NULL, L)
      /\ TermQueue \in Queue
  BY Fields, QueueFacts DEF KernelOK
<1>2. /\ w \in ResourceQueue /\ w.amount_waiting \in Nat
      /\ w.first_task \in TaskOrNull /\ w.last_task \in TaskOrNull
  BY <1>1 DEF ResourceQueue
<1>3. Chain(kk.next, z, w.last_task, S) /\ w.amount_waiting = Cardinality(S)
  BY <1>1 DEF ListsOK
<1>4. z # NULL
  <2>1. S \in SUBSET Task
    BY DEF Waiting
  <2>2. S # {}
    BY <1>2, <1>3, <2>1, TasksFinite
  <2> HIDE DEF S, w
  <2> QED
    BY <1>3, <2>2, ChainEnds
<1>5. z \in Task /\ second = kk.next[z] /\ second \in TaskOrNull
  BY <1>1, <1>2, <1>4 DEF TaskOrNull
<1>6. PICK x : x = IF second = NULL THEN NULL ELSE w.last_task
  OBVIOUS
<1>7. PICK e : e = [[[w EXCEPT !.first_task = second] EXCEPT !.last_task = x]
                      EXCEPT !.amount_waiting = @ - 1]
  OBVIOUS
<1>8. /\ e \in ResourceQueue /\ e.amount_waiting = w.amount_waiting - 1
      /\ e.first_task = second /\ e.last_task = x
  <2>1. w.amount_waiting - 1 \in Nat /\ x \in TaskOrNull
    BY <1>2, <1>6 DEF TaskOrNull
  <2> HIDE DEF w
  <2> QED
    BY <1>2, <1>5, <1>7, <2>1 DEF ResourceQueue
<1>9. PICK q2 : q2 = [kk.queue EXCEPT ![TermQueue] = e]
  OBVIOUS
<1>10. q2 \in [Queue -> ResourceQueue] /\ q2[TermQueue] = e /\ \A p \in L : q2[p] = kk.queue[p]
  BY <1>1, <1>8, <1>9
<1>11. r = [kk EXCEPT !.queue = q2]
  <2>1. x = IF second = NULL /\ z # NULL THEN NULL ELSE w.last_task
    BY <1>4, <1>6
  <2>2. q2 = [kk.queue EXCEPT ![TermQueue].first_task = second, ![TermQueue].last_task = x,
                              ![TermQueue].amount_waiting = @ - 1]
    BY <1>1, <1>7, <1>9
  <2>3. r = [kk EXCEPT !.queue[TermQueue].first_task = second,
                       !.queue[TermQueue].last_task = x,
                       !.queue[TermQueue].amount_waiting = @ - 1]
    BY <2>1 DEF UnlinkStep
  <2> QED
    BY <1>1, <2>2, <2>3 DEF KernelState
<1>12. /\ r \in KernelState /\ r.current = kk.current /\ r.first_task = kk.first_task
       /\ r.last_task = kk.last_task /\ r.state = kk.state /\ r.next = kk.next
       /\ r.queue = q2 /\ r.task_switch_lock = kk.task_switch_lock
  BY <1>1, <1>10, <1>11 DEF KernelState
<1>13. /\ q2[TermQueue].amount_waiting = kk.queue[TermQueue].amount_waiting - 1
       /\ q2[TermQueue].first_task = kk.next[z]
       /\ q2[TermQueue].last_task = IF kk.next[z] = NULL THEN NULL
                                    ELSE kk.queue[TermQueue].last_task
  BY <1>5, <1>6, <1>8, <1>10
<1>14. /\ ListsOK(kk.first_task, kk.last_task, kk.state, kk.next, q2, O, z, L)
       /\ z \in Waiting(kk.state, O, NULL, TermQueue)
  BY <1>1, <1>4, <1>10, <1>13, ListsTake
<1>15. KernelOK(r, O, z, L)
  BY <1>12, <1>14 DEF KernelOK
<1>16. OneRuns(r) /\ Blk(r) = Blk(kk) /\ Non(r) = Non(kk)
  BY <1>12 DEF OneRuns, Blk, Non
<1> QED
  BY <1>5, <1>12, <1>14, <1>15, <1>16 DEF Waiting, Unlinked

LEMMA TermTakeStep ==
  ASSUME Whole, TermTake
  PROVE  Whole'
<1>1. PICK z : z = k.queue[TermQueue].first_task
  OBVIOUS
<1>2. PICK second : second = IF z = NULL THEN NULL ELSE k.next[z]
  OBVIOUS
<1>3. /\ At("loop") /\ k.queue[TermQueue].amount_waiting > 0
      /\ quitter' = z /\ term' = term
      /\ UnlinkStep(k, z, second, k')
      /\ z # NULL => TermGoes("drain")
  BY <1>1, <1>2, Zenon DEF TermTake, Goto, TermGoes, UnlinkStep
<1>4. /\ k.current = Terminator /\ pc[Terminator] = "loop" /\ Terminator \notin Blk(k)
      /\ k.state[Terminator] = TASK_STATE_RUNNING
  BY <1>3, TermFacts
<1>5. quitter = NULL /\ term = Terminator /\ k.task_switch_lock = 1
  BY <1>4 DEF Whole, TerminatorOK, SwitchOK
<1>6. /\ KernelOK(k, on, NULL, Queues) /\ OneRuns(k) /\ Queues \subseteq Queue
      /\ TermQueue \notin Queues
  BY <1>5, QueuesFacts DEF Whole
<1>7. PICK r : r = k'
  OBVIOUS
<1>8. UnlinkStep(k, z, second, r)
  BY <1>3, <1>7
<1>9. /\ KernelOK(r, on, z, Queues) /\ OneRuns(r) /\ r.current = k.current
      /\ r.state = k.state /\ r.task_switch_lock = k.task_switch_lock
      /\ Blk(r) = Blk(k) /\ Non(r) = Non(k)
      /\ z \in Task /\ k.state[z] = TASK_STATE_BLOCK /\ on[z] = TermQueue
  <2>1. Unlinked(k, on, Queues, z, r)
    BY <1>1, <1>2, <1>3, <1>6, <1>8, Taken
  <2> QED
    BY <2>1 DEF Unlinked
<1>10. z # NULL /\ pc[z] = "exit" /\ z \in User
  BY <1>9, QueueFacts DEF Whole, CallsOK
<1>11. TermGoes("drain") /\ pc'[Terminator] = "drain"
  BY <1>3, <1>10, TypeFacts, QueueFacts DEF TermGoes
<1>12. SwitchOK'
  BY <1>4, <1>5, <1>7, <1>9, <1>11, StatesDiffer DEF SwitchOK
<1> QED
  BY <1>3, <1>4, <1>5, <1>7, <1>9, <1>10, <1>11, <1>12, TermMoves

\* The structure of a task that was taken apart is freed.
Released(kk, O, M, z, r) ==
  /\ KernelOK(r, O, NULL, M) /\ OneRuns(r) /\ r.current = kk.current
  /\ r.state[r.current] = kk.state[kk.current]
  /\ r.task_switch_lock = kk.task_switch_lock
  /\ Blk(r) = Blk(kk) \ {z} /\ Non(r) = Non(kk) \cup {z}

LEMMA Freed ==
  ASSUME NEW kk, NEW O, NEW z \in Task, NEW L, KernelOK(kk, O, z, L), OneRuns(kk),
         z # Idle, kk.state[z] = TASK_STATE_BLOCK, z # kk.current,
         NEW O2, \A u \in Task \ {z} : O2[u] = O[u], NEW M, M \subseteq L,
         NEW r, r = [kk EXCEPT !.state[z] = TASK_STATE_NONE, !.next[z] = NULL]
  PROVE  Released(kk, O2, M, z, r)
<1>1. /\ kk \in KernelState /\ kk.current \in Task
      /\ kk.state \in [Task -> TaskState] /\ kk.next \in [Task -> TaskOrNull]
      /\ ListsOK(kk.first_task, kk.last_task, kk.state, kk.next, kk.queue, O, z, L)
  BY Fields DEF KernelOK
<1>2. PICK s2 : s2 = [kk.state EXCEPT ![z] = TASK_STATE_NONE]
  OBVIOUS
<1>3. PICK n2 : n2 = [kk.next EXCEPT ![z] = NULL]
  OBVIOUS
<1>4. /\ s2 \in [Task -> TaskState] /\ n2 \in [Task -> TaskOrNull]
      /\ s2[z] = TASK_STATE_NONE /\ \A u \in Task \ {z} : s2[u] = kk.state[u] /\ n2[u] = kk.next[u]
  BY <1>1, <1>2, <1>3 DEF TaskState, TaskOrNull
<1>5. r = [kk EXCEPT !.state = s2, !.next = n2]
  BY <1>1, <1>2, <1>3 DEF KernelState
<1>6. /\ r \in KernelState /\ r.state = s2 /\ r.next = n2 /\ r.current = kk.current
      /\ r.first_task = kk.first_task /\ r.last_task = kk.last_task /\ r.queue = kk.queue
      /\ r.task_switch_lock = kk.task_switch_lock
  BY <1>1, <1>4, <1>5 DEF KernelState
<1>7. ListsOK(kk.first_task, kk.last_task, s2, n2, kk.queue, O2, NULL, M)
  BY <1>1, <1>4, ListsFree
<1>8. KernelOK(r, O2, NULL, M)
  BY <1>6, <1>7 DEF KernelOK
<1>9. r.state[r.current] = kk.state[kk.current]
  BY <1>1, <1>4, <1>6
<1>10. OneRuns(r)
  BY <1>1, <1>4, <1>6, <1>9, StatesDiffer DEF OneRuns
<1>11. Blk(r) = Blk(kk) \ {z} /\ Non(r) = Non(kk) \cup {z}
  BY <1>4, <1>6, StatesDiffer DEF Blk, Non
<1> QED
  BY <1>6, <1>8, <1>9, <1>10, <1>11 DEF Released

LEMMA TermFreeStep ==
  ASSUME Whole, TermFree
  PROVE  Whole'
<1>1. PICK z : z = quitter
  OBVIOUS
<1>2. /\ At("drain") /\ (wq[z] # NULL => k.queue[wq[z]].amount_waiting = 0)
      /\ k' = [k EXCEPT !.state[z] = TASK_STATE_NONE, !.next[z] = NULL]
      /\ queues' = queues \ {wq[z]} /\ wq' = [wq EXCEPT ![z] = NULL]
      /\ pid' = [pid EXCEPT ![z] = 0] /\ on' = [on EXCEPT ![z] = NULL]
      /\ pc' = [pc EXCEPT ![z] = "user", ![Terminator] = "loop"]
      /\ quitter' = NULL
      /\ term' = term /\ last_pid' = last_pid /\ children' = children
  BY <1>1 DEF TermFree, Drained
<1>3. /\ k.current = Terminator /\ pc[Terminator] = "drain" /\ Terminator \notin Blk(k)
      /\ k.state[Terminator] = TASK_STATE_RUNNING /\ on[Terminator] = NULL /\ Terminator \in Task
      /\ Terminator \notin User
  BY <1>2, TermFacts
<1>4. /\ term = Terminator /\ k.task_switch_lock = 1 /\ z \in User /\ z \in Task /\ pc[z] = "exit"
      /\ z # Terminator /\ z # Idle /\ z \in Blk(k) /\ k.state[z] = TASK_STATE_BLOCK
      /\ z # k.current
  BY <1>1, <1>3, QueueFacts DEF Whole, TerminatorOK, SwitchOK, StatesOK, Blk
<1>5. /\ on'[z] = NULL /\ (\A u \in Task \ {z} : on'[u] = on[u])
      /\ pid'[z] = 0 /\ (\A u \in Task \ {z} : pid'[u] = pid[u])
      /\ wq'[z] = NULL /\ (\A u \in Task \ {z} : wq'[u] = wq[u])
      /\ pc'[z] = "user" /\ pc'[Terminator] = "loop"
      /\ (\A u \in Task \ {z, Terminator} : pc'[u] = pc[u])
  BY <1>2, <1>3, <1>4, TypeFacts
<1>6. /\ KernelOK(k, on, z, Queues) /\ OneRuns(k) /\ Queues' \subseteq Queues
  BY <1>1, <1>2 DEF Whole, Queues
<1>7. PICK r : r = k'
  OBVIOUS
<1>8. PICK O : O = on'
  OBVIOUS
<1>9. PICK M : M = Queues'
  OBVIOUS
<1>10. /\ KernelOK(r, O, NULL, M) /\ OneRuns(r) /\ r.current = k.current
       /\ r.state[r.current] = k.state[k.current]
       /\ r.task_switch_lock = k.task_switch_lock
       /\ Blk(r) = Blk(k) \ {z} /\ Non(r) = Non(k) \cup {z}
  <2>1. (\A u \in Task \ {z} : O[u] = on[u]) /\ M \subseteq Queues
        /\ r = [k EXCEPT !.state[z] = TASK_STATE_NONE, !.next[z] = NULL]
    BY <1>2, <1>5, <1>6, <1>7, <1>8, <1>9
  <2>2. Released(k, O, M, z, r)
    BY <1>4, <1>6, <2>1, Freed
  <2> QED
    BY <2>2 DEF Released
<1>11. CallsOK'
  <2>1. ASSUME NEW u \in User PROVE pc'[u] \in {"user", "wait", "read", "exit"}
    BY <1>3, <1>5, QueueFacts DEF Whole, CallsOK
  <2>2. pc'[Idle] = "user"
    BY <1>4, <1>5, QueueFacts DEF Whole, CallsOK
  <2>3. ASSUME NEW u \in Task
        PROVE  /\ on'[u] = KbdQueue <=> pc'[u] = "read"
               /\ on'[u] = TermQueue <=> pc'[u] = "exit"
               /\ on'[u] \in WaitQueue <=> pc'[u] = "wait"
    <3>1. CASE u = z \/ u = Terminator
      BY <1>3, <1>4, <1>5, <3>1, QueueFacts
    <3>2. CASE u # z /\ u # Terminator
      BY <1>5, <3>2 DEF Whole, CallsOK
    <3> QED
      BY <3>1, <3>2
  <2> QED
    BY <1>5, <2>1, <2>2, <2>3 DEF CallsOK
<1>12. StatesOK'
  <2>1. ASSUME NEW u \in Blk(k') PROVE u = Terminator \/ pc'[u] \in {"wait", "read", "exit"}
    BY <1>5, <1>7, <1>10 DEF Whole, StatesOK, Blk
  <2>2. Terminator \notin Blk(k')
    BY <1>3, <1>7, <1>10
  <2>3. ASSUME NEW u \in Task, pc'[u] = "exit" PROVE u \in Blk(k')
    BY <1>5, <1>7, <1>10, <2>3 DEF Whole, StatesOK
  <2>4. ASSUME NEW u \in Task, pc'[u] = "wait", u \in Blk(k') PROVE on'[u] \in queues'
    <3>1. u # z /\ u # Terminator /\ on'[u] = on[u] /\ pc[u] = "wait" /\ u \in Blk(k)
      BY <1>5, <1>7, <1>10, <2>4
    <3>2. on[u] \in queues
      BY <2>4, <3>1 DEF Whole, StatesOK
    <3>3. on[u] # wq[z]
      <4> SUFFICES ASSUME on[u] = wq[z] PROVE FALSE
        OBVIOUS
      <4>1. PICK q : q = wq[z]
        OBVIOUS
      <4>2. q \in Queues /\ q # NULL
        BY <3>2, <4>1, TypeFacts, QueueFacts DEF Queues
      <4>3. k.queue[q].amount_waiting = 0
        BY <1>2, <4>1, <4>2
      <4>4. k.queue[q].amount_waiting = Cardinality(Waiting(k.state, on, z, q))
        BY <1>6, <4>2 DEF KernelOK, ListsOK
      <4>5. Waiting(k.state, on, z, q) \in SUBSET Task /\ u \in Waiting(k.state, on, z, q)
        BY <2>4, <3>1, <4>1 DEF Waiting, Blk
      <4> QED
        BY <4>3, <4>4, <4>5, TasksFinite
    <3> QED
      BY <1>2, <3>1, <3>2, <3>3
  <2>5. ASSUME NEW u \in Non(k') PROVE u \in User /\ pc'[u] = "user" /\ wq'[u] = NULL
    <3>1. CASE u = z
      BY <1>4, <1>5, <3>1
    <3>2. CASE u # z
      <4>1. u \in Non(k) /\ u \in Task
        BY <1>7, <1>10, <3>2 DEF Non
      <4>2. u \in User /\ pc[u] = "user" /\ wq[u] = NULL
        BY <4>1 DEF Whole, StatesOK
      <4> QED
        BY <1>3, <1>5, <3>2, <4>1, <4>2
    <3> QED
      BY <3>1, <3>2
  <2> QED
    BY <2>1, <2>2, <2>3, <2>4, <2>5 DEF StatesOK
<1>13. SwitchOK' /\ TerminatorOK'
  BY <1>2, <1>3, <1>4, <1>5, <1>7, <1>10, StatesDiffer DEF SwitchOK, TerminatorOK
<1>14. TypeOK'
  <2>1. /\ wq' \in [Task -> WaitQueue \cup {NULL}] /\ pid' \in [Task -> 0 .. MaxPid]
        /\ on' \in [Task -> Queue \cup {NULL}] /\ queues' \subseteq WaitQueue
    <3>1. 0 \in 0 .. MaxPid
      BY TypeFacts
    <3> QED
      BY <1>2, <3>1, TypeFacts
  <2>2. /\ pc' \in [Task -> {"user", "wait", "read", "exit", "start", "loop", "check",
                             "relock", "drain"}]
        /\ quitter' \in TaskOrNull
    BY <1>2, TypeFacts DEF TaskOrNull
  <2> QED
    BY <1>2, <1>7, <1>10, <2>1, <2>2, TypeFacts DEF KernelOK, TypeOK
<1>15. OwnersOK'
  <2>1. ASSUME NEW u \in Task, wq'[u] # NULL PROVE wq'[u] \in queues'
    <3>1. u # z /\ wq'[u] = wq[u] /\ wq[u] \in queues
      BY <1>5, <2>1 DEF Whole, OwnersOK
    <3>2. wq[u] # wq[z]
      BY <1>4, <2>1, <3>1 DEF Whole, OwnersOK
    <3> QED
      BY <1>2, <3>1, <3>2
  <2>2. ASSUME NEW u \in Task, NEW v \in Task, wq'[u] # NULL, wq'[u] = wq'[v] PROVE u = v
    BY <1>5, <2>2 DEF Whole, OwnersOK
  <2>3. ASSUME NEW q \in queues' PROVE \E u \in Task : wq'[u] = q
    <3>1. q \in queues /\ q # wq[z]
      BY <1>2
    <3>2. PICK u \in Task : wq[u] = q
      BY <3>1 DEF Whole, OwnersOK
    <3> QED
      BY <1>5, <3>1, <3>2
  <2> QED
    BY <2>1, <2>2, <2>3 DEF OwnersOK
<1>16. PidsOK'
  <2>1. ASSUME NEW u \in User, u \notin Non(k')
        PROVE  u # z /\ u \in Task /\ u \notin Non(k) /\ pid'[u] = pid[u] /\ pc'[u] = pc[u]
    BY <1>3, <1>5, <1>7, <1>10, <2>1, QueueFacts
  <2> QED
    BY <1>2, <2>1 DEF Whole, PidsOK
<1> QED
  BY <1>2, <1>7, <1>8, <1>9, <1>10, <1>11, <1>12, <1>13, <1>14, <1>15, <1>16 DEF Whole

LEMMA ReturnStep ==
  ASSUME Whole, NEW t \in User, Return(t)
  PROVE  Whole'
<1>1. /\ k.current = t /\ pc[t] \in {"wait", "read"} /\ k' = k
      /\ pc' = [pc EXCEPT ![t] = "user"] /\ on' = [on EXCEPT ![t] = NULL]
      /\ pid' = pid /\ wq' = wq /\ queues' = queues /\ term' = term /\ quitter' = quitter
      /\ last_pid' = last_pid /\ children' = children
  BY DEF Return
<1>2. t \in Task /\ t # Terminator /\ t # Idle
  BY QueueFacts
<1>3. k.state[t] = TASK_STATE_RUNNING /\ k.state[t] # TASK_STATE_BLOCK /\ t \notin Blk(k)
      /\ t \notin Non(k)
  BY <1>1, <1>2, StatesDiffer DEF Whole, OneRuns, SwitchOK, Blk, Non
<1>4. /\ on'[t] = NULL /\ (\A u \in Task \ {t} : on'[u] = on[u])
      /\ pc'[t] = "user" /\ (\A u \in Task \ {t} : pc'[u] = pc[u])
  BY <1>1, <1>2, TypeFacts
<1>5. KernelOK(k', on', quitter', Queues') /\ OneRuns(k')
  <2>1. KernelOK(k, on, quitter, Queues) /\ OneRuns(k)
    BY DEF Whole
  <2>2. KernelOK(k, on', quitter, Queues)
    BY <1>2, <1>3, <1>4, <2>1, KernelOn
  <2> QED
    BY <1>1, <2>1, <2>2 DEF Queues
<1>6. TypeOK'
  BY <1>1, TypeFacts DEF TypeOK
<1>7. CallsOK'
  BY <1>2, <1>4, QueueFacts DEF Whole, CallsOK
<1>8. StatesOK'
  <2>1. \A u \in Blk(k) \cup Non(k) : u \in Task \ {t}
    BY <1>3 DEF Blk, Non
  <2>2. \A u \in Task : pc'[u] = "exit" => pc[u] = "exit"
    BY <1>4
  <2>3. pc'[Terminator] = pc[Terminator]
    BY <1>2, <1>4, QueueFacts
  <2> QED
    BY <1>1, <1>4, <2>1, <2>2, <2>3 DEF Whole, StatesOK
<1>9. SwitchOK' /\ TerminatorOK'
  <2>1. pc'[Terminator] = pc[Terminator] /\ (quitter # NULL => quitter # t /\ pc'[quitter] = pc[quitter])
    BY <1>1, <1>2, <1>4, QueueFacts DEF Whole, TerminatorOK
  <2> QED
    BY <1>1, <2>1 DEF Whole, SwitchOK, TerminatorOK
<1>10. OwnersOK'
  BY <1>1 DEF Whole, OwnersOK
<1>11. PidsOK'
  <2>1. \A u \in User : pc[u] = "exit" => pc'[u] = "exit"
    BY <1>1, <1>4, QueueFacts
  <2> QED
    BY <1>1, <2>1, PidsStay
<1> QED
  BY <1>5, <1>6, <1>7, <1>8, <1>9, <1>10, <1>11 DEF Whole

LEMMA NextStep ==
  ASSUME Whole, [Next]_vars
  PROVE  Whole' \/ torn'
<1>1. ASSUME NEW t \in User, fork(t) PROVE Whole'
  BY <1>1, ForkStep
<1>2. ASSUME NEW t \in User, exec(t) PROVE Whole'
  BY <1>2, ExecStep
<1>3. ASSUME NEW t \in User, exit(t) PROVE Whole'
  BY <1>3, ExitStep
<1>4. ASSUME NEW t \in User, read(t) PROVE Whole'
  BY <1>4, ReadStep
<1>5. ASSUME NEW t \in User, Return(t) PROVE Whole'
  BY <1>5, ReturnStep
<1>6. ASSUME NEW t \in User, NEW p \in 0 .. MaxPid, wait(t, p) PROVE Whole'
  BY <1>6, WaitCallStep
<1>7. ASSUME TermStep PROVE Whole'
  <2>1. CASE TermStart \/ TermRelock
    BY <2>1, TermLockStep
  <2>2. CASE TermBlock
    BY <2>2, TermBlockStep
  <2>3. CASE TermCheck
    BY <2>3, TermCheckStep
  <2>4. CASE TermTake
    BY <2>4, TermTakeStep
  <2>5. CASE TermDrain
    BY <2>5, TermDrainStep
  <2>6. CASE TermFree
    BY <2>6, TermFreeStep
  <2> QED
    BY <1>7, <2>1, <2>2, <2>3, <2>4, <2>5, <2>6 DEF TermStep
<1>8. ASSUME scheduler_irq0 PROVE Whole'
  BY <1>8, TimerStep
<1>9. ASSUME irq1 PROVE Whole'
  BY <1>9, KeyboardStep
<1>10. ASSUME UNCHANGED vars PROVE Whole'
  BY <1>10 DEF vars, Whole, TypeOK, CallsOK, StatesOK, SwitchOK, TerminatorOK, OwnersOK, PidsOK,
               Queues
<1>11. ASSUME DrainInterrupted \/ CheckInterrupted PROVE torn'
  BY <1>11 DEF DrainInterrupted, CheckInterrupted
<1>12. ASSUME Stopped PROVE UNCHANGED vars
  BY <1>12 DEF Stopped
<1> QED
  BY <1>1, <1>2, <1>3, <1>4, <1>5, <1>6, <1>7, <1>8, <1>9, <1>10, <1>11, <1>12 DEF Next

\* Once a key has torn the ready list nothing more is said.
LEMMA TornStays ==
  ASSUME torn, [Next]_vars
  PROVE  UNCHANGED vars
<1>1. (\A t : ~InUserMode(t)) /\ (\A place : ~At(place)) /\ ~Interruptible
  BY DEF InUserMode, At, Interruptible
<1>2. \A t \in User : /\ ~fork(t) /\ ~exec(t) /\ ~exit(t) /\ ~read(t) /\ ~Return(t)
                     /\ \A p \in 0 .. MaxPid : ~wait(t, p)
  BY <1>1 DEF fork, exec, exit, read, wait, Return
<1>3. ~TermStep /\ ~DrainInterrupted /\ ~CheckInterrupted
  BY <1>1 DEF TermStep, TermStart, TermBlock, TermCheck, TermRelock, TermTake, TermDrain, TermFree,
       DrainInterrupted, CheckInterrupted
<1>4. ~scheduler_irq0 /\ ~irq1
  BY <1>1 DEF scheduler_irq0, irq1
<1> QED
  BY <1>2, <1>3, <1>4 DEF Next, Stopped

LEMMA TornIsBoolean ==
  ASSUME torn \in BOOLEAN, [Next]_vars
  PROVE  torn' \in BOOLEAN
<1>1. ASSUME NEW t \in User, fork(t) \/ exec(t) \/ exit(t) \/ read(t) \/ Return(t) PROVE torn' = torn
  BY <1>1 DEF fork, exec, exit, read, Return
<1>2. ASSUME NEW t \in User, NEW p \in 0 .. MaxPid, wait(t, p) PROVE torn' = torn
  BY <1>2 DEF wait
<1>3. ASSUME TermStep PROVE torn' = torn
  BY <1>3 DEF TermStep, TermStart, TermBlock, TermCheck, TermRelock, TermTake, TermDrain, TermFree
<1>4. ASSUME DrainInterrupted \/ CheckInterrupted PROVE torn' = TRUE
  BY <1>4 DEF DrainInterrupted, CheckInterrupted
<1>5. ASSUME scheduler_irq0 \/ irq1 PROVE torn' = torn
  BY <1>5 DEF scheduler_irq0, irq1
<1> QED
  BY <1>1, <1>2, <1>3, <1>4, <1>5 DEF Next, Stopped, vars

\* The inductive invariant.
IInv == torn \in BOOLEAN /\ (torn \/ Whole)

LEMMA IInvNext ==
  ASSUME IInv, [Next]_vars
  PROVE  IInv'
<1>1. CASE torn
  BY <1>1, TornStays DEF vars, IInv
<1>2. CASE ~torn
  BY <1>2, NextStep, TornIsBoolean DEF IInv
<1> QED
  BY <1>1, <1>2

-----------------------------------------------------------------------------
(***************************************************************************)
(* The state kernel_main leaves.                                           *)
(***************************************************************************)
LEMMA ChainEmpty ==
  ASSUME NEW next
  PROVE  Chain(next, NULL, NULL, {})
<1>1. Cardinality({}) = 0
  BY FS_EmptySet
<1>2. PICK f : f = [i \in 1 .. 0 |-> NULL]
  OBVIOUS
<1>3. f \in [1 .. 0 -> {}]
  BY <1>2
<1>4. Links(next, NULL, NULL, {}, f)
  BY <1>1, <1>3 DEF Links
<1> QED
  BY <1>4 DEF Chain

LEMMA InitOwners ==
  ASSUME Init
  PROVE  /\ wq \in [Task -> WaitQueue \cup {NULL}] /\ queues \subseteq WaitQueue
         /\ \A t \in Task \ {First, Idle, Terminator} : wq[t] = NULL
         /\ OwnersOK
<1> DEFINE D == Kernel \cup {First}
<1>1. PICK q : q = CHOOSE f \in Injection(D, WaitQueue) : TRUE
  OBVIOUS
<1>2. q \in Injection(D, WaitQueue)
  <2>1. Injection(D, WaitQueue) # {}
    BY LifecycleAssumption DEF ExistsInjection
  <2> QED
    BY <1>1, <2>1
<1>3. q \in [D -> WaitQueue] /\ \A a, b \in D : q[a] = q[b] => a = b
  BY <1>2 DEF Injection, IsInjective
<1>4. wq = [t \in Task |-> IF t \in DOMAIN q THEN q[t] ELSE NULL] /\ queues = Range(q)
  <2>1. q = CHOOSE f \in Injection(Kernel \cup {First}, WaitQueue) : TRUE
    BY <1>1
  <2> HIDE DEF D
  <2>2. wq = [t \in Task |-> IF t \in DOMAIN q THEN q[t] ELSE NULL]
    BY <2>1 DEF Init
  <2>3. queues = Range(q)
    BY <2>1 DEF Init
  <2> QED
    BY <2>2, <2>3
<1>5. D \subseteq Task /\ D = {First, Idle, Terminator}
  BY QueueFacts, LifecycleAssumption DEF Kernel, User
<1>6. queues = {q[t] : t \in D}
  BY <1>3, <1>4 DEF Range
<1> HIDE DEF D
<1>7. \A t \in Task : wq[t] = IF t \in D THEN q[t] ELSE NULL
  BY <1>3, <1>4
<1>8. wq \in [Task -> WaitQueue \cup {NULL}] /\ queues \subseteq WaitQueue
  BY <1>3, <1>4, <1>6
<1>9. OwnersOK
  BY <1>3, <1>5, <1>6, <1>7, QueueFacts DEF OwnersOK
<1> QED
  BY <1>5, <1>7, <1>8, <1>9

LEMMA InitKernel ==
  ASSUME Init
  PROVE  KernelOK(k, on, NULL, Queues) /\ OneRuns(k) /\ Blk(k) = {}
         /\ Non(k) = Task \ {First, Idle, Terminator}
         /\ k.current = First /\ k.task_switch_lock = 0
         /\ k.state[First] = TASK_STATE_RUNNING
<1>1. /\ First \in Task /\ First # Idle /\ First # Terminator /\ Idle \in Task
      /\ Terminator \in Task /\ Idle # Terminator /\ NULL \notin Task
      /\ TASK_DEFAULT_TIME \in Nat /\ Sem = {}
  BY QueueFacts, LifecycleAssumption, TaskOpsAssumption DEF User, Kernel
<1>2. PICK st : st = [t \in Task |-> CASE t = First    -> TASK_STATE_RUNNING
                                       [] t \in Kernel -> TASK_STATE_ZERO
                                       [] OTHER        -> TASK_STATE_NONE]
  OBVIOUS
<1>3. PICK nx : nx = [t \in Task |-> IF t = Idle THEN Terminator ELSE NULL]
  OBVIOUS
<1>4. PICK qu : qu = [r \in Queue |-> EmptyQueue]
  OBVIOUS
<1>5. PICK se : se = [s \in Sem |-> create_semaphore(1)]
  OBVIOUS
<1>6. k = [current |-> First, first_task |-> Idle, last_task |-> Terminator,
           sched_lock |-> 0, task_switch_lock |-> 0, postponed |-> FALSE,
           ticks |-> TASK_DEFAULT_TIME, state |-> st, next |-> nx, sem |-> se, queue |-> qu]
  BY <1>2, <1>3, <1>4, <1>5, Zenon DEF Init
<1>7. /\ st \in [Task -> TaskState] /\ st[First] = TASK_STATE_RUNNING
      /\ st[Idle] = TASK_STATE_ZERO /\ st[Terminator] = TASK_STATE_ZERO
      /\ \A t \in Task \ {First, Idle, Terminator} : st[t] = TASK_STATE_NONE
  BY <1>1, <1>2 DEF Kernel, TaskState
<1>8. nx \in [Task -> TaskOrNull] /\ se \in [Sem -> Semaphore] /\ qu \in [Queue -> ResourceQueue]
  <2>1. EmptyQueue \in ResourceQueue
    BY DEF EmptyQueue, ResourceQueue, TaskOrNull
  <2> QED
    BY <1>1, <1>3, <1>4, <1>5, <2>1 DEF TaskOrNull
<1>9. k \in KernelState
  <2>1. Idle \in TaskOrNull /\ Terminator \in TaskOrNull /\ 0 \in Nat
    BY <1>1 DEF TaskOrNull
  <2> QED
    BY <1>1, <1>6, <1>7, <1>8, <2>1 DEF KernelState
<1>10. Rdy(st) = {Idle, Terminator}
  BY <1>1, <1>7, StatesDiffer DEF Rdy
<1>11. Chain(nx, Idle, Terminator, {Idle, Terminator})
  <2>1. PICK m : m = [t \in Task |-> NULL]
    OBVIOUS
  <2>2. PICK S : S = {Idle}
    OBVIOUS
  <2>3. PICK E : E = {}
    OBVIOUS
  <2>4. Chain(nx, NULL, NULL, E)
    BY <2>3, ChainEmpty
  <2>5. Chain(m, Idle, Idle, S)
    <3>1. PICK start : start = Idle
      OBVIOUS
    <3>2. PICK nul : nul = NULL
      OBVIOUS
    <3>3. S = E \cup {Idle} /\ Idle \notin E /\ m[Idle] = NULL
      BY <1>1, <2>1, <2>2, <2>3
    <3>4. (start = IF nul = NULL THEN Idle ELSE nul) /\ (nul # NULL => m[nul] = Idle)
          /\ \A u \in E \ {nul} : m[u] = nx[u]
      BY <2>3, <3>1, <3>2
    <3>5. Chain(m, start, Idle, S)
      BY <1>1, <2>4, <3>2, <3>3, <3>4, ChainAppend
    <3> QED
      BY <3>1, <3>5
  <2>6. PICK T : T = {Idle, Terminator}
    OBVIOUS
  <2>7. /\ T = S \cup {Terminator} /\ Terminator \notin S
        /\ Idle = (IF Idle = NULL THEN Terminator ELSE Idle)
        /\ nx[Terminator] = NULL /\ nx[Idle] = Terminator
        /\ \A u \in S \ {Idle} : nx[u] = m[u]
    BY <1>1, <1>3, <2>2, <2>6
  <2>8. Chain(nx, Idle, Terminator, T)
    BY <1>1, <2>5, <2>7, ChainAppend
  <2> QED
    BY <2>6, <2>8
<1>12. \A q : Waiting(st, on, NULL, q) = {}
  BY <1>7, <1>1, StatesDiffer DEF Waiting
<1>13. ListsOK(Idle, Terminator, st, nx, qu, on, NULL, Queues)
  <2>1. \A q \in Queue : qu[q].amount_waiting = 0 /\ qu[q].first_task = NULL /\ qu[q].last_task = NULL
    BY <1>4 DEF EmptyQueue
  <2>2. Cardinality({}) = 0
    BY FS_EmptySet
  <2>3. Queues \subseteq Queue /\ TermQueue \in Queue
    <3>1. queues \subseteq WaitQueue
      BY InitOwners
    <3> QED
      BY <3>1, QueueFacts DEF Queues
  <2>4. Chain(nx, NULL, NULL, {})
    BY ChainEmpty
  <2>5. Chain(nx, Idle, Terminator, Rdy(st))
    BY <1>10, <1>11
  <2>6. st[Idle] \notin {TASK_STATE_BLOCK, TASK_STATE_NONE}
    BY <1>7, StatesDiffer
  <2>7. \A q \in Queues : /\ qu[q].amount_waiting = Cardinality(Waiting(st, on, NULL, q))
                          /\ EndsIn(qu[q], Waiting(st, on, NULL, q))
    BY <1>12, <2>1, <2>2, <2>3 DEF EndsIn
  <2>8. /\ qu[TermQueue].amount_waiting = Cardinality(Waiting(st, on, NULL, TermQueue))
        /\ Chain(nx, qu[TermQueue].first_task, qu[TermQueue].last_task,
                 Waiting(st, on, NULL, TermQueue))
    BY <1>12, <2>1, <2>2, <2>3, <2>4
  <2> QED
    BY <2>5, <2>6, <2>7, <2>8 DEF ListsOK
<1>14. /\ k.current = First /\ k.first_task = Idle /\ k.last_task = Terminator /\ k.state = st
       /\ k.next = nx /\ k.queue = qu /\ k.task_switch_lock = 0
  BY <1>6
<1>15. KernelOK(k, on, NULL, Queues)
  BY <1>9, <1>13, <1>14 DEF KernelOK
<1>16. Blk(k) = {} /\ Non(k) = Task \ {First, Idle, Terminator}
  BY <1>1, <1>7, <1>14, StatesDiffer DEF Blk, Non
<1>17. OneRuns(k)
  BY <1>1, <1>7, <1>14, StatesDiffer DEF OneRuns
<1> QED
  BY <1>7, <1>14, <1>15, <1>16, <1>17

LEMMA InitInv ==
  ASSUME Init
  PROVE  Whole
<1>1. /\ First \in User /\ First \in Task /\ First # Idle /\ First # Terminator /\ Idle \in Task
      /\ Terminator \in Task /\ Idle # Terminator /\ MaxPid \in Nat /\ MaxPid >= 1
  BY QueueFacts, LifecycleAssumption DEF User, Kernel
<1>2. /\ pc = [t \in Task |-> IF t = Terminator THEN "start" ELSE "user"]
      /\ on = [t \in Task |-> NULL] /\ pid = [t \in Task |-> 0]
      /\ term = NULL /\ quitter = NULL /\ last_pid = 1 /\ children = [t \in Task |-> {}]
  BY Zenon DEF Init
<1>3. /\ KernelOK(k, on, NULL, Queues) /\ OneRuns(k) /\ Blk(k) = {}
      /\ Non(k) = Task \ {First, Idle, Terminator}
      /\ k.current = First /\ k.task_switch_lock = 0 /\ k.state[First] = TASK_STATE_RUNNING
  BY InitKernel
<1>4. /\ wq \in [Task -> WaitQueue \cup {NULL}] /\ queues \subseteq WaitQueue
      /\ \A t \in Task \ {First, Idle, Terminator} : wq[t] = NULL
      /\ OwnersOK
  BY InitOwners
<1>5. pc[Terminator] = "start" /\ \A t \in Task \ {Terminator} : pc[t] = "user"
  BY <1>1, <1>2
<1>6. TypeOK
  <2>1. /\ 0 \in 0 .. MaxPid /\ 1 \in 0 .. MaxPid /\ NULL \in TaskOrNull
    BY <1>1 DEF TaskOrNull
  <2>2. pid \in [Task -> 0 .. MaxPid] /\ on \in [Task -> Queue \cup {NULL}]
        /\ children \in [Task -> SUBSET (0 .. MaxPid)]
    BY <1>2, <2>1
  <2>3. pc \in [Task -> {"user", "wait", "read", "exit", "start", "loop", "check",
                         "relock", "drain"}]
    BY <1>2
  <2> QED
    BY <1>2, <1>3, <1>4, <2>1, <2>2, <2>3 DEF TypeOK, KernelOK
<1>7. CallsOK
  <2>1. \A t \in Task : on[t] = NULL /\ pc[t] \in {"user", "start"}
    BY <1>1, <1>2
  <2>2. \A t \in User : t \in Task /\ t # Terminator
    BY QueueFacts
  <2> QED
    BY <1>1, <1>5, <2>1, <2>2, QueueFacts DEF CallsOK
<1>8. StatesOK
  <2>1. \A t \in Task : pc[t] \in {"user", "start"}
    BY <1>1, <1>5
  <2>2. \A t \in Non(k) : t \in User /\ t \in Task /\ t # Terminator
    BY <1>3, QueueFacts
  <2> QED
    BY <1>3, <1>4, <1>5, <2>1, <2>2 DEF StatesOK
<1>9. SwitchOK /\ TerminatorOK
  BY <1>2, <1>3, <1>5, StatesDiffer DEF SwitchOK, TerminatorOK
<1>10. PidsOK
  <2>1. \A t \in User : t \in Task /\ pid[t] = 0 /\ (t \notin Non(k) => t = First)
    BY <1>2, <1>3, QueueFacts
  <2> QED
    BY <1>2, <2>1 DEF PidsOK
<1> QED
  BY <1>2, <1>3, <1>4, <1>6, <1>7, <1>8, <1>9, <1>10 DEF Whole

-----------------------------------------------------------------------------
(***************************************************************************)
(* What the invariant says of the properties.                              *)
(***************************************************************************)
LEMMA ExitQueueHolds ==
  ASSUME Whole
  PROVE  ExitsQueued
<1>1. /\ k.queue[TermQueue].amount_waiting = Cardinality(Waiting(k.state, on, quitter, TermQueue))
      /\ Chain(k.next, k.queue[TermQueue].first_task, k.queue[TermQueue].last_task,
               Waiting(k.state, on, quitter, TermQueue))
  BY DEF Whole, KernelOK, ListsOK
<1>2. Waiting(k.state, on, quitter, TermQueue) = Exiting \ {quitter}
  <2>1. ASSUME NEW t \in Task
        PROVE  k.state[t] = TASK_STATE_BLOCK /\ on[t] = TermQueue
                 <=> k.state[t] # TASK_STATE_NONE /\ pc[t] = "exit"
    <3>1. on[t] = TermQueue <=> pc[t] = "exit"
      BY DEF Whole, CallsOK
    <3>2. pc[t] = "exit" => k.state[t] = TASK_STATE_BLOCK
      BY DEF Whole, StatesOK, Blk
    <3> QED
      BY <3>1, <3>2, StatesDiffer
  <2> QED
    BY <2>1 DEF Waiting, Exiting, Allocated
<1>3. PICK q : q = k.queue[TermQueue]
  OBVIOUS
<1>4. PICK S : S = Exiting \ {quitter}
  OBVIOUS
<1>5. IsList(q.first_task, q.last_task, S) /\ q.amount_waiting = Cardinality(S)
  <2>1. Chain(k.next, q.first_task, q.last_task, S)
    BY <1>1, <1>2, <1>3, <1>4
  <2>2. IsList(q.first_task, q.last_task, S)
    BY <2>1, ChainIsList
  <2> QED
    BY <1>1, <1>2, <1>3, <1>4, <2>2
<1> QED
  BY <1>3, <1>4, <1>5 DEF ExitsQueued

LEMMA NoDanglingHolds ==
  ASSUME Whole
  PROVE  PointersLive
<1>1. /\ k.current \in Task /\ k.state[k.current] \in {TASK_STATE_RUNNING, TASK_STATE_BLOCK}
      /\ Chain(k.next, k.first_task, k.last_task, Rdy(k.state))
  BY Fields DEF Whole, KernelOK, ListsOK, OneRuns
<1>2. k.current \in Allocated
  BY <1>1, StatesDiffer DEF Allocated
<1>3. term # NULL => term \in Allocated
  <2>1. Terminator \in Task /\ Terminator \notin User
    BY QueueFacts
  <2>2. Terminator \notin Non(k)
    BY <2>1 DEF Whole, StatesOK
  <2> QED
    BY <2>1, <2>2 DEF Whole, TerminatorOK, Non, Allocated
<1>4. quitter # NULL => quitter \in Allocated
  <2>1. quitter # NULL => quitter \in Task /\ quitter \in Blk(k)
    BY QueueFacts DEF Whole, TerminatorOK, StatesOK
  <2> QED
    BY <2>1, StatesDiffer DEF Blk, Allocated
<1>5. IsList(k.first_task, k.last_task,
             {t \in Task : k.state[t] \in {TASK_STATE_ZERO, TASK_STATE_READY}})
  <2>1. IsList(k.first_task, k.last_task, Rdy(k.state))
    BY <1>1, ChainIsList
  <2> QED
    BY <2>1 DEF Rdy
<1>6. ASSUME NEW q \in queues \cup {KbdQueue}
      PROVE  {k.queue[q].first_task, k.queue[q].last_task} \ {NULL} \subseteq Live
  <2>1. EndsIn(k.queue[q], Waiting(k.state, on, quitter, q)) /\ q # TermQueue
    BY QueuesFacts DEF Whole, KernelOK, ListsOK, Queues
  <2>2. ASSUME NEW t \in Waiting(k.state, on, quitter, q) PROVE t \in Live
    <3>1. t \in Task /\ k.state[t] = TASK_STATE_BLOCK /\ on[t] # TermQueue
      BY <2>1 DEF Waiting
    <3>2. pc[t] # "exit"
      BY <3>1 DEF Whole, CallsOK
    <3> QED
      BY <3>1, <3>2, StatesDiffer DEF Live, Allocated, Exiting
  <2> QED
    BY <2>1, <2>2 DEF EndsIn
<1> QED
  BY <1>2, <1>3, <1>4, <1>5, <1>6 DEF PointersLive

LEMMA TasksHold ==
  ASSUME Whole
  PROVE  TypeOK /\ PidsUnique /\ WaitersHaveTarget
<1>1. \A t \in Task : t \in Allocated <=> t \notin Non(k)
  BY DEF Allocated, Non
<1>2. PidsUnique
  <2>1. ASSUME NEW t \in Live \cap User PROVE t \notin Non(k) /\ pc[t] # "exit"
    BY <1>1 DEF Live, Exiting, Allocated
  <2> QED
    BY <2>1 DEF Whole, PidsOK, PidsUnique
<1>3. \A t, u \in Allocated : wq[t] = wq[u] /\ wq[t] # NULL => t = u
  BY DEF Whole, OwnersOK, Allocated
<1>4. ASSUME NEW t \in Allocated, pc[t] = "wait", k.state[t] = TASK_STATE_BLOCK
      PROVE  \E u \in Allocated : wq[u] = on[t] /\ on[t] \in queues
  <2>1. t \in Task /\ t \in Blk(k)
    BY <1>4 DEF Allocated, Blk
  <2>2. on[t] \in queues /\ on[t] # NULL
    BY <1>4, <2>1, TypeFacts, QueueFacts DEF Whole, StatesOK
  <2>3. PICK u \in Task : wq[u] = on[t]
    BY <2>2 DEF Whole, OwnersOK
  <2>4. u \in Allocated
    BY <1>1, <2>2, <2>3 DEF Whole, StatesOK
  <2> QED
    BY <2>2, <2>3, <2>4
<1>5. WaitersHaveTarget
  BY <1>3, <1>4 DEF WaitersHaveTarget
<1> QED
  BY <1>2, <1>5 DEF Whole

\* The inductive invariant holds in every reachable state: each call of fork.c,
\* syscalls.c and task.c, each place of the terminator and each interrupt keeps
\* it, up to a key press in the middle of the terminator's edit of the ready list.
THEOREM LifecycleInvariant == Spec => []IInv
<1>1. Init => IInv
  <2>1. Init => Whole
    BY InitInv
  <2>2. Init => torn = FALSE
    BY Zenon DEF Init
  <2> QED
    BY <2>1, <2>2 DEF IInv
<1>2. IInv /\ [Next]_vars => IInv'
  BY IInvNext
<1> QED
  BY <1>1, <1>2, PTL DEF Spec

\* For any number of task structures, wait queues and pids, as long as the ready
\* list is not torn: a pid names one live user task, a wait queue has one owner,
\* and a task blocked in wait() waits on a queue whose owner is still there,
\* whatever fork, exec, exit and the terminator did in between.
THEOREM TasksAreIdentified == Spec => []TasksOK
<1>1. IInv => TasksOK
  BY TasksHold DEF IInv, TasksOK
<1> QED
  BY <1>1, LifecycleInvariant, PTL

\* Every task that terminate_task() has been called for is on the termination
\* queue exactly once until the terminator takes it, as long as the ready list is
\* not torn: none is forgotten and none is freed twice.
THEOREM ExitedTasksAreQueued == Spec => []ExitQueueOK
<1>1. IInv => ExitQueueOK
  BY ExitQueueHolds DEF IInv, ExitQueueOK
<1> QED
  BY <1>1, LifecycleInvariant, PTL

\* As long as the ready list is not torn, neither the scheduler, nor that list,
\* nor a queue that can still be signalled points to a task structure that
\* terminator_task_main() has freed.
THEOREM FreedTasksAreGone == Spec => []NoDanglingTask
<1>1. IInv => NoDanglingTask
  BY NoDanglingHolds DEF IInv, NoDanglingTask
<1> QED
  BY <1>1, LifecycleInvariant, PTL

=============================================================================
