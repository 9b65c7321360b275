--------------------------- MODULE FdTableProofs ---------------------------
(***************************************************************************)
(* Proofs about the descriptors, for any number of tasks, descriptors,     *)
(* pipes, files and failed transfers: what every list of descriptors is    *)
(* like, that the streams of a pipe are counted, that no descriptor of a   *)
(* pipe dangles, and that the cache stays a tree in which every path is    *)
(* found.                                                                  *)
(***************************************************************************)
EXTENDS FdTable, NodesProofs

-----------------------------------------------------------------------------
(***************************************************************************)
(* The operations on a list of descriptors.                                *)
(***************************************************************************)

\* x is the place of the first descriptor n, or 0.
Finds(l, n, x) ==
  \/ x = 0 /\ \A y \in DOMAIN l : l[y].fd # n
  \/ x \in DOMAIN l /\ l[x].fd = n /\ \A y \in DOMAIN l : l[y].fd = n => x <= y

LEMMA FindFd ==
  ASSUME NEW l \in Seq(Descriptor), NEW n
  PROVE  Finds(l, n, vfs_find_fd(l, n))
<1> DEFINE at == {x \in DOMAIN l : l[x].fd = n}
<1>1. vfs_find_fd(l, n) = IF at = {} THEN 0 ELSE CHOOSE x \in at : \A y \in at : x <= y
  BY Zenon DEF vfs_find_fd
<1>2. at \subseteq Nat
  OBVIOUS
<1>3. CASE at = {}
  BY <1>1, <1>3 DEF Finds
<1>4. CASE at # {}
  <2>1. \E x \in at : \A y \in at : x <= y
    BY <1>2, <1>4, LeastNat
  <2>2. PICK x : x = CHOOSE z \in at : \A y \in at : z <= y
    OBVIOUS
  <2>3. x \in at /\ \A y \in at : x <= y
    BY <2>1, <2>2
  <2>4. vfs_find_fd(l, n) = x
    BY <1>1, <1>4, <2>2
  <2> QED
    BY <2>3, <2>4 DEF Finds
<1> QED
  BY <1>3, <1>4

\* Some number up to the length of a list is not used by it.
LEMMA UnusedNumber ==
  ASSUME NEW l \in Seq(Descriptor)
  PROVE  \E n \in 0 .. Len(l) : vfs_find_fd(l, n) = 0
<1> SUFFICES ASSUME \A n \in 0 .. Len(l) : vfs_find_fd(l, n) # 0
             PROVE  FALSE
  OBVIOUS
<1>1. Len(l) \in Nat /\ DOMAIN l = 1 .. Len(l)
  OBVIOUS
<1>2. PICK f : f = [n \in 0 .. Len(l) |-> vfs_find_fd(l, n)]
  OBVIOUS
<1>3. \A n \in 0 .. Len(l) : f[n] \in 1 .. Len(l) /\ l[f[n]].fd = n
  <2> TAKE n \in 0 .. Len(l)
  <2>1. Finds(l, n, f[n]) /\ f[n] # 0
    BY <1>2, FindFd
  <2> QED
    BY <1>1, <2>1 DEF Finds
<1>4. f \in [0 .. Len(l) -> 1 .. Len(l)]
  BY <1>2, <1>3
<1>5. /\ IsFiniteSet(0 .. Len(l)) /\ Cardinality(0 .. Len(l)) = Len(l) + 1
      /\ IsFiniteSet(1 .. Len(l)) /\ Cardinality(1 .. Len(l)) = Len(l)
  <2>1. 0 \in Int /\ 1 \in Int /\ Len(l) \in Int /\ ~(0 > Len(l))
    BY <1>1
  <2>2. /\ IsFiniteSet(0 .. Len(l))
        /\ Cardinality(0 .. Len(l)) = IF 0 > Len(l) THEN 0 ELSE Len(l) - 0 + 1
    BY <2>1, FS_Interval
  <2>3. /\ IsFiniteSet(1 .. Len(l))
        /\ Cardinality(1 .. Len(l)) = IF 1 > Len(l) THEN 0 ELSE Len(l) - 1 + 1
    BY <2>1, FS_Interval
  <2> QED
    BY <1>1, <2>1, <2>2, <2>3
<1>6. Cardinality(1 .. Len(l)) < Cardinality(0 .. Len(l))
  BY <1>1, <1>5
<1>7. \E x, y \in 0 .. Len(l) : x # y /\ f[x] = f[y]
  BY <1>4, <1>5, <1>6, FS_PigeonHole
<1> QED
  BY <1>3, <1>7

\* The search for a number ends, with the least number that is not used.
LEMMA NewNumberUnused ==
  ASSUME NEW l \in Seq(Descriptor)
  PROVE  /\ NewNumber(l) \in 0 .. Len(l)
         /\ \A x \in DOMAIN l : l[x].fd # NewNumber(l)
         /\ \A k \in 0 .. NewNumber(l) - 1 : \E x \in DOMAIN l : l[x].fd = k
<1> DEFINE T == {n \in Nat : n \in 0 .. Len(l) /\ vfs_find_fd(l, n) = 0}
<1>1. Len(l) \in Nat /\ DOMAIN l = 1 .. Len(l)
  OBVIOUS
<1>2. T # {}
  BY <1>1, UnusedNumber
<1>3. PICK m \in T : \A n \in T : m <= n
  BY <1>2, LeastNat
<1>4. m \in 0 .. Len(l) /\ vfs_find_fd(l, m) = 0 /\ \A k \in 0 .. m - 1 : vfs_find_fd(l, k) # 0
  <2>1. m \in Nat /\ m \in 0 .. Len(l) /\ vfs_find_fd(l, m) = 0
    OBVIOUS
  <2>2. \A k \in 0 .. m - 1 : k \in Nat /\ k \in 0 .. Len(l) /\ ~(m <= k)
    BY <1>1, <2>1
  <2> QED
    BY <1>3, <2>1, <2>2
<1>5. PICK n : n = NewNumber(l)
  OBVIOUS
<1>6. n \in 0 .. Len(l) /\ vfs_find_fd(l, n) = 0 /\ \A k \in 0 .. n - 1 : vfs_find_fd(l, k) # 0
  BY <1>4, <1>5 DEF NewNumber
<1>7. \A x \in DOMAIN l : l[x].fd # n
  <2>1. Finds(l, n, 0)
    BY <1>6, FindFd
  <2> QED
    BY <1>1, <2>1 DEF Finds
<1>8. \A k \in 0 .. n - 1 : \E x \in DOMAIN l : l[x].fd = k
  <2> TAKE k \in 0 .. n - 1
  <2>1. Finds(l, k, vfs_find_fd(l, k)) /\ vfs_find_fd(l, k) # 0
    BY <1>6, FindFd
  <2> QED
    BY <2>1 DEF Finds
<1> QED
  BY <1>5, <1>6, <1>7, <1>8

Mode == {FD_READ, FD_WRITE}

\* m is l with the descriptor d at its end.
Extended(l, m, d) ==
  /\ d \in Descriptor /\ m \in Seq(Descriptor) /\ Len(m) = Len(l) + 1
  /\ \A x \in 1 .. Len(l) : m[x] = l[x]
  /\ m[Len(l) + 1] = d

LEMMA CreateFd ==
  ASSUME NEW l \in Seq(Descriptor), NEW node \in Pipes \cup NodeId, NEW mode \in Mode,
         NEW m, m = vfs_create_fd(l, node, mode)
  PROVE  Extended(l, m, Fd(NewNumber(l), node, mode))
<1>1. NewNumber(l) \in Nat
  BY NewNumberUnused
<1>2. PICK d \in Descriptor : d = Fd(NewNumber(l), node, mode)
  BY <1>1 DEF Fd, Descriptor, Mode
<1>3. m = Append(l, d)
  BY <1>2 DEF vfs_create_fd
<1> QED
  BY <1>2, <1>3 DEF Extended

(***************************************************************************)
(* The copy of a list: the descriptors are numbered in their order.        *)
(***************************************************************************)
Copy(l, k) == [x \in 1 .. k |-> [l[x] EXCEPT !.fd = x - 1]]

\* m has the first k descriptors of l, with new numbers.
IsCopyOf(l, k, m) ==
  /\ m \in Seq(Descriptor) /\ Len(m) = k
  /\ \A x \in 1 .. k : /\ m[x].fd = x - 1 /\ m[x].node = l[x].node
                       /\ m[x].mode = l[x].mode /\ m[x].pos = l[x].pos

LEMMA CopyType ==
  ASSUME NEW l \in Seq(Descriptor), NEW k \in 0 .. Len(l)
  PROVE  IsCopyOf(l, k, Copy(l, k))
<1>1. k \in Nat /\ Len(l) \in Nat /\ \A x \in 1 .. k : l[x] \in Descriptor /\ x - 1 \in Nat
  OBVIOUS
<1>2. \A x \in 1 .. k : [l[x] EXCEPT !.fd = x - 1] \in Descriptor
  BY <1>1 DEF Descriptor
<1>3. Copy(l, k) \in [1 .. k -> Descriptor]
  BY <1>2 DEF Copy
<1>4. Copy(l, k) \in Seq(Descriptor) /\ Len(Copy(l, k)) = k
  BY <1>1, <1>3
<1>5. ASSUME NEW x \in 1 .. k
      PROVE  /\ Copy(l, k)[x].fd = x - 1 /\ Copy(l, k)[x].node = l[x].node
             /\ Copy(l, k)[x].mode = l[x].mode /\ Copy(l, k)[x].pos = l[x].pos
  <2>1. Copy(l, k)[x] = [l[x] EXCEPT !.fd = x - 1]
    BY DEF Copy
  <2>2. l[x] \in Descriptor
    BY <1>1
  <2> QED
    BY <2>1, <2>2 DEF Descriptor
<1> QED
  BY <1>4, <1>5 DEF IsCopyOf

\* A copy is known by its descriptors.
LEMMA CopyUnique ==
  ASSUME NEW l \in Seq(Descriptor), NEW k \in 0 .. Len(l), NEW m, IsCopyOf(l, k, m)
  PROVE  m = Copy(l, k)
<1>1. PICK n : n = Copy(l, k)
  OBVIOUS
<1>2. IsCopyOf(l, k, n)
  BY <1>1, CopyType
<1>3. m \in Seq(Descriptor) /\ n \in Seq(Descriptor) /\ Len(m) = k /\ Len(n) = k /\ k \in Nat
  BY <1>2 DEF IsCopyOf
<1>4. ASSUME NEW x \in 1 .. k PROVE m[x] = n[x]
  <2>1. m[x] \in Descriptor /\ n[x] \in Descriptor
    BY <1>3
  <2>2. m[x].fd = n[x].fd /\ m[x].node = n[x].node /\ m[x].mode = n[x].mode /\ m[x].pos = n[x].pos
    BY <1>2 DEF IsCopyOf
  <2>3. \A d \in Descriptor : d = [fd |-> d.fd, node |-> d.node, mode |-> d.mode, pos |-> d.pos]
    BY DEF Descriptor
  <2> HIDE DEF Descriptor
  <2>4. /\ m[x] = [fd |-> m[x].fd, node |-> m[x].node, mode |-> m[x].mode, pos |-> m[x].pos]
        /\ n[x] = [fd |-> n[x].fd, node |-> n[x].node, mode |-> n[x].mode, pos |-> n[x].pos]
    BY <2>1, <2>3
  <2> QED
    BY <2>2, <2>4
<1> QED
  BY <1>1, <1>3, <1>4

LEMMA CopyNumber ==
  ASSUME NEW l \in Seq(Descriptor), NEW k \in 0 .. Len(l)
  PROVE  NewNumber(Copy(l, k)) = k
<1>1. PICK m : m = Copy(l, k)
  OBVIOUS
<1>2. IsCopyOf(l, k, m)
  BY <1>1, CopyType
<1>3. /\ m \in Seq(Descriptor) /\ Len(m) = k /\ DOMAIN m = 1 .. k /\ k \in Nat
      /\ \A x \in 1 .. k : m[x].fd = x - 1
  BY <1>2 DEF IsCopyOf
<1>4. NewNumber(m) \in 0 .. k /\ \A x \in 1 .. k : m[x].fd # NewNumber(m)
  BY <1>3, NewNumberUnused
<1>5. ASSUME NewNumber(m) # k PROVE FALSE
  <2>1. NewNumber(m) + 1 \in 1 .. k /\ (NewNumber(m) + 1) - 1 = NewNumber(m)
    BY <1>3, <1>4, <1>5
  <2> QED
    BY <1>3, <1>4, <2>1
<1> QED
  BY <1>1, <1>5

\* One step of the loop in fork().
CopyStep(l, m, x) == [vfs_create_fd(m, l[x].node, l[x].mode) EXCEPT ![x].pos = l[x].pos]

LEMMA CopyNext ==
  ASSUME NEW l \in Seq(Descriptor), NEW k \in 1 .. Len(l)
  PROVE  CopyStep(l, Copy(l, k - 1), k) = Copy(l, k)
<1>1. k \in Nat /\ k - 1 \in Nat /\ k - 1 \in 0 .. Len(l) /\ k \in 0 .. Len(l) /\ Len(l) \in Nat
  OBVIOUS
<1>2. l[k] \in Descriptor
  BY <1>1
<1>3. PICK node \in Pipes \cup NodeId : node = l[k].node
  BY <1>2 DEF Descriptor
<1>4. PICK mode \in Mode : mode = l[k].mode
  BY <1>2 DEF Descriptor, Mode
<1>5. PICK pos \in Nat : pos = l[k].pos
  BY <1>2 DEF Descriptor
<1>6. PICK m : m = Copy(l, k - 1)
  OBVIOUS
<1>7. IsCopyOf(l, k - 1, m) /\ NewNumber(m) = k - 1
  BY <1>1, <1>6, CopyType, CopyNumber
<1>8. m \in Seq(Descriptor) /\ Len(m) = k - 1
  BY <1>7 DEF IsCopyOf
<1>9. PICK n : n = vfs_create_fd(m, node, mode)
  OBVIOUS
<1>10. Extended(m, n, Fd(NewNumber(m), node, mode))
  BY <1>8, <1>9, CreateFd
<1>11. /\ n \in Seq(Descriptor) /\ Len(n) = k
       /\ \A x \in 1 .. k - 1 : n[x] = m[x]
       /\ n[k] = Fd(k - 1, node, mode)
  <2>1. Len(m) + 1 = k
    BY <1>1, <1>8
  <2> QED
    BY <1>7, <1>8, <1>10, <2>1 DEF Extended
<1>12. PICK d : d = [n[k] EXCEPT !.pos = pos]
  OBVIOUS
<1>13. d \in Descriptor /\ d.fd = k - 1 /\ d.node = node /\ d.mode = mode /\ d.pos = pos
  BY <1>1, <1>11, <1>12, SMTT(30) DEF Fd, Descriptor, Mode
<1>14. PICK q : q = CopyStep(l, m, k)
  OBVIOUS
<1>15. q = [n EXCEPT ![k] = d]
  BY <1>3, <1>4, <1>5, <1>9, <1>12, <1>14 DEF CopyStep
<1>16. /\ q \in Seq(Descriptor) /\ Len(q) = k /\ q[k] = d
       /\ \A x \in 1 .. k - 1 : q[x] = n[x]
  BY <1>1, <1>11, <1>13, <1>15
<1>17. ASSUME NEW x \in 1 .. k
       PROVE  /\ q[x].fd = x - 1 /\ q[x].node = l[x].node
              /\ q[x].mode = l[x].mode /\ q[x].pos = l[x].pos
  <2>1. CASE x = k
    BY <1>3, <1>4, <1>5, <1>13, <1>16, <2>1
  <2>2. CASE x # k
    <3>1. x \in 1 .. k - 1
      BY <1>1, <2>2
    <3>2. q[x] = m[x]
      BY <1>11, <1>16, <3>1
    <3> QED
      BY <1>7, <3>1, <3>2 DEF IsCopyOf
  <2> QED
    BY <2>1, <2>2
<1>18. IsCopyOf(l, k, q)
  BY <1>16, <1>17 DEF IsCopyOf
<1> QED
  BY <1>1, <1>6, <1>14, <1>18, CopyUnique

LEMMA CopyFdsIs ==
  ASSUME NEW l \in Seq(Descriptor)
  PROVE  CopyFds(l) = Copy(l, Len(l))
<1> DEFINE IsCopy(f) == f = [x \in 0 .. Len(l) |-> IF x = 0 THEN <<>> ELSE CopyStep(l, f[x - 1], x)]
<1>1. Len(l) \in Nat
  OBVIOUS
<1>2. PICK g : g = [x \in 0 .. Len(l) |-> Copy(l, x)]
  OBVIOUS
<1>3. IsCopy(g)
  <2>1. ASSUME NEW x \in 0 .. Len(l)
        PROVE  g[x] = IF x = 0 THEN <<>> ELSE CopyStep(l, g[x - 1], x)
    <3>1. CASE x = 0
      <4>1. Copy(l, 0) = <<>>
        BY DEF Copy
      <4> QED
        BY <1>2, <3>1, <4>1
    <3>2. CASE x # 0
      <4>1. x \in 1 .. Len(l) /\ x - 1 \in 0 .. Len(l)
        BY <1>1, <3>2
      <4>2. g[x] = Copy(l, x) /\ g[x - 1] = Copy(l, x - 1)
        BY <1>2, <4>1
      <4> QED
        BY <3>2, <4>1, <4>2, CopyNext
    <3> QED
      BY <3>1, <3>2
  <2>2. g = [x \in 0 .. Len(l) |-> g[x]]
    BY <1>2
  <2> QED
    BY <2>1, <2>2, Zenon
<1>4. PICK f : f = CHOOSE h : IsCopy(h)
  OBVIOUS
<1>5. IsCopy(f)
  BY <1>3, <1>4
<1>6. CopyFds(l) = f[Len(l)]
  BY <1>4, Zenon DEF CopyFds, CopyStep
<1>7. \A x \in 0 .. Len(l) : f[x] = g[x]
  <2> DEFINE T == {x \in Nat : x \in 0 .. Len(l) /\ f[x] # g[x]}
  <2> SUFFICES ASSUME T # {} PROVE FALSE
    OBVIOUS
  <2>1. PICK m \in T : \A n \in T : m <= n
    BY LeastNat
  <2>2. m \in Nat /\ m \in 0 .. Len(l) /\ f[m] # g[m]
    OBVIOUS
  <2>3. \A h : IsCopy(h) => h[m] = IF m = 0 THEN <<>> ELSE CopyStep(l, h[m - 1], m)
    BY <2>2
  <2>4. CASE m = 0
    BY <1>3, <1>5, <2>2, <2>3, <2>4
  <2>5. CASE m # 0
    <3>1. m - 1 \in Nat /\ m - 1 \in 0 .. Len(l) /\ ~(m <= m - 1)
      BY <1>1, <2>2, <2>5
    <3>2. f[m - 1] = g[m - 1]
      BY <2>1, <3>1
    <3> HIDE DEF IsCopy
    <3> QED
      BY <1>3, <1>5, <2>2, <2>3, <2>5, <3>2
  <2> QED
    BY <2>4, <2>5
<1>8. Len(l) \in 0 .. Len(l)
  BY <1>1
<1> QED
  BY <1>2, <1>6, <1>7, <1>8

-----------------------------------------------------------------------------
(***************************************************************************)
(* What is true of every list of descriptors, with the cache c.            *)
(***************************************************************************)

\* A descriptor of a file is at a position in it, and its node is in memory or
\* was freed with a list.
FdOK(d, c) ==
  d.node \in NodeId => /\ d.node[2] # "dir" => d.pos \in 0 .. Size[d.node[1]]
                       /\ d.node \in Live(c) \/ Freed(c, d.node)

ListOK(l, c) ==
  /\ l \in Seq(Descriptor) /\ Len(l) <= MaxFds
  /\ \A x, y \in DOMAIN l : l[x].fd = l[y].fd => x = y
  /\ \A x \in DOMAIN l : FdOK(l[x], c)

\* The list of a program starts with the keyboard, as descriptor 0: close()
\* refuses the first of a list.  So exit() loses no reference to another pipe.
ProgramList(l) == Len(l) >= 1 /\ l[1].fd = 0 /\ l[1].node = Kbd

LEMMA LiveLater ==
  ASSUME NEW c, CacheType(c), NEW z, Later(c, z), NEW n \in NodeId,
         n \in Live(c) \/ Freed(c, n)
  PROVE  n \in Live(z) \/ Freed(z, n)
<1>1. /\ c.created \subseteq z.created /\ c.relisted \subseteq z.relisted
      /\ \A v \in c.vnodes : v \in z.vnodes \/ Freed(z, v)
  BY DEF Later
<1>3. CASE Freed(c, n)
  BY <1>1, <1>3 DEF Freed
<1>4. CASE n \in c.vnodes
  BY <1>1, <1>4 DEF Live
<1>5. CASE n \in c.created \/ n = RootNode
  BY <1>1, <1>5 DEF Live
<1> QED
  BY <1>3, <1>4, <1>5 DEF Live

LEMMA ListLater ==
  ASSUME NEW c, CacheType(c), NEW z, Later(c, z), NEW l, ListOK(l, c)
  PROVE  ListOK(l, z)
<1>1. ASSUME NEW x \in DOMAIN l PROVE FdOK(l[x], z)
  <2>1. FdOK(l[x], c)
    BY DEF ListOK
  <2> QED
    BY <2>1, LiveLater DEF FdOK
<1> QED
  BY <1>1 DEF ListOK

\* A new descriptor of a pipe, or of a node in memory.
LEMMA NewFdOK ==
  ASSUME NEW c, CacheType(c), NEW n \in Nat, NEW node, node \in Pipes \/ node \in Live(c), NEW mode
  PROVE  FdOK(Fd(n, node, mode), c)
<1>1. PICK d : d = Fd(n, node, mode)
  OBVIOUS
<1>2. d.node = node /\ d.pos = 0
  BY <1>1 DEF Fd
<1>3. ASSUME node \in NodeId PROVE node \in Live(c)
  BY <1>3, FdTableAssumption
<1>4. ASSUME node \in Live(c), node[2] # "dir" PROVE 0 \in 0 .. Size[node[1]]
  <2>1. node[1] \in Path
    <3>1. node # RootNode
      BY <1>4 DEF RootNode
    <3>2. \A v \in c.vnodes : v[1] \in Path
      BY CacheFields
    <3>3. \A v \in c.created : v[1] \in Path
      BY DEF CacheType
    <3> QED
      BY <1>4, <3>1, <3>2, <3>3 DEF Live
  <2>2. Size[node[1]] \in Nat
    BY <2>1, FdTableAssumption
  <2> QED
    BY <2>2
<1> QED
  BY <1>1, <1>2, <1>3, <1>4 DEF FdOK

LEMMA ListCreate ==
  ASSUME NEW c, CacheType(c), NEW l, ListOK(l, c), Len(l) < MaxFds,
         NEW node \in Pipes \cup NodeId, node \in Pipes \/ node \in Live(c), NEW mode \in Mode,
         NEW m, m = vfs_create_fd(l, node, mode)
  PROVE  /\ ListOK(m, c) /\ Len(m) = Len(l) + 1
         /\ ProgramList(l) => ProgramList(m)
<1>1. l \in Seq(Descriptor) /\ Len(l) \in Nat
  BY DEF ListOK
<1>2. PICK d : d = Fd(NewNumber(l), node, mode)
  OBVIOUS
<1>3. Extended(l, m, d)
  BY <1>1, <1>2, CreateFd
<1>4. /\ m \in Seq(Descriptor) /\ Len(m) = Len(l) + 1 /\ DOMAIN m = 1 .. Len(l) + 1
      /\ (\A x \in 1 .. Len(l) : m[x] = l[x]) /\ m[Len(l) + 1] = d /\ DOMAIN l = 1 .. Len(l)
  BY <1>1, <1>3 DEF Extended
<1>5. NewNumber(l) \in Nat /\ \A x \in 1 .. Len(l) : l[x].fd # NewNumber(l)
  BY <1>1, <1>4, NewNumberUnused
<1>6. d.fd = NewNumber(l)
  BY <1>2 DEF Fd
<1>7. FdOK(d, c)
  BY <1>2, <1>5, NewFdOK
<1>8. \A x \in 1 .. Len(l) + 1 : x = Len(l) + 1 \/ x \in 1 .. Len(l)
  BY <1>1
<1>9. ASSUME NEW x \in 1 .. Len(l) + 1, NEW y \in 1 .. Len(l) + 1, m[x].fd = m[y].fd PROVE x = y
  <2>1. CASE x = Len(l) + 1
    BY <1>4, <1>5, <1>6, <1>8, <1>9, <2>1
  <2>2. CASE y = Len(l) + 1
    BY <1>4, <1>5, <1>6, <1>8, <1>9, <2>2
  <2>3. CASE x \in 1 .. Len(l) /\ y \in 1 .. Len(l)
    BY <1>4, <1>9, <2>3 DEF ListOK
  <2> QED
    BY <1>8, <2>1, <2>2, <2>3
<1>10. ASSUME NEW x \in 1 .. Len(l) + 1 PROVE FdOK(m[x], c)
  BY <1>4, <1>7, <1>8 DEF ListOK
<1>11. Len(l) + 1 <= MaxFds
  BY <1>1, FdTableAssumption
<1>12. ASSUME ProgramList(l) PROVE ProgramList(m)
  BY <1>1, <1>4, <1>12 DEF ProgramList
<1> QED
  BY <1>4, <1>9, <1>10, <1>11, <1>12 DEF ListOK

\* m is l without the descriptor at x.
Without(l, x, m) ==
  /\ m \in Seq(Descriptor) /\ Len(m) = Len(l) - 1
  /\ \A i \in 1 .. x - 1 : m[i] = l[i]
  /\ \A i \in x .. Len(l) - 1 : m[i] = l[i + 1]

LEMMA RemoveAtIs ==
  ASSUME NEW l \in Seq(Descriptor), NEW x \in 1 .. Len(l)
  PROVE  Without(l, x, RemoveAt(l, x))
<1>1. x \in Nat /\ Len(l) \in Nat
  OBVIOUS
<1>2. PICK u : u = SubSeq(l, 1, x - 1)
  OBVIOUS
<1>3. PICK v : v = SubSeq(l, x + 1, Len(l))
  OBVIOUS
<1>4. u \in Seq(Descriptor) /\ Len(u) = x - 1 /\ \A i \in 1 .. x - 1 : u[i] = l[i]
  BY <1>1, <1>2
<1>5. v \in Seq(Descriptor) /\ Len(v) = Len(l) - x /\ \A i \in 1 .. Len(l) - x : v[i] = l[x + i]
  BY <1>1, <1>3
<1>6. PICK m : m = u \o v
  OBVIOUS
<1>7. /\ m \in Seq(Descriptor) /\ Len(m) = Len(u) + Len(v)
      /\ \A i \in 1 .. Len(u) : m[i] = u[i]
      /\ \A i \in Len(u) + 1 .. Len(u) + Len(v) : m[i] = v[i - Len(u)]
  <2>1. u \in Seq(Descriptor) /\ v \in Seq(Descriptor)
    BY <1>4, <1>5
  <2>2. m \in Seq(Descriptor) /\ Len(m) = Len(u) + Len(v)
    BY <2>1, <1>6
  <2>3. \A i \in 1 .. Len(u) : m[i] = u[i]
    BY <2>1, <1>6
  <2>4. \A i \in Len(u) + 1 .. Len(u) + Len(v) : m[i] = v[i - Len(u)]
    BY <2>1, <1>6
  <2> QED
    BY <2>2, <2>3, <2>4
<1>8. \A i \in x .. Len(l) - 1 : m[i] = l[i + 1]
  <2> TAKE i \in x .. Len(l) - 1
  <2>1. i \in Len(u) + 1 .. Len(u) + Len(v) /\ i - Len(u) \in 1 .. Len(l) - x
        /\ x + (i - Len(u)) = i + 1
    BY <1>1, <1>4, <1>5
  <2> QED
    BY <1>5, <1>7, <2>1
<1>9. Len(m) = Len(l) - 1 /\ \A i \in 1 .. x - 1 : m[i] = l[i]
  BY <1>1, <1>4, <1>5, <1>7
<1> QED
  BY <1>2, <1>3, <1>6, <1>7, <1>8, <1>9 DEF Without, RemoveAt

LEMMA TailIs ==
  ASSUME NEW l \in Seq(Descriptor), Len(l) >= 1
  PROVE  Without(l, 1, Tail(l)) /\ Head(l) = l[1]
BY DEF Without

\* Every descriptor of m is one of l.
LEMMA WithoutFrom ==
  ASSUME NEW l \in Seq(Descriptor), NEW x \in 1 .. Len(l), NEW m, Without(l, x, m),
         NEW i \in 1 .. Len(m)
  PROVE  LET j == IF i < x THEN i ELSE i + 1 IN j \in 1 .. Len(l) /\ m[i] = l[j]
<1>1. x \in Nat /\ Len(l) \in Nat /\ i \in 1 .. Len(l) - 1
  BY DEF Without
<1>2. CASE i < x
  <2>1. i \in 1 .. x - 1 /\ i \in 1 .. Len(l)
    BY <1>1, <1>2
  <2> QED
    BY <1>2, <2>1 DEF Without
<1>3. CASE ~(i < x)
  <2>1. i \in x .. Len(l) - 1 /\ i + 1 \in 1 .. Len(l)
    BY <1>1, <1>3
  <2> QED
    BY <1>3, <2>1 DEF Without
<1> QED
  BY <1>2, <1>3

LEMMA ListRemove ==
  ASSUME NEW c, NEW l, ListOK(l, c), NEW x \in 1 .. Len(l), NEW m, Without(l, x, m)
  PROVE  /\ ListOK(m, c)
         /\ ProgramList(l) /\ x > 1 => ProgramList(m)
<1>1. l \in Seq(Descriptor) /\ Len(l) \in Nat /\ DOMAIN l = 1 .. Len(l) /\ x \in Nat
  BY DEF ListOK
<1>2. m \in Seq(Descriptor) /\ Len(m) = Len(l) - 1 /\ DOMAIN m = 1 .. Len(m) /\ Len(m) \in Nat
  BY DEF Without
<1> DEFINE j(i) == IF i < x THEN i ELSE i + 1
<1>3. \A i \in 1 .. Len(m) : j(i) \in 1 .. Len(l) /\ m[i] = l[j(i)]
  BY <1>1, WithoutFrom
<1>4. \A i, k \in 1 .. Len(m) : j(i) = j(k) => i = k
  BY <1>1, <1>2
<1> HIDE DEF j
<1>5. \A i, k \in 1 .. Len(m) : m[i].fd = m[k].fd => i = k
  BY <1>1, <1>3, <1>4 DEF ListOK
<1>6. \A i \in 1 .. Len(m) : FdOK(m[i], c)
  BY <1>1, <1>3 DEF ListOK
<1>7. Len(m) <= MaxFds
  BY <1>1, <1>2, FdTableAssumption DEF ListOK
<1>8. ASSUME ProgramList(l), x > 1 PROVE ProgramList(m)
  <2>1. 1 \in 1 .. x - 1 /\ Len(m) >= 1
    BY <1>1, <1>2, <1>8
  <2> QED
    BY <1>8, <2>1 DEF ProgramList, Without
<1> QED
  BY <1>2, <1>5, <1>6, <1>7, <1>8 DEF ListOK

LEMMA ListCopy ==
  ASSUME NEW c, NEW l, ListOK(l, c), NEW m, m = CopyFds(l)
  PROVE  ListOK(m, c) /\ IsCopyOf(l, Len(l), m) /\ (ProgramList(l) => ProgramList(m))
<1>1. l \in Seq(Descriptor) /\ Len(l) \in Nat /\ DOMAIN l = 1 .. Len(l) /\ Len(l) \in 0 .. Len(l)
  BY DEF ListOK
<1>2. IsCopyOf(l, Len(l), m)
  BY <1>1, CopyFdsIs, CopyType
<1>3. /\ m \in Seq(Descriptor) /\ Len(m) = Len(l) /\ DOMAIN m = 1 .. Len(l)
      /\ \A x \in 1 .. Len(l) : m[x].fd = x - 1 /\ m[x].node = l[x].node /\ m[x].pos = l[x].pos
  BY <1>1, <1>2 DEF IsCopyOf
<1>4. \A x, y \in 1 .. Len(l) : m[x].fd = m[y].fd => x = y
  BY <1>1, <1>3
<1>5. \A x \in 1 .. Len(l) : FdOK(m[x], c)
  <2> TAKE x \in 1 .. Len(l)
  <2>1. FdOK(l[x], c) /\ m[x].node = l[x].node /\ m[x].pos = l[x].pos
    BY <1>1, <1>3 DEF ListOK
  <2> QED
    BY <2>1 DEF FdOK
<1>6. ASSUME ProgramList(l) PROVE ProgramList(m)
  <2>1. 1 \in 1 .. Len(l) /\ m[1].fd = 1 - 1 /\ m[1].node = l[1].node
    BY <1>1, <1>3, <1>6 DEF ProgramList
  <2> QED
    BY <1>3, <1>6, <2>1 DEF ProgramList
<1> QED
  BY <1>2, <1>3, <1>4, <1>5, <1>6 DEF ListOK

\* m is l with another position at x.
MovedList(l, x, pos, m) == m = [l EXCEPT ![x] = [l[x] EXCEPT !.pos = pos]]

LEMMA ListMove ==
  ASSUME NEW c, NEW l, ListOK(l, c), NEW x \in 1 .. Len(l), NEW pos \in Nat,
         l[x].node[2] # "dir" => pos \in 0 .. Size[l[x].node[1]],
         NEW m, MovedList(l, x, pos, m)
  PROVE  /\ ListOK(m, c) /\ (ProgramList(l) => ProgramList(m))
         /\ Len(m) = Len(l) /\ \A i \in 1 .. Len(l) : m[i].node = l[i].node
<1>1. l \in Seq(Descriptor) /\ Len(l) \in Nat /\ DOMAIN l = 1 .. Len(l)
  BY DEF ListOK
<1>2. PICK d : d = [l[x] EXCEPT !.pos = pos]
  OBVIOUS
<1>3. l[x] \in Descriptor
  BY <1>1
<1>4. d \in Descriptor /\ d.fd = l[x].fd /\ d.node = l[x].node /\ d.pos = pos
  BY <1>2, <1>3 DEF Descriptor
<1>5. m = [l EXCEPT ![x] = d]
  BY <1>2 DEF MovedList
<1>6. /\ m \in Seq(Descriptor) /\ Len(m) = Len(l) /\ DOMAIN m = 1 .. Len(l)
      /\ m[x] = d /\ \A i \in 1 .. Len(l) : i # x => m[i] = l[i]
  BY <1>1, <1>4, <1>5
<1>7. \A i \in 1 .. Len(l) : m[i].fd = l[i].fd /\ m[i].node = l[i].node
  BY <1>4, <1>6
<1>8. ASSUME NEW i \in 1 .. Len(l) PROVE FdOK(m[i], c)
  <2>1. FdOK(l[i], c)
    BY <1>1 DEF ListOK
  <2>2. CASE i = x
    BY <1>4, <1>6, <2>1, <2>2 DEF FdOK
  <2>3. CASE i # x
    BY <1>6, <2>1, <2>3
  <2> QED
    BY <2>2, <2>3
<1>9. \A i, k \in 1 .. Len(l) : m[i].fd = m[k].fd => i = k
  BY <1>1, <1>7 DEF ListOK
<1>10. Len(l) <= MaxFds
  BY DEF ListOK
<1>11. ASSUME ProgramList(l) PROVE ProgramList(m)
  BY <1>1, <1>6, <1>7, <1>11 DEF ProgramList
<1> QED
  BY <1>6, <1>7, <1>8, <1>9, <1>10, <1>11 DEF ListOK

-----------------------------------------------------------------------------
(***************************************************************************)
(* Counting the descriptors of a node.                                     *)
(***************************************************************************)
Places(l, n) == {x \in DOMAIN l : l[x].node = n}

One(b) == IF b THEN 1 ELSE 0

LEMMA PlacesFinite ==
  ASSUME NEW l \in Seq(Descriptor), NEW n
  PROVE  IsFiniteSet(Places(l, n)) /\ Uses(l, n) = Cardinality(Places(l, n)) /\ Uses(l, n) \in Nat
<1>1. DOMAIN l = 1 .. Len(l) /\ Len(l) \in Int /\ 1 \in Int
  OBVIOUS
<1>2. IsFiniteSet(1 .. Len(l))
  BY <1>1, FS_Interval
<1>3. Places(l, n) \in SUBSET (1 .. Len(l))
  BY <1>1 DEF Places
<1>4. IsFiniteSet(Places(l, n))
  BY <1>2, <1>3, FS_Subset
<1>5. Uses(l, n) = Cardinality(Places(l, n))
  BY DEF Uses, Places
<1> QED
  BY <1>4, <1>5, FS_CardinalityType

LEMMA BijectionCount ==
  ASSUME NEW S, NEW T, IsFiniteSet(S), NEW f \in [S -> T],
         \A x, y \in S : f[x] = f[y] => x = y, \A z \in T : \E x \in S : f[x] = z
  PROVE  IsFiniteSet(T) /\ Cardinality(T) = Cardinality(S)
<1>1. f \in Bijection(S, T)
  BY DEF Bijection, Injection, Surjection, IsInjective
<1>2. ExistsBijection(S, T)
  BY <1>1 DEF ExistsBijection
<1> QED
  BY <1>2, FS_Bijection

LEMMA UsesExtended ==
  ASSUME NEW l \in Seq(Descriptor), NEW m, NEW d, Extended(l, m, d), NEW n
  PROVE  Uses(m, n) = Uses(l, n) + One(d.node = n)
<1>1. /\ m \in Seq(Descriptor) /\ Len(l) \in Nat /\ DOMAIN l = 1 .. Len(l)
      /\ DOMAIN m = 1 .. Len(l) + 1 /\ (\A x \in 1 .. Len(l) : m[x] = l[x])
      /\ m[Len(l) + 1] = d
  BY DEF Extended
<1>2. IsFiniteSet(Places(l, n)) /\ Uses(l, n) = Cardinality(Places(l, n)) /\ Uses(l, n) \in Nat
      /\ Uses(m, n) = Cardinality(Places(m, n))
  BY <1>1, PlacesFinite
<1>3. \A x \in 1 .. Len(l) + 1 : x \in 1 .. Len(l) \/ x = Len(l) + 1
  BY <1>1
<1>4. 1 .. Len(l) \subseteq 1 .. Len(l) + 1 /\ Len(l) + 1 \in 1 .. Len(l) + 1
      /\ Len(l) + 1 \notin 1 .. Len(l)
  BY <1>1
<1>5. CASE d.node = n
  <2>1. Places(m, n) = Places(l, n) \cup {Len(l) + 1} /\ Len(l) + 1 \notin Places(l, n)
    BY <1>1, <1>3, <1>4, <1>5 DEF Places
  <2>2. Cardinality(Places(m, n)) = Cardinality(Places(l, n)) + 1
    BY <1>2, <2>1, FS_AddElement
  <2> QED
    BY <1>2, <1>5, <2>2 DEF One
<1>6. CASE d.node # n
  <2>1. Places(m, n) = Places(l, n)
    BY <1>1, <1>3, <1>4, <1>6 DEF Places
  <2> QED
    BY <1>2, <1>6, <2>1 DEF One
<1> QED
  BY <1>5, <1>6

LEMMA UsesSame ==
  ASSUME NEW l \in Seq(Descriptor), NEW m \in Seq(Descriptor), Len(m) = Len(l),
         \A x \in 1 .. Len(l) : m[x].node = l[x].node, NEW n
  PROVE  Uses(m, n) = Uses(l, n)
<1>1. DOMAIN l = 1 .. Len(l) /\ DOMAIN m = 1 .. Len(l)
  OBVIOUS
<1>2. {x \in DOMAIN m : m[x].node = n} = {x \in DOMAIN l : l[x].node = n}
  BY <1>1
<1> QED
  BY <1>2 DEF Uses

LEMMA UsesOne ==
  ASSUME NEW d, NEW n
  PROVE  Uses(<<d>>, n) = One(d.node = n)
<1>1. DOMAIN <<d>> = {1} /\ <<d>>[1] = d
  OBVIOUS
<1>2. CASE d.node = n
  <2>1. {x \in DOMAIN <<d>> : <<d>>[x].node = n} = {1}
    BY <1>1, <1>2
  <2> QED
    BY <1>2, <2>1, FS_Singleton DEF Uses, One
<1>3. CASE d.node # n
  <2>1. {x \in DOMAIN <<d>> : <<d>>[x].node = n} = {}
    BY <1>1, <1>3
  <2> QED
    BY <1>3, <2>1, FS_EmptySet DEF Uses, One
<1> QED
  BY <1>2, <1>3

LEMMA UsesWithout ==
  ASSUME NEW l \in Seq(Descriptor), NEW x \in 1 .. Len(l), NEW m, Without(l, x, m), NEW n
  PROVE  Uses(l, n) = Uses(m, n) + Uses(<<l[x]>>, n)
<1>1. /\ DOMAIN l = 1 .. Len(l) /\ Len(l) \in Nat /\ x \in Nat
      /\ m \in Seq(Descriptor) /\ Len(m) = Len(l) - 1 /\ DOMAIN m = 1 .. Len(l) - 1
  BY DEF Without
<1>2. /\ IsFiniteSet(Places(l, n)) /\ Uses(l, n) = Cardinality(Places(l, n)) /\ Uses(l, n) \in Nat
      /\ IsFiniteSet(Places(m, n)) /\ Uses(m, n) = Cardinality(Places(m, n)) /\ Uses(m, n) \in Nat
  BY <1>1, PlacesFinite
<1> DEFINE j(i) == IF i < x THEN i ELSE i + 1
<1>3. \A i \in 1 .. Len(l) - 1 : j(i) \in 1 .. Len(l) /\ m[i] = l[j(i)] /\ j(i) # x
  <2>1. \A i \in 1 .. Len(l) - 1 : j(i) \in 1 .. Len(l) /\ m[i] = l[j(i)]
    <3>1. \A i \in 1 .. Len(m) : j(i) \in 1 .. Len(l) /\ m[i] = l[j(i)]
      BY <1>1, WithoutFrom, ZenonT(30)
    <3> QED
      BY <1>1, <3>1
  <2>2. \A i \in 1 .. Len(l) - 1 : j(i) # x
    BY <1>1
  <2> QED
    BY <2>1, <2>2
<1>4. \A i, k \in 1 .. Len(l) - 1 : j(i) = j(k) => i = k
  BY <1>1
<1>5. \A k \in 1 .. Len(l) : k # x => \E i \in 1 .. Len(l) - 1 : j(i) = k
  <2> TAKE k \in 1 .. Len(l)
  <2>1. CASE k < x
    <3>1. k \in 1 .. Len(l) - 1 /\ j(k) = k
      BY <1>1, <2>1
    <3> QED
      BY <3>1
  <2>2. CASE k > x
    <3>1. k - 1 \in 1 .. Len(l) - 1 /\ j(k - 1) = k
      BY <1>1, <2>2
    <3> QED
      BY <3>1
  <2> QED
    BY <1>1, <2>1, <2>2
<1> DEFINE S == Places(l, n) \ {x}
<1>6. PICK f : f = [i \in Places(m, n) |-> j(i)]
  OBVIOUS
<1> HIDE DEF j
<1>7. f \in [Places(m, n) -> S]
  BY <1>1, <1>3, <1>6 DEF Places
<1>8. \A i, k \in Places(m, n) : f[i] = f[k] => i = k
  BY <1>1, <1>4, <1>6 DEF Places
<1>9. \A k \in S : \E i \in Places(m, n) : f[i] = k
  <2> TAKE k \in S
  <2>1. k \in 1 .. Len(l) /\ k # x /\ l[k].node = n
    BY <1>1 DEF Places
  <2>2. PICK i \in 1 .. Len(l) - 1 : j(i) = k
    BY <1>5, <2>1
  <2>3. i \in Places(m, n)
    BY <1>1, <1>3, <2>1, <2>2 DEF Places
  <2> QED
    BY <1>6, <2>2, <2>3
<1>10. Cardinality(S) = Uses(m, n)
  BY <1>2, <1>7, <1>8, <1>9, BijectionCount
<1>11. Cardinality(S) = IF x \in Places(l, n) THEN Uses(l, n) - 1 ELSE Uses(l, n)
  BY <1>2, FS_RemoveElement
<1>12. Uses(<<l[x]>>, n) = One(l[x].node = n)
  BY UsesOne
<1>13. x \in Places(l, n) <=> l[x].node = n
  BY <1>1 DEF Places
<1> QED
  BY <1>2, <1>10, <1>11, <1>12, <1>13 DEF One

(***************************************************************************)
(* The descriptors of a node that the tasks A have in their lists F.       *)
(***************************************************************************)
Refs(A, F, n) ==
  {r \in A \X (1 .. MaxFds) : r[2] \in DOMAIN F[r[1]] /\ F[r[1]][r[2]].node = n}

LEMMA RefsFinite ==
  ASSUME NEW A \in SUBSET Task, NEW F, NEW n
  PROVE  IsFiniteSet(Refs(A, F, n)) /\ Cardinality(Refs(A, F, n)) \in Nat
<1>1. IsFiniteSet(A)
  BY FdTableAssumption, FS_Subset
<1>2. MaxFds \in Int /\ 1 \in Int
  BY FdTableAssumption
<1>3. IsFiniteSet(1 .. MaxFds)
  BY <1>2, FS_Interval
<1>4. IsFiniteSet(A \X (1 .. MaxFds))
  BY <1>1, <1>3, FS_Product
<1>5. Refs(A, F, n) \in SUBSET (A \X (1 .. MaxFds))
  BY DEF Refs
<1>6. IsFiniteSet(Refs(A, F, n))
  BY <1>4, <1>5, FS_Subset
<1> QED
  BY <1>6, FS_CardinalityType

LEMMA RefsFrame ==
  ASSUME NEW A, NEW F, NEW G, \A s \in A : F[s] = G[s], NEW n
  PROVE  Refs(A, F, n) = Refs(A, G, n)
BY DEF Refs

LEMMA RefsSplit ==
  ASSUME NEW A \in SUBSET Task, NEW t \in A, NEW F, F[t] \in Seq(Descriptor),
         Len(F[t]) <= MaxFds, NEW n
  PROVE  Cardinality(Refs(A, F, n)) = Cardinality(Refs(A \ {t}, F, n)) + Uses(F[t], n)
<1>1. PICK l \in Seq(Descriptor) : l = F[t]
  OBVIOUS
<1>2. DOMAIN l = 1 .. Len(l) /\ Len(l) \in Nat /\ MaxFds \in Nat /\ DOMAIN l \subseteq 1 .. MaxFds
  BY <1>1, FdTableAssumption
<1>3. IsFiniteSet(Places(l, n)) /\ Uses(l, n) = Cardinality(Places(l, n)) /\ Uses(l, n) \in Nat
  BY PlacesFinite
<1> DEFINE R == Refs({t}, F, n)
<1>4. PICK f : f = [x \in Places(l, n) |-> <<t, x>>]
  OBVIOUS
<1>5. \A x \in Places(l, n) : <<t, x>> \in R
  BY <1>1, <1>2 DEF Places, Refs
<1>6. \A r \in R : r[2] \in Places(l, n) /\ r = <<t, r[2]>>
  BY <1>1 DEF Places, Refs
<1> HIDE DEF R
<1>7. f \in [Places(l, n) -> R] /\ \A x, y \in Places(l, n) : f[x] = f[y] => x = y
  BY <1>4, <1>5
<1>8. \A r \in R : \E x \in Places(l, n) : f[x] = r
  BY <1>4, <1>6
<1>9. IsFiniteSet(R) /\ Cardinality(R) = Uses(l, n)
  BY <1>3, <1>7, <1>8, BijectionCount
<1> DEFINE Q == Refs(A \ {t}, F, n)
<1>10. IsFiniteSet(Q) /\ Cardinality(Q) \in Nat
  BY RefsFinite
<1>11. Refs(A, F, n) = Q \cup R /\ Q \cap R = {}
  <2>1. \A r \in A \X (1 .. MaxFds) : r \in (A \ {t}) \X (1 .. MaxFds) \/ r \in {t} \X (1 .. MaxFds)
    OBVIOUS
  <2>2. Refs(A, F, n) = Q \cup R
    BY <2>1 DEF Refs, R
  <2>3. Q \cap R = {}
    BY DEF Refs, R
  <2> QED
    BY <2>2, <2>3
<1> HIDE DEF Q
<1>12. Cardinality(Q \cup R) = Cardinality(Q) + Cardinality(R) - Cardinality(Q \cap R)
  BY <1>9, <1>10, FS_Union
<1>13. Cardinality(Q \cap R) = 0
  BY <1>11, FS_EmptySet
<1> QED
  BY <1>1, <1>3, <1>9, <1>10, <1>11, <1>12, <1>13 DEF Q

-----------------------------------------------------------------------------
(***************************************************************************)
(* The lists F of the tasks A, with the cache c.                           *)
(***************************************************************************)
ListsOK(A, F, c) ==
  /\ A \in SUBSET Task /\ F \in [Task -> Seq(Descriptor)] /\ \A t \in Task : Len(F[t]) <= MaxFds
  /\ \A t \in A : ListOK(F[t], c)
  /\ \A t \in A \ {Main} : ProgramList(F[t])

LEMMA ListsOKLater ==
  ASSUME NEW A, NEW F, NEW c, ListsOK(A, F, c), CacheType(c), NEW z, Later(c, z)
  PROVE  ListsOK(A, F, z)
<1>1. \A t \in A : ListOK(F[t], z)
  BY ListLater DEF ListsOK
<1> QED
  BY <1>1 DEF ListsOK

\* A task, new or not, gets a list.
LEMMA ListsSet ==
  ASSUME NEW A, NEW F, NEW c, ListsOK(A, F, c), NEW t \in Task, NEW m, ListOK(m, c),
         ProgramList(m), NEW B, B = A \cup {t}, NEW G, G = [F EXCEPT ![t] = m]
  PROVE  ListsOK(B, G, c)
<1>1. m \in Seq(Descriptor) /\ Len(m) <= MaxFds
  BY DEF ListOK
<1>3. G \in [Task -> Seq(Descriptor)] /\ G[t] = m /\ \A s \in Task : s # t => G[s] = F[s]
  BY <1>1 DEF ListsOK
<1>4. ASSUME NEW s \in Task PROVE Len(G[s]) <= MaxFds
  BY <1>1, <1>3 DEF ListsOK
<1>5. ASSUME NEW s \in A \cup {t} PROVE ListOK(G[s], c)
  BY <1>3 DEF ListsOK
<1>6. ASSUME NEW s \in (A \cup {t}) \ {Main} PROVE ProgramList(G[s])
  BY <1>3 DEF ListsOK
<1>7. A \cup {t} \in SUBSET Task
  BY DEF ListsOK
<1> QED
  BY <1>3, <1>4, <1>5, <1>6, <1>7 DEF ListsOK

LEMMA ListsDrop ==
  ASSUME NEW A, NEW F, NEW c, ListsOK(A, F, c), NEW t \in Task,
         NEW G, G = [F EXCEPT ![t] = <<>>]
  PROVE  ListsOK(A \ {t}, G, c)
<1>1. <<>> \in Seq(Descriptor) /\ Len(<<>>) <= MaxFds
  BY FdTableAssumption
<1>3. G \in [Task -> Seq(Descriptor)] /\ G[t] = <<>> /\ \A s \in Task : s # t => G[s] = F[s]
  BY <1>1 DEF ListsOK
<1>4. ASSUME NEW s \in Task PROVE Len(G[s]) <= MaxFds
  BY <1>1, <1>3 DEF ListsOK
<1> QED
  BY <1>3, <1>4 DEF ListsOK

\* G is F with the list m of t.
Changed(F, G, t, m) == G = [F EXCEPT ![t] = m]

LEMMA RefsSet ==
  ASSUME NEW A, NEW F, NEW c, ListsOK(A, F, c), NEW t \in Task,
         NEW m \in Seq(Descriptor), Len(m) <= MaxFds, NEW n,
         NEW B, B = A \cup {t}, NEW G, Changed(F, G, t, m)
  PROVE  Cardinality(Refs(B, G, n)) = Cardinality(Refs(A \ {t}, F, n)) + Uses(m, n)
<1>1. A \in SUBSET Task
  BY DEF ListsOK
<1>2. G[t] = m /\ \A s \in Task : s # t => G[s] = F[s]
  BY DEF ListsOK, Changed
<1>3. B \in SUBSET Task /\ t \in B /\ B \ {t} = A \ {t}
  BY <1>1
<1>4. Cardinality(Refs(B, G, n)) = Cardinality(Refs(B \ {t}, G, n)) + Uses(G[t], n)
  BY <1>2, <1>3, RefsSplit
<1>5. \A s \in A \ {t} : G[s] = F[s]
  BY <1>1, <1>2
<1>6. Refs(A \ {t}, G, n) = Refs(A \ {t}, F, n)
  BY <1>5, RefsFrame
<1> QED
  BY <1>2, <1>3, <1>4, <1>6

LEMMA RefsDrop ==
  ASSUME NEW A, NEW F, NEW c, ListsOK(A, F, c), NEW t \in Task, NEW m, NEW n,
         NEW G, Changed(F, G, t, m)
  PROVE  Refs(A \ {t}, G, n) = Refs(A \ {t}, F, n)
<1>1. \A s \in A \ {t} : G[s] = F[s]
  BY DEF ListsOK, Changed
<1> QED
  BY <1>1, RefsFrame

\* The tasks A have the list of t, and others.
LEMMA RefsOf ==
  ASSUME NEW A, NEW F, NEW c, ListsOK(A, F, c), NEW t \in A, NEW n
  PROVE  /\ Cardinality(Refs(A, F, n)) = Cardinality(Refs(A \ {t}, F, n)) + Uses(F[t], n)
         /\ Cardinality(Refs(A \ {t}, F, n)) \in Nat /\ Uses(F[t], n) \in Nat
<1>1. A \in SUBSET Task /\ t \in Task /\ F[t] \in Seq(Descriptor) /\ Len(F[t]) <= MaxFds
  BY DEF ListsOK
<1>2. A \ {t} \in SUBSET Task
  BY <1>1
<1>3. Cardinality(Refs(A, F, n)) = Cardinality(Refs(A \ {t}, F, n)) + Uses(F[t], n)
  BY <1>1, RefsSplit
<1>4. Cardinality(Refs(A \ {t}, F, n)) \in Nat
  BY <1>2, RefsFinite
<1>5. Uses(F[t], n) \in Nat
  BY <1>1, PlacesFinite
<1> QED
  BY <1>3, <1>4, <1>5

-----------------------------------------------------------------------------
(***************************************************************************)
(* The inductive invariant.  The count of the streams needs the lists of   *)
(* the programs not to be empty, as exit() does not close the first        *)
(* descriptor; a node that is loaded needs the tree it is loaded into.     *)
(***************************************************************************)

\* The tasks, their directories and the bounds.
RestOK ==
  /\ alive \subseteq tasks /\ tasks \subseteq Task
  /\ current_dir \in [Task -> {NULL} \cup {n \in NodeId : n[2] = "dir"}]
  /\ creates \in Nat /\ heapOK \in BOOLEAN

\* The streams of each pipe are counted.
StreamsOK ==
  /\ streams_open \in [Pipes -> Nat] /\ lost \in [Pipes -> Nat] /\ pipes \subseteq Pipes
  /\ \A p \in Pipes : /\ streams_open[p] = Cardinality(Refs(alive, fds, p)) + lost[p]
                      /\ p \in pipes <=> streams_open[p] > 0

Sound == /\ RestOK /\ StreamsOK /\ ListsOK(alive, fds, cache)
         /\ CacheType(cache) /\ IsTree(cache)

LEMMA SoundIs ==
  Sound => TypeOK /\ StreamsCounted /\ CacheIsTree
<1>1. \A p : References(p) = Cardinality(Refs(alive, fds, p))
  BY DEF References, Refs
<1> QED
  BY <1>1 DEF Sound, TypeOK, RestOK, StreamsOK, StreamsCounted, ListsOK, CacheIsTree

\* The properties follow from it.
LEMMA SoundImplies ==
  Sound => FdsOK /\ NoDanglingFd /\ PathsAreFound
<1> SUFFICES ASSUME Sound PROVE FdsOK /\ NoDanglingFd /\ PathsAreFound
  OBVIOUS
<1>1. TypeOK /\ RestOK /\ CacheIsTree /\ StreamsOK /\ ListsOK(alive, fds, cache)
      /\ CacheType(cache)
  BY SoundIs DEF Sound
<1>2. ASSUME NEW t \in alive
      PROVE  /\ fds[t] \in Seq(Descriptor) /\ ListOK(fds[t], cache)
             /\ \A x \in DOMAIN fds[t] : fds[t][x].node \in Pipes \cup NodeId
             /\ \A x \in DOMAIN fds[t] : fds[t][x] \in Descriptor
  <2>1. fds[t] \in Seq(Descriptor) /\ ListOK(fds[t], cache)
    BY <1>1 DEF ListsOK
  <2>2. \A x \in DOMAIN fds[t] : fds[t][x] \in Descriptor
    BY <2>1
  <2> QED
    BY <2>1, <2>2 DEF Descriptor
<1>3. FdsUnique
  BY <1>2 DEF FdsUnique, ListOK
<1>4. PosInFile
  BY <1>2 DEF PosInFile, ListOK, FdOK
<1>5. NoDanglingFd
  <2> SUFFICES ASSUME NEW t \in alive, NEW x \in DOMAIN fds[t]
               PROVE  \/ IsLive(fds[t][x].node)
                      \/ fds[t][x].node \notin Pipes /\ Freed(cache, fds[t][x].node)
    BY DEF NoDanglingFd
  <2>1. CASE fds[t][x].node \in Pipes
    <3>1. PICK p \in Pipes : p = fds[t][x].node
      BY <2>1
    <3>2. x \in Places(fds[t], p)
      BY <3>1 DEF Places
    <3>3. Uses(fds[t], p) \in Nat /\ Uses(fds[t], p) # 0
      <4>1. /\ IsFiniteSet(Places(fds[t], p)) /\ Uses(fds[t], p) = Cardinality(Places(fds[t], p))
            /\ Uses(fds[t], p) \in Nat
        BY <1>2, PlacesFinite
      <4> QED
        BY <3>2, <4>1, FS_EmptySet
    <3>4. streams_open[p] > 0
      <4>1. /\ Cardinality(Refs(alive, fds, p))
                 = Cardinality(Refs(alive \ {t}, fds, p)) + Uses(fds[t], p)
            /\ Cardinality(Refs(alive \ {t}, fds, p)) \in Nat
        BY <1>1, RefsOf
      <4>2. lost[p] \in Nat /\ streams_open[p] = Cardinality(Refs(alive, fds, p)) + lost[p]
        BY <1>1 DEF StreamsOK
      <4> QED
        BY <3>3, <4>1, <4>2
    <3> QED
      BY <1>1, <3>1, <3>4 DEF StreamsOK, IsLive
  <2>2. CASE fds[t][x].node \notin Pipes
    <3>1. fds[t][x].node \in NodeId /\ FdOK(fds[t][x], cache)
      BY <1>2, <2>2 DEF ListOK
    <3> QED
      BY <2>2, <3>1 DEF FdOK, IsLive
  <2> QED
    BY <2>1, <2>2
<1>7. PathsAreFound
  <2>1. CacheType(cache) /\ IsTree(cache)
    BY <1>1 DEF CacheIsTree
  <2> QED
    BY <2>1, TreeFindsDisk DEF PathsAreFound
<1> QED
  BY <1>1, <1>3, <1>4, <1>5, <1>7 DEF FdsOK

-----------------------------------------------------------------------------
(***************************************************************************)
(* The steps.                                                              *)
(***************************************************************************)

\* x is a result of a search or a creation that began with the cache.
Reached(x) ==
  /\ Later(cache, x.cache) /\ CacheType(x.cache) /\ IsTree(x.cache)
  /\ x.node # NULL => x.node \in Live(x.cache) /\ x.node \in NodeId

LEMMA StartIsDir ==
  ASSUME Sound, NEW t \in Task, NEW absolute \in BOOLEAN, IsLive(From(t, absolute))
  PROVE  From(t, absolute) \in cache.vnodes \cup {RootNode} /\ From(t, absolute)[2] = "dir"
<1>1. CASE From(t, absolute) = RootNode
  BY <1>1 DEF RootNode
<1>2. CASE From(t, absolute) # RootNode
  <2>1. From(t, absolute) = current_dir[t] /\ current_dir[t] # NULL
    BY <1>2 DEF From
  <2>2. current_dir[t] \in NodeId /\ current_dir[t][2] = "dir"
    BY <2>1 DEF Sound, RestOK
  <2>3. current_dir[t] \notin Pipes
    BY <2>2, FdTableAssumption
  <2>4. current_dir[t] \in Live(cache)
    BY <2>1, <2>3 DEF IsLive, Sound, StreamsOK
  <2>5. current_dir[t] \notin cache.created
    BY <2>2 DEF Sound, CacheType
  <2> QED
    BY <2>1, <2>2, <2>4, <2>5 DEF Live
<1> QED
  BY <1>1, <1>2

LEMMA SearchReaches ==
  ASSUME Sound, NEW t \in Task, NEW absolute \in BOOLEAN, IsLive(From(t, absolute)),
         NEW path \in Argument, NEW x \in vfs_search_vnode(cache, From(t, absolute), path)
  PROVE  Reached(x)
<1>1. PICK from : from = From(t, absolute)
  OBVIOUS
<1>2. from \in cache.vnodes \cup {RootNode} /\ from[2] = "dir"
  BY <1>1, StartIsDir
<1>3. path \in Seq(Name) /\ CacheType(cache) /\ IsTree(cache)
  BY FdTableAssumption DEF Sound
<1>4. PICK whole \in BOOLEAN : whole = TRUE
  OBVIOUS
<1>5. x \in Descended(cache, from, path, whole)
  BY <1>1, <1>4 DEF vfs_search_vnode
<1>6. Place(cache, x, from[1] \o path, ~whole)
  BY <1>2, <1>3, <1>5, DescendedPlace
<1>7. Later(cache, x.cache) /\ IsTree(x.cache) /\ CacheType(x.cache)
  BY <1>6 DEF Place, Later
<1>8. x.node # NULL => x.node \in Live(x.cache)
  BY <1>6 DEF Place, Live
<1> QED
  BY <1>7, <1>8, CacheFields DEF Reached

LEMMA CreateReaches ==
  ASSUME Sound, NEW x, Reached(x), NEW path \in Path, NEW y \in mknode_file(x.cache, path)
  PROVE  Reached(y)
<1>1. CacheType(x.cache) /\ IsTree(x.cache) /\ Later(cache, x.cache) /\ CacheType(cache)
  BY DEF Reached, Sound
<1>2. Makes(x.cache, y)
  BY <1>1, MknodeMakes
<1>3. Later(x.cache, y.cache) /\ CacheType(y.cache) /\ IsTree(y.cache)
  BY <1>2 DEF Makes, Later
<1>4. Later(cache, y.cache)
  BY <1>1, <1>3, LaterTrans
<1>5. y.node # NULL => y.node \in Live(y.cache)
  BY <1>2 DEF Makes, Live
<1> QED
  BY <1>3, <1>4, <1>5, CacheFields DEF Reached

\* The streams are still counted if the descriptors of pipes are the same.
LEMMA StreamsKept ==
  ASSUME Sound, UNCHANGED <<streams_open, lost, pipes>>,
         \A p \in Pipes : Cardinality(Refs(alive', fds', p)) = Cardinality(Refs(alive, fds, p))
  PROVE  StreamsOK'
BY DEF Sound, StreamsOK

\* A program gets a list with as many descriptors of each pipe.
LEMMA SetKeeps ==
  ASSUME Sound, NEW t \in alive \ {Main}, NEW z, Later(cache, z), NEW m, ListOK(m, z),
         ProgramList(m), \A p \in Pipes : Uses(m, p) = Uses(fds[t], p),
         alive' = alive, fds' = [fds EXCEPT ![t] = m], cache' = z,
         UNCHANGED <<streams_open, lost, pipes>>
  PROVE  StreamsOK' /\ ListsOK(alive', fds', cache')
<1>1. ListsOK(alive, fds, cache) /\ CacheType(cache) /\ t \in Task
  BY DEF Sound, RestOK
<1>2. ListsOK(alive, fds, z)
  BY <1>1, ListsOKLater
<1>3. alive \cup {t} = alive
  OBVIOUS
<1>4. ListsOK(alive', fds', z)
  BY <1>1, <1>2, <1>3, ListsSet
<1>5. m \in Seq(Descriptor) /\ Len(m) <= MaxFds
  BY DEF ListOK
<1>6. ASSUME NEW p \in Pipes
      PROVE  Cardinality(Refs(alive', fds', p)) = Cardinality(Refs(alive, fds, p))
  <2>1. Cardinality(Refs(alive', fds', p)) = Cardinality(Refs(alive \ {t}, fds, p)) + Uses(m, p)
    <3>1. Changed(fds, fds', t, m)
      BY DEF Changed
    <3> QED
      BY <1>1, <1>3, <1>5, <3>1, RefsSet
  <2>2. Cardinality(Refs(alive, fds, p)) = Cardinality(Refs(alive \ {t}, fds, p)) + Uses(fds[t], p)
    BY <1>1, RefsOf
  <2> QED
    BY <1>3, <2>1, <2>2
<1> QED
  BY <1>4, <1>6, StreamsKept

\* The lists stay as they are.
LEMMA SameKeeps ==
  ASSUME Sound, NEW z, Later(cache, z), cache' = z,
         UNCHANGED <<alive, fds, streams_open, lost, pipes>>
  PROVE  StreamsOK' /\ ListsOK(alive', fds', cache')
<1>1. ListsOK(alive, fds, z)
  BY ListsOKLater DEF Sound
<1> QED
  BY <1>1 DEF Sound, StreamsOK

LEMMA OpenedStep ==
  ASSUME Sound, NEW t \in alive \ {Main}, Len(fds[t]) < MaxFds, NEW x, Reached(x),
         NEW mode \in Mode, Opened(t, x, mode),
         UNCHANGED <<alive, current_dir, pipes, streams_open, lost, tasks, heapOK>>, creates' \in Nat
  PROVE  Sound'
<1>1. Later(cache, x.cache) /\ CacheType(x.cache) /\ IsTree(x.cache) /\ cache' = x.cache
  BY DEF Reached, Opened
<1>2. StreamsOK' /\ ListsOK(alive', fds', cache')
  <2>1. CASE x.node = NULL \/ (x.node[2] = "dir" /\ mode # FD_READ)
    <3>1. fds' = fds
      BY <2>1 DEF Opened
    <3> QED
      BY <1>1, <3>1, SameKeeps
  <2>2. CASE ~(x.node = NULL \/ (x.node[2] = "dir" /\ mode # FD_READ))
    <3>1. PICK m : m = vfs_create_fd(fds[t], x.node, mode)
      OBVIOUS
    <3>2. PICK node \in NodeId : node = x.node
      BY <2>2 DEF Reached
    <3>3. ListsOK(alive, fds, x.cache)
      BY <1>1, ListsOKLater DEF Sound
    <3>4. ListOK(fds[t], x.cache) /\ ProgramList(fds[t]) /\ fds \in [Task -> Seq(Descriptor)]
          /\ t \in Task /\ fds[t] \in Seq(Descriptor)
      BY <3>3 DEF ListsOK
    <3>5. fds' = [fds EXCEPT ![t] = m]
      BY <2>2, <3>1 DEF Opened
    <3>6. node \in Live(x.cache) /\ node \in Pipes \cup NodeId
      BY <2>2, <3>2 DEF Reached
    <3>7. m = vfs_create_fd(fds[t], node, mode)
      BY <3>1, <3>2
    <3>8. ListOK(m, x.cache) /\ ProgramList(m)
      BY <1>1, <3>4, <3>6, <3>7, ListCreate
    <3>9. ASSUME NEW p \in Pipes PROVE Uses(m, p) = Uses(fds[t], p)
      <4>1. PICK d : d = Fd(NewNumber(fds[t]), node, mode)
        OBVIOUS
      <4>2. Extended(fds[t], m, d)
        BY <3>4, <3>6, <3>7, <4>1, CreateFd
      <4>3. d.node # p
        BY <4>1, FdTableAssumption DEF Fd
      <4>4. Uses(m, p) = Uses(fds[t], p) + One(d.node = p)
        BY <3>4, <4>2, UsesExtended
      <4>5. Uses(fds[t], p) \in Nat
        BY <3>4, PlacesFinite
      <4> QED
        BY <4>3, <4>4, <4>5 DEF One
    <3> QED
      BY <1>1, <3>5, <3>8, <3>9, SetKeeps
  <2> QED
    BY <2>1, <2>2
<1>3. RestOK'
  BY DEF Sound, RestOK
<1>4. (CacheType(cache) /\ IsTree(cache))'
  BY <1>1
<1>5. ListsOK(alive, fds, cache)'
  BY <1>2
<1> QED
  BY <1>2, <1>3, <1>4, <1>5 DEF Sound

LEMMA OpenStep ==
  ASSUME Sound, NEW t \in Task, NEW a \in BOOLEAN, NEW path \in Argument, NEW mode \in Mode,
         open(t, a, path, mode)
  PROVE  Sound'
<1>1. t \in alive \ {Main} /\ Len(fds[t]) < MaxFds /\ IsLive(From(t, a))
      /\ UNCHANGED <<alive, current_dir, pipes, streams_open, lost, tasks, heapOK>>
  BY DEF open, InUserMode
<1>2. PICK at \in vfs_search_vnode(cache, From(t, a), path) :
        IF at.node # NULL \/ mode = FD_READ
        THEN Opened(t, at, mode) /\ UNCHANGED creates
        ELSE /\ creates > 0 /\ path \in Path
             /\ creates' = creates - 1
             /\ \E made \in mknode_file(at.cache, path) : Opened(t, made, mode)
  BY DEF open
<1>3. Reached(at)
  BY <1>1, <1>2, SearchReaches
<1>4. creates \in Nat
  BY DEF Sound, RestOK
<1>5. CASE at.node # NULL \/ mode = FD_READ
  <2>1. Opened(t, at, mode) /\ creates' = creates
    BY <1>2, <1>5
  <2> QED
    BY <1>1, <1>3, <1>4, <2>1, OpenedStep
<1>6. CASE ~(at.node # NULL \/ mode = FD_READ)
  <2>1. creates > 0 /\ path \in Path /\ creates' = creates - 1
    BY <1>2, <1>6
  <2>2. PICK made \in mknode_file(at.cache, path) : Opened(t, made, mode)
    BY <1>2, <1>6
  <2>3. Reached(made)
    BY <1>3, <2>1, <2>2, CreateReaches
  <2>4. creates' \in Nat
    BY <1>4, <2>1
  <2> QED
    BY <1>1, <2>2, <2>3, <2>4, OpenedStep
<1> QED
  BY <1>5, <1>6

LEMMA ChdirStep ==
  ASSUME Sound, NEW t \in Task, NEW a \in BOOLEAN, NEW path \in Argument, chdir(t, a, path)
  PROVE  Sound'
<1>1. IsLive(From(t, a)) /\ UNCHANGED <<alive, fds, pipes, streams_open, lost, creates, tasks, heapOK>>
  BY DEF chdir
<1>2. PICK at \in vfs_search_vnode(cache, From(t, a), path) :
        /\ cache' = at.cache
        /\ current_dir' = IF at.node # NULL /\ at.node[2] = "dir"
                          THEN [current_dir EXCEPT ![t] = at.node] ELSE current_dir
  BY DEF chdir
<1>3. Reached(at)
  BY <1>1, <1>2, SearchReaches
<1>4. Later(cache, at.cache) /\ CacheType(at.cache) /\ IsTree(at.cache)
      /\ (at.node # NULL => at.node \in NodeId)
  BY <1>3 DEF Reached
<1>5. StreamsOK' /\ ListsOK(alive', fds', cache')
  BY <1>1, <1>2, <1>4, SameKeeps
<1>6. RestOK'
  <2>1. CASE at.node # NULL /\ at.node[2] = "dir"
    <3>1. at.node \in {n \in NodeId : n[2] = "dir"} /\ current_dir' = [current_dir EXCEPT ![t] = at.node]
      BY <1>2, <1>4, <2>1
    <3> QED
      BY <1>1, <3>1 DEF Sound, RestOK
  <2>2. CASE ~(at.node # NULL /\ at.node[2] = "dir")
    BY <1>1, <1>2, <2>2 DEF Sound, RestOK
  <2> QED
    BY <2>1, <2>2
<1>7. (CacheType(cache) /\ IsTree(cache))' /\ ListsOK(alive, fds, cache)'
  BY <1>2, <1>4, <1>5
<1> QED
  BY <1>5, <1>6, <1>7 DEF Sound

\* A search that reads a freed tnode changes the cache like any other.
LEMMA SearchFreedStep ==
  ASSUME Sound, NEW t \in Task, NEW a \in BOOLEAN, NEW path \in Argument, SearchFreed(t, a, path)
  PROVE  Sound'
<1>1. /\ IsLive(From(t, a)) /\ heapOK' = FALSE
      /\ UNCHANGED <<alive, fds, current_dir, pipes, streams_open, lost, creates, tasks>>
  BY DEF SearchFreed
<1>2. PICK at \in vfs_search_vnode(cache, From(t, a), path) : cache' = at.cache
  BY DEF SearchFreed
<1>3. Reached(at)
  BY <1>1, <1>2, SearchReaches
<1>4. Later(cache, at.cache) /\ CacheType(at.cache) /\ IsTree(at.cache)
  BY <1>3 DEF Reached
<1>5. StreamsOK' /\ ListsOK(alive', fds', cache')
  BY <1>1, <1>2, <1>4, SameKeeps
<1>6. RestOK'
  BY <1>1 DEF Sound, RestOK
<1>7. (CacheType(cache) /\ IsTree(cache))' /\ ListsOK(alive, fds, cache)'
  BY <1>2, <1>4, <1>5
<1> QED
  BY <1>5, <1>6, <1>7 DEF Sound

\* The cache stays as it is.
LEMMA SoundWithCache ==
  ASSUME Sound, RestOK', StreamsOK', ListsOK(alive', fds', cache), cache' = cache
  PROVE  Sound'
<1>1. (CacheType(cache) /\ IsTree(cache))' /\ ListsOK(alive, fds, cache)'
  BY DEF Sound
<1> QED
  BY <1>1 DEF Sound

LEMMA PipeStep ==
  ASSUME Sound, NEW t \in Task, pipe(t)
  PROVE  Sound'
<1>1. t \in alive \ {Main} /\ Len(fds[t]) + 2 <= MaxFds
      /\ UNCHANGED <<alive, current_dir, cache, lost, creates, tasks, heapOK>>
  BY DEF pipe, InUserMode
<1>2. PICK p \in Pipes \ pipes :
        /\ pipes' = pipes \cup {p}
        /\ fds' = [fds EXCEPT ![t] = vfs_create_fd(vfs_create_fd(fds[t], p, FD_READ), p, FD_WRITE)]
        /\ streams_open' = [streams_open EXCEPT ![p] = 2]
  BY DEF pipe
<1>3. ListsOK(alive, fds, cache) /\ CacheType(cache)
  BY DEF Sound
<1>4. PICK l : l = fds[t]
  OBVIOUS
<1>5. ListOK(l, cache) /\ ProgramList(l) /\ l \in Seq(Descriptor) /\ Len(l) \in Nat /\ MaxFds \in Nat
  BY <1>1, <1>3, <1>4, FdTableAssumption DEF ListsOK, ListOK
<1>6. PICK m : m = vfs_create_fd(l, p, FD_READ)
  OBVIOUS
<1>7. PICK k : k = vfs_create_fd(m, p, FD_WRITE)
  OBVIOUS
<1>8. p \in Pipes /\ p \in Pipes \cup NodeId /\ FD_READ \in Mode /\ FD_WRITE \in Mode
  BY <1>2 DEF Mode
<1>9. ListOK(m, cache) /\ Len(m) = Len(l) + 1 /\ ProgramList(m)
  <2>1. Len(l) < MaxFds
    BY <1>1, <1>4, <1>5
  <2> QED
    BY <1>3, <1>5, <1>6, <1>8, <2>1, ListCreate
<1>10. ListOK(k, cache) /\ ProgramList(k)
  <2>1. Len(m) < MaxFds
    BY <1>1, <1>4, <1>5, <1>9
  <2> QED
    BY <1>3, <1>7, <1>8, <1>9, <2>1, ListCreate
<1>11. m \in Seq(Descriptor) /\ k \in Seq(Descriptor) /\ Len(k) <= MaxFds
  BY <1>9, <1>10 DEF ListOK
<1>12. Changed(fds, fds', t, k)
  BY <1>2, <1>4, <1>6, <1>7 DEF Changed
<1>13. alive = alive \cup {t} /\ alive' = alive
  BY <1>1
<1>14. ASSUME NEW q \in Pipes PROVE Uses(k, q) = Uses(l, q) + One(p = q) + One(p = q)
  <2>1. PICK d : d = Fd(NewNumber(l), p, FD_READ)
    OBVIOUS
  <2>2. PICK e : e = Fd(NewNumber(m), p, FD_WRITE)
    OBVIOUS
  <2>3. d.node = p /\ e.node = p
    BY <2>1, <2>2 DEF Fd
  <2>4. Extended(l, m, d)
    BY <1>5, <1>6, <1>8, <2>1, CreateFd
  <2>5. Extended(m, k, e)
    BY <1>7, <1>8, <1>11, <2>2, CreateFd
  <2>6. Uses(m, q) = Uses(l, q) + One(d.node = q)
    BY <1>5, <2>4, UsesExtended
  <2>7. Uses(k, q) = Uses(m, q) + One(e.node = q)
    BY <1>11, <2>5, UsesExtended
  <2> QED
    BY <2>3, <2>6, <2>7
<1>15. ASSUME NEW q \in Pipes
       PROVE  /\ Cardinality(Refs(alive', fds', q))
                   = Cardinality(Refs(alive, fds, q)) + One(p = q) + One(p = q)
              /\ Cardinality(Refs(alive, fds, q)) \in Nat
  <2>1. Cardinality(Refs(alive', fds', q)) = Cardinality(Refs(alive \ {t}, fds, q)) + Uses(k, q)
    BY <1>3, <1>11, <1>12, <1>13, RefsSet
  <2>2. /\ Cardinality(Refs(alive, fds, q)) = Cardinality(Refs(alive \ {t}, fds, q)) + Uses(l, q)
        /\ Cardinality(Refs(alive \ {t}, fds, q)) \in Nat /\ Uses(l, q) \in Nat
    <3>1. t \in alive
      BY <1>1
    <3>2. /\ Cardinality(Refs(alive, fds, q))
               = Cardinality(Refs(alive \ {t}, fds, q)) + Uses(fds[t], q)
          /\ Cardinality(Refs(alive \ {t}, fds, q)) \in Nat /\ Uses(fds[t], q) \in Nat
      BY <1>3, <3>1, RefsOf
    <3> QED
      BY <1>4, <3>2
  <2>3. Uses(k, q) = Uses(l, q) + One(p = q) + One(p = q)
    BY <1>14
  <2>4. PICK o \in Nat : o = One(p = q)
    BY DEF One
  <2> QED
    BY <1>13, <2>1, <2>2, <2>3, <2>4
<1>16. /\ streams_open \in [Pipes -> Nat] /\ lost \in [Pipes -> Nat] /\ pipes \subseteq Pipes
       /\ \A q \in Pipes : /\ streams_open[q] = Cardinality(Refs(alive, fds, q)) + lost[q]
                           /\ q \in pipes <=> streams_open[q] > 0
  BY DEF Sound, StreamsOK
<1>17. streams_open' \in [Pipes -> Nat] /\ streams_open'[p] = 2
       /\ \A q \in Pipes : q # p => streams_open'[q] = streams_open[q]
  BY <1>2, <1>16
<1>18. ASSUME NEW q \in Pipes
       PROVE  /\ streams_open'[q] = Cardinality(Refs(alive', fds', q)) + lost'[q]
              /\ q \in pipes' <=> streams_open'[q] > 0
  <2>1. lost[q] \in Nat /\ streams_open[q] \in Nat /\ lost'[q] = lost[q]
    BY <1>1, <1>16
  <2>2. CASE q = p
    <3>1. ~(streams_open[q] > 0)
      BY <1>2, <1>16, <2>2
    <3>2. Cardinality(Refs(alive, fds, q)) = 0 /\ lost[q] = 0
      BY <1>15, <1>16, <2>1, <3>1
    <3>3. One(p = q) = 1
      BY <2>2 DEF One
    <3>4. Cardinality(Refs(alive', fds', q)) = 2
      BY <1>15, <3>2, <3>3
    <3>5. streams_open'[q] = 2 /\ q \in pipes'
      BY <1>2, <1>17, <2>2
    <3> QED
      BY <2>1, <3>2, <3>4, <3>5
  <2>3. CASE q # p
    <3>1. One(p = q) = 0
      BY <2>3 DEF One
    <3>2. Cardinality(Refs(alive', fds', q)) = Cardinality(Refs(alive, fds, q))
      BY <1>15, <3>1
    <3>3. streams_open'[q] = streams_open[q] /\ (q \in pipes' <=> q \in pipes)
      BY <1>2, <1>17, <2>3
    <3> QED
      BY <1>16, <2>1, <3>2, <3>3
  <2> QED
    BY <2>2, <2>3
<1>19. StreamsOK'
  BY <1>1, <1>2, <1>16, <1>17, <1>18 DEF StreamsOK
<1>20. ListsOK(alive', fds', cache)
  BY <1>1, <1>3, <1>10, <1>12, <1>13, ListsSet DEF Changed
<1>21. RestOK'
  BY <1>1 DEF Sound, RestOK
<1> QED
  BY <1>1, <1>19, <1>20, <1>21, SoundWithCache

\* Some descriptors are closed, and the others are as before.
LEMMA StreamsClosed ==
  ASSUME Sound, NEW u, Closed(u), lost' \in [Pipes -> Nat],
         \A p \in Pipes : /\ Uses(u, p) \in Nat /\ Cardinality(Refs(alive', fds', p)) \in Nat
                          /\ Cardinality(Refs(alive, fds, p)) + lost[p]
                               = Cardinality(Refs(alive', fds', p)) + lost'[p] + Uses(u, p)
  PROVE  StreamsOK'
<1>1. /\ streams_open \in [Pipes -> Nat] /\ lost \in [Pipes -> Nat] /\ pipes \subseteq Pipes
      /\ \A q \in Pipes : /\ streams_open[q] = Cardinality(Refs(alive, fds, q)) + lost[q]
                          /\ q \in pipes <=> streams_open[q] > 0
  BY DEF Sound, StreamsOK
<1>2. /\ streams_open' = [p \in Pipes |-> streams_open[p] - Uses(u, p)]
      /\ pipes' = {p \in pipes : Uses(u, p) > 0 => streams_open'[p] > 0}
  BY DEF Closed
<1>3. ASSUME NEW p \in Pipes
      PROVE  /\ streams_open'[p] = Cardinality(Refs(alive', fds', p)) + lost'[p]
             /\ streams_open'[p] \in Nat
             /\ p \in pipes' <=> streams_open'[p] > 0
  <2>1. /\ streams_open[p] \in Nat /\ lost'[p] \in Nat /\ Uses(u, p) \in Nat
        /\ Cardinality(Refs(alive', fds', p)) \in Nat
        /\ streams_open'[p] = streams_open[p] - Uses(u, p)
    BY <1>1, <1>2
  <2>2. streams_open[p] = Cardinality(Refs(alive', fds', p)) + lost'[p] + Uses(u, p)
    BY <1>1
  <2>3. streams_open'[p] = Cardinality(Refs(alive', fds', p)) + lost'[p] /\ streams_open'[p] \in Nat
    BY <2>1, <2>2
  <2>4. p \in pipes' <=> streams_open'[p] > 0
    <3>1. CASE Uses(u, p) > 0
      <4>1. p \in pipes
        BY <1>1, <2>1, <2>2, <3>1
      <4> QED
        BY <1>2, <3>1, <4>1
    <3>2. CASE Uses(u, p) = 0
      <4>1. streams_open'[p] = streams_open[p] /\ ~(Uses(u, p) > 0)
        BY <2>1, <3>2
      <4> QED
        BY <1>1, <1>2, <4>1
    <3> QED
      BY <2>1, <3>1, <3>2
  <2> QED
    BY <2>3, <2>4
<1>4. streams_open' \in [Pipes -> Nat]
  BY <1>2, <1>3
<1> QED
  BY <1>1, <1>2, <1>3, <1>4 DEF StreamsOK

LEMMA CloseStep ==
  ASSUME Sound, NEW t \in Task, NEW n, close(t, n)
  PROVE  Sound'
<1>1. PICK x : x = vfs_find_fd(fds[t], n)
  OBVIOUS
<1>2. t \in alive \ {Main} /\ x > 1 /\ Closed(<<fds[t][x]>>)
      /\ fds' = [fds EXCEPT ![t] = RemoveAt(fds[t], x)]
      /\ UNCHANGED <<alive, current_dir, cache, lost, creates, tasks, heapOK>>
  BY <1>1 DEF close, InUserMode
<1>3. ListsOK(alive, fds, cache)
  BY DEF Sound
<1>4. PICK l : l = fds[t]
  OBVIOUS
<1>5. ListOK(l, cache) /\ ProgramList(l) /\ l \in Seq(Descriptor)
  BY <1>2, <1>3, <1>4 DEF ListsOK, ListOK
<1>6. Finds(l, n, x)
  BY <1>1, <1>4, <1>5, FindFd
<1>7. x \in 1 .. Len(l)
  BY <1>2, <1>5, <1>6 DEF Finds
<1>8. PICK m : m = RemoveAt(l, x)
  OBVIOUS
<1>9. Without(l, x, m)
  BY <1>5, <1>7, <1>8, RemoveAtIs
<1>10. ListOK(m, cache) /\ ProgramList(m)
  BY <1>2, <1>5, <1>7, <1>9, ListRemove
<1>11. m \in Seq(Descriptor) /\ Len(m) <= MaxFds
  BY <1>10 DEF ListOK
<1>12. Changed(fds, fds', t, m)
  BY <1>2, <1>4, <1>8 DEF Changed
<1>13. alive = alive \cup {t} /\ alive' = alive /\ t \in alive
  BY <1>2
<1>14. PICK u : u = <<l[x]>>
  OBVIOUS
<1>15. Closed(u)
  BY <1>2, <1>4, <1>14
<1>16. ASSUME NEW p \in Pipes
       PROVE  /\ Uses(u, p) \in Nat /\ Cardinality(Refs(alive', fds', p)) \in Nat
              /\ Cardinality(Refs(alive, fds, p)) + lost[p]
                   = Cardinality(Refs(alive', fds', p)) + lost'[p] + Uses(u, p)
  <2>1. Cardinality(Refs(alive', fds', p)) = Cardinality(Refs(alive \ {t}, fds, p)) + Uses(m, p)
    BY <1>3, <1>11, <1>12, <1>13, RefsSet
  <2>2. /\ Cardinality(Refs(alive, fds, p))
             = Cardinality(Refs(alive \ {t}, fds, p)) + Uses(fds[t], p)
        /\ Cardinality(Refs(alive \ {t}, fds, p)) \in Nat /\ Uses(fds[t], p) \in Nat
    BY <1>3, <1>13, RefsOf
  <2>3. Uses(l, p) = Uses(m, p) + Uses(u, p)
    BY <1>5, <1>7, <1>9, <1>14, UsesWithout
  <2>4. Uses(m, p) \in Nat
    BY <1>11, PlacesFinite
  <2>5. Uses(u, p) \in Nat
    <3>1. Uses(u, p) = One(l[x].node = p)
      BY <1>14, UsesOne
    <3> QED
      BY <3>1 DEF One
  <2>6. lost[p] \in Nat /\ lost'[p] = lost[p]
    BY <1>2 DEF Sound, StreamsOK
  <2> QED
    BY <1>4, <2>1, <2>2, <2>3, <2>4, <2>5, <2>6
<1>17. lost' \in [Pipes -> Nat]
  BY <1>2 DEF Sound, StreamsOK
<1>18. StreamsOK'
  BY <1>15, <1>16, <1>17, StreamsClosed
<1>19. ListsOK(alive', fds', cache)
  BY <1>3, <1>10, <1>12, <1>13, ListsSet DEF Changed
<1>20. RestOK'
  BY <1>2 DEF Sound, RestOK
<1> QED
  BY <1>2, <1>18, <1>19, <1>20, SoundWithCache

LEMMA ForkStep ==
  ASSUME Sound, NEW t \in Task, fork(t)
  PROVE  Sound'
<1>1. t \in alive \ {Main} /\ UNCHANGED <<cache, pipes, lost, creates, tasks, heapOK>>
      /\ streams_open' = [p \in Pipes |-> streams_open[p] + Uses(fds[t], p)]
  BY DEF fork, InUserMode
<1>2. PICK c \in tasks \ alive :
        /\ alive' = alive \cup {c}
        /\ fds' = [fds EXCEPT ![c] = CopyFds(fds[t])]
        /\ current_dir' = [current_dir EXCEPT ![c] = current_dir[t]]
  BY DEF fork
<1>3. ListsOK(alive, fds, cache) /\ c \in Task /\ t \in alive
  BY <1>1, <1>2 DEF Sound, RestOK
<1>4. PICK l : l = fds[t]
  OBVIOUS
<1>5. ListOK(l, cache) /\ ProgramList(l) /\ l \in Seq(Descriptor)
  BY <1>1, <1>3, <1>4 DEF ListsOK, ListOK
<1>6. PICK m : m = CopyFds(l)
  OBVIOUS
<1>7. ListOK(m, cache) /\ IsCopyOf(l, Len(l), m) /\ ProgramList(m)
  BY <1>5, <1>6, ListCopy
<1>8. m \in Seq(Descriptor) /\ Len(m) <= MaxFds
  BY <1>7 DEF ListOK
<1>9. Len(m) = Len(l) /\ \A x \in 1 .. Len(l) : m[x].node = l[x].node
  BY <1>7 DEF IsCopyOf
<1>10. Changed(fds, fds', c, m)
  BY <1>2, <1>4, <1>6 DEF Changed
<1>11. alive \ {c} = alive
  BY <1>2
<1>12. /\ streams_open \in [Pipes -> Nat] /\ lost \in [Pipes -> Nat] /\ pipes \subseteq Pipes
       /\ \A q \in Pipes : /\ streams_open[q] = Cardinality(Refs(alive, fds, q)) + lost[q]
                           /\ q \in pipes <=> streams_open[q] > 0
  BY DEF Sound, StreamsOK
<1>13. ASSUME NEW p \in Pipes
       PROVE  /\ streams_open'[p] = Cardinality(Refs(alive', fds', p)) + lost'[p]
              /\ streams_open'[p] \in Nat
              /\ p \in pipes' <=> streams_open'[p] > 0
  <2>1. Cardinality(Refs(alive', fds', p)) = Cardinality(Refs(alive \ {c}, fds, p)) + Uses(m, p)
    BY <1>2, <1>3, <1>8, <1>10, RefsSet
  <2>2. Uses(m, p) = Uses(l, p)
    BY <1>5, <1>8, <1>9, UsesSame
  <2>3. /\ Cardinality(Refs(alive, fds, p))
             = Cardinality(Refs(alive \ {t}, fds, p)) + Uses(fds[t], p)
        /\ Cardinality(Refs(alive \ {t}, fds, p)) \in Nat /\ Uses(fds[t], p) \in Nat
    BY <1>3, RefsOf
  <2>4. streams_open'[p] = streams_open[p] + Uses(l, p) /\ lost'[p] = lost[p] /\ pipes' = pipes
    BY <1>1, <1>4
  <2>5. lost[p] \in Nat /\ streams_open[p] \in Nat
    BY <1>12
  <2>6. Refs(alive \ {c}, fds, p) = Refs(alive, fds, p)
    BY <1>11
  <2>7. /\ streams_open'[p] = Cardinality(Refs(alive', fds', p)) + lost'[p]
        /\ streams_open'[p] \in Nat
    BY <1>4, <1>12, <2>1, <2>2, <2>3, <2>4, <2>5, <2>6
  <2>8. ASSUME p \in pipes PROVE streams_open'[p] > 0
    BY <1>4, <1>12, <2>3, <2>4, <2>5, <2>8
  <2>9. ASSUME p \notin pipes PROVE streams_open'[p] = 0
    <3>1. streams_open[p] = 0
      BY <1>12, <2>5, <2>9
    <3> QED
      BY <1>4, <1>12, <2>3, <2>4, <2>5, <3>1
  <2> QED
    BY <2>4, <2>7, <2>8, <2>9
<1>14. streams_open' \in [Pipes -> Nat]
  BY <1>1, <1>13
<1>15. StreamsOK'
  BY <1>1, <1>12, <1>13, <1>14 DEF StreamsOK
<1>16. ListsOK(alive', fds', cache)
  BY <1>2, <1>3, <1>7, <1>10, ListsSet DEF Changed
<1>17. RestOK'
  BY <1>1, <1>2, <1>3 DEF Sound, RestOK
<1> QED
  BY <1>1, <1>15, <1>16, <1>17, SoundWithCache

LEMMA HandOverStep ==
  ASSUME Sound, NEW t \in alive \ {Main}, NEW c \in tasks \ alive, NEW z, Later(cache, z),
         CacheType(z), IsTree(z), cache' = z, alive' = (alive \ {t}) \cup {c}, HandOver(t, c),
         UNCHANGED <<pipes, streams_open, lost, creates, tasks, heapOK>>
  PROVE  Sound'
<1>1. ListsOK(alive, fds, cache) /\ CacheType(cache) /\ c \in Task /\ t \in Task /\ c # t /\ t \in alive
      /\ alive \in SUBSET Task /\ fds \in [Task -> Seq(Descriptor)]
  BY DEF Sound, RestOK, ListsOK
<1>2. ListsOK(alive, fds, z)
  BY <1>1, ListsOKLater
<1>3. PICK l : l = fds[t]
  OBVIOUS
<1>4. ListOK(l, z) /\ ProgramList(l) /\ l \in Seq(Descriptor) /\ Len(l) <= MaxFds
  BY <1>1, <1>2, <1>3 DEF ListsOK, ListOK
<1>5. PICK G : G = [fds EXCEPT ![t] = <<>>]
  OBVIOUS
<1>6. ListsOK(alive \ {t}, G, z)
  BY <1>1, <1>2, <1>5, ListsDrop
<1>7. fds' = [G EXCEPT ![c] = l]
  <2>1. fds' = [fds EXCEPT ![c] = fds[t], ![t] = <<>>]
    BY DEF HandOver
  <2>2. fds' = [s \in Task |-> IF s = t THEN <<>> ELSE IF s = c THEN l ELSE fds[s]]
    BY <1>1, <1>3, <2>1
  <2>3. [G EXCEPT ![c] = l] = [s \in Task |-> IF s = c THEN l ELSE IF s = t THEN <<>> ELSE fds[s]]
    BY <1>1, <1>5
  <2> QED
    BY <1>1, <2>2, <2>3
<1>8. ListsOK(alive', fds', z)
  BY <1>1, <1>4, <1>6, <1>7, ListsSet
<1>9. ASSUME NEW p \in Pipes
      PROVE  Cardinality(Refs(alive', fds', p)) = Cardinality(Refs(alive, fds, p))
  <2>1. PICK A : A = alive \ {t}
    OBVIOUS
  <2>2. Changed(G, fds', c, l) /\ alive' = A \cup {c} /\ A \ {c} = A /\ ListsOK(A, G, z)
    BY <1>6, <1>7, <2>1 DEF Changed
  <2>3. Cardinality(Refs(alive', fds', p)) = Cardinality(Refs(A \ {c}, G, p)) + Uses(l, p)
    BY <1>1, <1>4, <2>2, RefsSet
  <2>4. Refs(alive \ {t}, G, p) = Refs(alive \ {t}, fds, p)
    <3>1. PICK m : Changed(fds, G, t, m)
      BY <1>5 DEF Changed
    <3> QED
      BY <1>1, <3>1, RefsDrop
  <2>5. Cardinality(Refs(alive, fds, p)) = Cardinality(Refs(alive \ {t}, fds, p)) + Uses(fds[t], p)
    BY <1>1, RefsOf
  <2> QED
    BY <1>3, <2>1, <2>2, <2>3, <2>4, <2>5
<1>10. StreamsOK'
  BY <1>9, StreamsKept
<1>11. RestOK'
  <2>1. current_dir \in [Task -> {NULL} \cup {n \in NodeId : n[2] = "dir"}]
    BY DEF Sound, RestOK
  <2>2. current_dir' = [current_dir EXCEPT ![c] = current_dir[t], ![t] = NULL]
    BY DEF HandOver
  <2>3. current_dir' \in [Task -> {NULL} \cup {n \in NodeId : n[2] = "dir"}]
    BY <1>1, <2>1, <2>2
  <2> QED
    BY <2>3 DEF Sound, RestOK
<1>12. (CacheType(cache) /\ IsTree(cache))' /\ ListsOK(alive, fds, cache)'
  BY <1>8
<1> QED
  BY <1>10, <1>11, <1>12 DEF Sound

LEMMA ExecStep ==
  ASSUME Sound, NEW t \in Task, NEW a \in BOOLEAN, NEW path \in Argument, exec(t, a, path)
  PROVE  Sound'
<1>1. t \in alive \ {Main} /\ IsLive(From(t, a))
      /\ UNCHANGED <<pipes, streams_open, lost, creates, tasks, heapOK>>
  BY DEF exec, InUserMode
<1>2. PICK at \in vfs_search_vnode(cache, From(t, a), path) :
        /\ cache' = at.cache
        /\ \/ UNCHANGED <<alive, fds, current_dir>>
           \/ \E c \in tasks \ alive : alive' = (alive \ {t}) \cup {c} /\ HandOver(t, c)
  BY DEF exec
<1>3. Reached(at)
  BY <1>1, <1>2, SearchReaches
<1>4. PICK z : z = at.cache
  OBVIOUS
<1>5. Later(cache, z) /\ CacheType(z) /\ IsTree(z) /\ cache' = z
  BY <1>2, <1>3, <1>4 DEF Reached
<1>6. CASE UNCHANGED <<alive, fds, current_dir>>
  <2>1. StreamsOK' /\ ListsOK(alive', fds', cache')
    BY <1>1, <1>5, <1>6, SameKeeps
  <2>2. RestOK'
    BY <1>1, <1>6 DEF Sound, RestOK
  <2>3. (CacheType(cache) /\ IsTree(cache))' /\ ListsOK(alive, fds, cache)'
    BY <1>5, <2>1
  <2> QED
    BY <2>1, <2>2, <2>3 DEF Sound
<1>7. CASE \E c \in tasks \ alive : alive' = (alive \ {t}) \cup {c} /\ HandOver(t, c)
  BY <1>1, <1>5, <1>7, HandOverStep
<1> QED
  BY <1>2, <1>6, <1>7

LEMMA ExitStep ==
  ASSUME Sound, NEW t \in Task, exit(t)
  PROVE  Sound'
<1>1. t \in alive \ {Main} /\ alive' = alive \ {t} /\ Closed(Tail(fds[t]))
      /\ lost' = [p \in Pipes |-> lost[p] + Uses(<<Head(fds[t])>>, p)]
      /\ fds' = [fds EXCEPT ![t] = <<>>] /\ current_dir' = [current_dir EXCEPT ![t] = NULL]
      /\ UNCHANGED <<cache, creates, tasks, heapOK>>
  BY DEF exit, InUserMode
<1>2. ListsOK(alive, fds, cache) /\ t \in alive
  BY <1>1 DEF Sound
<1>3. PICK l : l = fds[t]
  OBVIOUS
<1>4. ProgramList(l) /\ l \in Seq(Descriptor) /\ Len(l) >= 1 /\ 1 \in 1 .. Len(l)
  BY <1>1, <1>2, <1>3 DEF ListsOK, ListOK, ProgramList
<1>5. PICK u : u = Tail(l)
  OBVIOUS
<1>6. Without(l, 1, u) /\ Head(l) = l[1]
  BY <1>4, <1>5, TailIs
<1>7. u \in Seq(Descriptor)
  BY <1>6 DEF Without
<1>8. ASSUME NEW p \in Pipes
      PROVE  Uses(<<l[1]>>, p) \in Nat
  <2>1. Uses(<<l[1]>>, p) = One(l[1].node = p)
    BY UsesOne
  <2> QED
    BY <2>1 DEF One
<1>9. lost \in [Pipes -> Nat] /\ lost' = [p \in Pipes |-> lost[p] + Uses(<<l[1]>>, p)]
  BY <1>1, <1>3, <1>6 DEF Sound, StreamsOK
<1>10. lost' \in [Pipes -> Nat]
  BY <1>8, <1>9
<1>11. ASSUME NEW p \in Pipes
       PROVE  /\ Uses(u, p) \in Nat /\ Cardinality(Refs(alive', fds', p)) \in Nat
              /\ Cardinality(Refs(alive, fds, p)) + lost[p]
                   = Cardinality(Refs(alive', fds', p)) + lost'[p] + Uses(u, p)
  <2>1. Refs(alive \ {t}, fds', p) = Refs(alive \ {t}, fds, p)
    <3>1. PICK m : Changed(fds, fds', t, m)
      BY <1>1 DEF Changed
    <3> QED
      BY <1>2, <3>1, RefsDrop
  <2>2. /\ Cardinality(Refs(alive, fds, p))
             = Cardinality(Refs(alive \ {t}, fds, p)) + Uses(fds[t], p)
        /\ Cardinality(Refs(alive \ {t}, fds, p)) \in Nat /\ Uses(fds[t], p) \in Nat
    BY <1>2, RefsOf
  <2>3. Uses(l, p) = Uses(u, p) + Uses(<<l[1]>>, p)
    BY <1>4, <1>6, UsesWithout
  <2>4. Uses(u, p) \in Nat
    BY <1>7, PlacesFinite
  <2>5. lost[p] \in Nat /\ lost'[p] = lost[p] + Uses(<<l[1]>>, p) /\ Uses(<<l[1]>>, p) \in Nat
    BY <1>8, <1>9
  <2>6. Refs(alive', fds', p) = Refs(alive \ {t}, fds, p)
    BY <1>1, <2>1
  <2> QED
    BY <1>3, <2>2, <2>3, <2>4, <2>5, <2>6
<1>12. Closed(u)
  BY <1>1, <1>3, <1>5
<1>13. StreamsOK'
  BY <1>10, <1>11, <1>12, StreamsClosed
<1>14. ListsOK(alive', fds', cache)
  BY <1>1, <1>2, ListsDrop
<1>15. RestOK'
  BY <1>1 DEF Sound, RestOK
<1> QED
  BY <1>1, <1>13, <1>14, <1>15, SoundWithCache

\* The position of a descriptor moves, and the cache may be another.
LEMMA MoveStep ==
  ASSUME Sound, NEW t \in alive \ {Main}, NEW x \in 1 .. Len(fds[t]), NEW pos \in Nat,
         fds[t][x].node[2] # "dir" => pos \in 0 .. Size[fds[t][x].node[1]],
         Moved(t, x, pos), NEW z, Later(cache, z), CacheType(z), IsTree(z), cache' = z
  PROVE  Sound'
<1>1. fds' = [fds EXCEPT ![t] = [fds[t] EXCEPT ![x] = [fds[t][x] EXCEPT !.pos = pos]]]
      /\ UNCHANGED <<alive, current_dir, pipes, streams_open, lost, creates, tasks, heapOK>>
  BY DEF Moved
<1>2. ListsOK(alive, fds, z)
  BY ListsOKLater DEF Sound
<1>3. PICK l : l = fds[t]
  OBVIOUS
<1>4. ListOK(l, z) /\ ProgramList(l) /\ l \in Seq(Descriptor) /\ x \in 1 .. Len(l)
  BY <1>2, <1>3 DEF ListsOK, ListOK
<1>5. PICK m : MovedList(l, x, pos, m)
  BY DEF MovedList
<1>6. l[x].node[2] # "dir" => pos \in 0 .. Size[l[x].node[1]]
  BY <1>3
<1>7. ListOK(m, z) /\ ProgramList(m) /\ Len(m) = Len(l) /\ \A i \in 1 .. Len(l) : m[i].node = l[i].node
  BY <1>4, <1>5, <1>6, ListMove
<1>8. m \in Seq(Descriptor)
  BY <1>7 DEF ListOK
<1>9. \A p \in Pipes : Uses(m, p) = Uses(fds[t], p)
  BY <1>3, <1>4, <1>7, <1>8, UsesSame
<1>10. fds' = [fds EXCEPT ![t] = m]
  BY <1>1, <1>3, <1>5 DEF MovedList
<1>11. StreamsOK' /\ ListsOK(alive', fds', cache')
  BY <1>1, <1>7, <1>9, <1>10, SetKeeps
<1>12. RestOK'
  BY <1>1 DEF Sound, RestOK
<1>13. (CacheType(cache) /\ IsTree(cache))' /\ ListsOK(alive, fds, cache)'
  BY <1>11
<1> QED
  BY <1>11, <1>12, <1>13 DEF Sound

LEMMA TransferStep ==
  ASSUME Sound, NEW t \in Task, NEW n, NEW amount \in Nat, TransferFile(t, n, amount)
  PROVE  Sound'
<1>1. PICK x : x = vfs_find_fd(fds[t], n)
  OBVIOUS
<1>2. PICK d : d = fds[t][x]
  OBVIOUS
<1>3. /\ t \in alive \ {Main} /\ x # 0 /\ d.node \in Live(cache) /\ d.node[2] # "dir" /\ cache' = cache
      /\ \E stat \in 1 .. ExactAmount(d, amount) : Moved(t, x, d.pos + stat)
  BY <1>1, <1>2 DEF TransferFile, InUserMode
<1>4. PICK stat \in 1 .. ExactAmount(d, amount) : Moved(t, x, d.pos + stat)
  BY <1>3
<1>5. ListOK(fds[t], cache) /\ fds[t] \in Seq(Descriptor) /\ CacheType(cache) /\ IsTree(cache)
  BY <1>3 DEF Sound, ListsOK, ListOK
<1>6. Finds(fds[t], n, x)
  BY <1>1, <1>5, FindFd
<1>7. x \in 1 .. Len(fds[t]) /\ d \in Descriptor
  BY <1>2, <1>3, <1>5, <1>6 DEF Finds
<1>8. d.node \in NodeId /\ d.node[1] \in Path
  <2>1. \A v \in cache.vnodes \cup cache.created : v[1] \in Path
    BY <1>5, CacheFields DEF CacheType
  <2>2. d.node # RootNode
    BY <1>3 DEF RootNode
  <2>3. d.node \in NodeId
    BY <1>3, <1>5, CacheFields
  <2> QED
    BY <1>3, <2>1, <2>2, <2>3 DEF Live
<1>9. PICK size \in Nat : size = Size[d.node[1]]
  BY <1>8, FdTableAssumption
<1>10. PICK pos \in Nat : pos = d.pos
  BY <1>7 DEF Descriptor
<1>11. pos \in 0 .. size
  BY <1>2, <1>3, <1>5, <1>7, <1>8, <1>9, <1>10 DEF ListOK, FdOK
<1>12. ExactAmount(d, amount) = IF amount + pos > size THEN size - pos ELSE amount
  BY <1>9, <1>10 DEF ExactAmount
<1>13. pos + stat \in 0 .. size
  BY <1>4, <1>11, <1>12
<1>14. PICK z : z = cache
  OBVIOUS
<1>15. Later(cache, z) /\ CacheType(z) /\ IsTree(z) /\ cache' = z
  BY <1>3, <1>5, <1>14, LaterSame
<1>16. PICK new \in Nat : new = pos + stat
  BY <1>13
<1>17. Moved(t, x, new) /\ (fds[t][x].node[2] # "dir" => new \in 0 .. Size[fds[t][x].node[1]])
  BY <1>2, <1>4, <1>9, <1>10, <1>13, <1>16
<1> QED
  BY <1>3, <1>7, <1>15, <1>16, <1>17, MoveStep

-----------------------------------------------------------------------------
\* The sequence of a finite set.
LEMMA SetToSeqIs ==
  ASSUME NEW S, IsFiniteSet(S)
  PROVE  /\ SetToSeq(S) \in Seq(S) /\ Len(SetToSeq(S)) = Cardinality(S) /\ Cardinality(S) \in Nat
<1>1. PICK n \in Nat : n = Cardinality(S)
  BY FS_CardinalityType
<1>2. ExistsBijection(1 .. n, S)
  BY <1>1, FS_CardinalityType
<1>3. PICK f : f \in Bijection(1 .. n, S)
  BY <1>2 DEF ExistsBijection
<1>4. f \in [1 .. n -> S] /\ IsInjective(f)
  BY <1>3 DEF Bijection, Injection
<1>5. PICK g : g = CHOOSE h \in [1 .. n -> S] : IsInjective(h)
  OBVIOUS
<1>6. g \in [1 .. n -> S]
  BY <1>4, <1>5
<1>7. SetToSeq(S) = g
  BY <1>1, <1>5 DEF SetToSeq
<1>8. g \in Seq(S) /\ Len(g) = n
  BY <1>6
<1> QED
  BY <1>1, <1>7, <1>8

\* Where the names of a directory end, reading it ends.
LEMMA OrderHas ==
  ASSUME NEW c, CacheType(c), NEW d, NEW i \in Nat, i < Cardinality(Children(c, d))
  PROVE  Order(c, d)[i + 1] \in Children(c, d)
<1> DEFINE S == Children(c, d)
           of(k) == {t \in S : t[2] = k}
<1>1. IsFiniteSet(S)
  <2>1. IsFiniteSet(Kind)
    <3>1. IsFiniteSet({"file"}) /\ IsFiniteSet({"dir"})
      BY FS_Singleton
    <3>2. IsFiniteSet({"file"} \cup {"dir"})
      BY <3>1, FS_Union
    <3>3. Kind = {"file"} \cup {"dir"}
      BY DEF Kind
    <3> QED
      BY <3>2, <3>3
  <2>2. IsFiniteSet(Tnode)
    BY <2>1, NodesAssumption, FS_Product DEF Tnode
  <2>3. S \subseteq Tnode
    BY CacheFields DEF Children
  <2> QED
    BY <2>2, <2>3, FS_Subset
<1>2. PICK A : A = of("dir")
  OBVIOUS
<1>3. PICK B : B = of("file")
  OBVIOUS
<1>4. A \subseteq S /\ B \subseteq S /\ A \cap B = {} /\ A \cup B = S
  <2>1. \A t \in S : t[2] \in Kind
    BY CacheFields DEF Children
  <2> QED
    BY <1>2, <1>3, <2>1 DEF Kind
<1>5. IsFiniteSet(A) /\ IsFiniteSet(B)
  BY <1>1, <1>4, FS_Subset
<1>6. Order(c, d) = SetToSeq(A) \o SetToSeq(B)
  BY <1>2, <1>3 DEF Order
<1> HIDE DEF S, of
<1>7. PICK a : a = SetToSeq(A)
  OBVIOUS
<1>8. PICK b : b = SetToSeq(B)
  OBVIOUS
<1>9. a \in Seq(A) /\ Len(a) = Cardinality(A) /\ Cardinality(A) \in Nat
  BY <1>5, <1>7, SetToSeqIs
<1>10. b \in Seq(B) /\ Len(b) = Cardinality(B) /\ Cardinality(B) \in Nat
  BY <1>5, <1>8, SetToSeqIs
<1>11. Cardinality(S) = Len(a) + Len(b)
  <2>1. Cardinality(A \cup B) = Cardinality(A) + Cardinality(B) - Cardinality(A \cap B)
    BY <1>5, FS_Union
  <2>2. Cardinality(A \cap B) = 0
    BY <1>4, FS_EmptySet
  <2>3. Cardinality(A \cup B) = Cardinality(S)
    BY <1>4
  <2>4. PICK i1 \in Nat : i1 = Cardinality(A)
    BY <1>9
  <2>5. PICK i2 \in Nat : i2 = Cardinality(B)
    BY <1>10
  <2>6. Cardinality(S) = i1 + i2 - 0
    BY <2>1, <2>2, <2>3, <2>4, <2>5
  <2> QED
    BY <1>9, <1>10, <2>4, <2>5, <2>6
<1>12. a \in Seq(S) /\ b \in Seq(S)
  BY <1>4, <1>9, <1>10
<1>13. PICK s : s = a \o b
  OBVIOUS
<1>14. s \in Seq(S) /\ Len(s) = Len(a) + Len(b)
  BY <1>12, <1>13
<1>15. i < Len(s)
  BY <1>11, <1>14 DEF S
<1>16. i + 1 \in 1 .. Len(s)
  BY <1>14, <1>15
<1>17. s[i + 1] \in S
  BY <1>14, <1>16
<1> QED
  BY <1>6, <1>7, <1>8, <1>13, <1>17 DEF S

LEMMA ReadDirStep ==
  ASSUME Sound, NEW t \in Task, NEW n, vfs_read_dir(t, n)
  PROVE  Sound'
<1>1. PICK x : x = vfs_find_fd(fds[t], n)
  OBVIOUS
<1>2. PICK node : node = fds[t][x].node
  OBVIOUS
<1>3. PICK d : d = node[1]
  OBVIOUS
<1>4. PICK pos : pos = fds[t][x].pos
  OBVIOUS
<1>5. PICK entry : entry = Order(cache, d)[pos + 1]
  OBVIOUS
<1>6. /\ t \in alive \ {Main} /\ x # 0 /\ node \in Live(cache) /\ node[2] = "dir"
      /\ pos < Cardinality(Children(cache, d)) /\ Moved(t, x, pos + 1)
      /\ \/ cache' = cache
         \/ /\ ~\E v \in cache.vnodes : <<v[1], v[2]>> = entry
            /\ \E at \in vfs_load_at(cache, d, entry) : cache' = at.cache
  BY <1>1, <1>2, <1>3, <1>4, <1>5 DEF vfs_read_dir, InUserMode
<1>7. ListOK(fds[t], cache) /\ fds[t] \in Seq(Descriptor) /\ CacheType(cache) /\ IsTree(cache)
  BY <1>6 DEF Sound, ListsOK, ListOK
<1>8. Finds(fds[t], n, x)
  BY <1>1, <1>7, FindFd
<1>9. x \in 1 .. Len(fds[t]) /\ fds[t][x] \in Descriptor
  BY <1>6, <1>7, <1>8 DEF Finds
<1>10. pos \in Nat
  BY <1>4, <1>9 DEF Descriptor
<1>11. entry \in Children(cache, d)
  BY <1>5, <1>6, <1>7, <1>10, OrderHas
<1>12. d \in Dirs(cache) /\ d \in Seq(Name)
  <2>1. node \notin cache.created
    BY <1>6, <1>7 DEF CacheType
  <2>2. CASE node = RootNode
    <3>1. d = <<>> /\ d = Root
      BY <1>3, <2>2 DEF RootNode, Root
    <3> QED
      BY <3>1, DirsAre
  <2>3. CASE node \in cache.vnodes
    <3>1. d \in Path /\ d \in Seq(Name)
      BY <1>3, <1>7, <2>3, CacheFields
    <3> QED
      BY <1>3, <1>6, <2>3, <3>1, DirsAre
  <2> QED
    BY <1>6, <2>1, <2>2, <2>3 DEF Live
<1>13. PICK z : z = cache'
  OBVIOUS
<1>14. Later(cache, z) /\ CacheType(z) /\ IsTree(z)
  <2>1. CASE cache' = cache
    BY <1>7, <1>13, <2>1, LaterSame
  <2>2. CASE /\ ~\E v \in cache.vnodes : <<v[1], v[2]>> = entry
             /\ \E at \in vfs_load_at(cache, d, entry) : cache' = at.cache
    <3>1. PICK at \in vfs_load_at(cache, d, entry) : cache' = at.cache
      BY <2>2
    <3>2. entry \in cache.tnodes /\ \A v \in cache.vnodes : <<v[1], v[2]>> # entry
      BY <1>11, <2>2 DEF Children
    <3>3. Loads(cache, entry, at)
      BY <1>7, <1>12, <3>1, <3>2, LoadAtLoads
    <3> QED
      BY <1>13, <3>1, <3>3 DEF Loads, Later
  <2> QED
    BY <1>6, <2>1, <2>2
<1>15. PICK new \in Nat : new = pos + 1
  BY <1>10
<1>16. Moved(t, x, new) /\ fds[t][x].node[2] = "dir"
  BY <1>2, <1>6, <1>15
<1> QED
  BY <1>6, <1>9, <1>13, <1>14, <1>15, <1>16, MoveStep

-----------------------------------------------------------------------------
(***************************************************************************)
(* The initial states.                                                     *)
(***************************************************************************)

\* The cache before the list of the root is loaded.
EmptyCache(s) ==
  [disk |-> s.disk, tnodes |-> {}, vnodes |-> {}, created |-> {},
   epoch |-> 0, relisted |-> {}, errors |-> s.errors, failed |-> FALSE]

LEMMA InitCache ==
  ASSUME NEW s \in Start, NEW x \in Listed(EmptyCache(s), Root)
  PROVE  CacheType(x) /\ IsTree(x)
<1>1. PICK c : c = EmptyCache(s)
  OBVIOUS
<1>2. s.disk \in SUBSET Tnode /\ DiskIsTree(s.disk) /\ s.errors \in Nat
  BY FdTableAssumption
<1>3. /\ c.disk = s.disk /\ c.tnodes = {} /\ c.vnodes = {} /\ c.created = {} /\ c.epoch = 0
      /\ c.errors = s.errors /\ c.failed = FALSE
  BY <1>1 DEF EmptyCache
<1>4. CacheType(c)
  <2>1. c \in [disk : SUBSET Tnode, tnodes : SUBSET Tnode, vnodes : SUBSET NodeId,
               created : SUBSET NodeId, epoch : Nat, relisted : SUBSET (Seq(Name) \X Nat),
               errors : Nat, failed : BOOLEAN]
    BY <1>1, <1>2 DEF EmptyCache
  <2> QED
    BY <1>3, <2>1 DEF CacheType
<1>5. Root \in Seq(Name) /\ Root \in Dirs(c)
  BY DirsAre DEF Root
<1>6. \A p \in Dirs(c) : p = Root
  BY <1>3, DirsAre
<1>7. TreeBut(c, Root)
  BY <1>2, <1>3, <1>6 DEF TreeBut
<1>8. Lists(c, Root, x)
  BY <1>1, <1>4, <1>5, ListedLists
<1> QED
  BY <1>5, <1>7, <1>8, TreeListed DEF Lists

\* The descriptors of the pipes there are at the beginning.
LEMMA InitFds ==
  ASSUME Init
  PROVE  /\ fds \in [Task -> Seq(Descriptor)] /\ \A t \in Task : Len(fds[t]) <= MaxFds
         /\ fds[Main] = <<Fd(0, Console, FD_READ)>>
         /\ fds[First] = <<Fd(0, Kbd, FD_READ), Fd(1, Console, FD_WRITE)>>
<1>1. /\ Main \in Task /\ First \in Task /\ Main # First /\ MaxFds \in Nat /\ MaxFds >= 2
      /\ Kbd \in Pipes /\ Console \in Pipes
  BY FdTableAssumption
<1>2. PICK l : l = <<Fd(0, Console, FD_READ)>>
  OBVIOUS
<1>3. PICK m : m = <<Fd(0, Kbd, FD_READ), Fd(1, Console, FD_WRITE)>>
  OBVIOUS
<1>4. fds = [t \in Task |-> CASE t = Main -> l [] t = First -> m [] OTHER -> <<>>]
  BY <1>2, <1>3 DEF Init
<1>5. /\ Fd(0, Console, FD_READ) \in Descriptor /\ Fd(0, Kbd, FD_READ) \in Descriptor
      /\ Fd(1, Console, FD_WRITE) \in Descriptor
  BY <1>1 DEF Fd, Descriptor
<1>6. l \in Seq(Descriptor) /\ Len(l) = 1
  BY <1>2, <1>5
<1>7. m \in Seq(Descriptor) /\ Len(m) = 2
  BY <1>3, <1>5
<1>8. fds[Main] = l /\ fds[First] = m /\ \A t \in Task \ {Main, First} : fds[t] = <<>>
  BY <1>1, <1>4
<1>9. <<>> \in Seq(Descriptor) /\ Len(<<>>) = 0
  OBVIOUS
<1>10. \A t \in Task : fds[t] \in Seq(Descriptor) /\ Len(fds[t]) <= MaxFds
  <2> TAKE t \in Task
  <2>0. 0 <= MaxFds /\ 1 <= MaxFds /\ 2 <= MaxFds
    BY <1>1
  <2>1. CASE t = Main
    <3>1. fds[t] = l
      BY <1>8, <2>1
    <3> QED
      BY <1>6, <2>0, <3>1
  <2>2. CASE t = First
    <3>1. fds[t] = m
      BY <1>8, <2>2
    <3> QED
      BY <1>7, <2>0, <3>1
  <2>3. CASE t \notin {Main, First}
    <3>1. PICK e : e = <<>>
      OBVIOUS
    <3>2. e \in Seq(Descriptor) /\ Len(e) = 0
      BY <1>9, <3>1
    <3>3. fds[t] = e
      BY <1>8, <2>3, <3>1
    <3> QED
      BY <2>0, <3>2, <3>3
  <2> QED
    BY <2>1, <2>2, <2>3
<1>11. fds \in [Task -> Seq(Descriptor)]
  BY <1>4, <1>10
<1> QED
  BY <1>2, <1>3, <1>8, <1>10, <1>11

LEMMA InitLists ==
  ASSUME Init
  PROVE  ListsOK(alive, fds, cache)
<1>1. /\ Main \in Task /\ First \in Task /\ Main # First /\ MaxFds \in Nat /\ MaxFds >= 2
      /\ Kbd \in Pipes /\ Console \in Pipes /\ alive = {Main, First}
  BY FdTableAssumption DEF Init
<1>2. PICK d : d = Fd(0, Console, FD_READ)
  OBVIOUS
<1>3. PICK e : e = Fd(0, Kbd, FD_READ)
  OBVIOUS
<1>4. PICK f : f = Fd(1, Console, FD_WRITE)
  OBVIOUS
<1>5. d.fd = 0 /\ d.node = Console /\ e.fd = 0 /\ e.node = Kbd /\ f.fd = 1 /\ f.node = Console
  BY <1>2, <1>3, <1>4 DEF Fd
<1>6. FdOK(d, cache) /\ FdOK(e, cache) /\ FdOK(f, cache)
  BY <1>1, <1>5, FdTableAssumption DEF FdOK
<1>7. /\ fds \in [Task -> Seq(Descriptor)] /\ \A t \in Task : Len(fds[t]) <= MaxFds
      /\ fds[Main] = <<d>> /\ fds[First] = <<e, f>>
  BY <1>2, <1>3, <1>4, InitFds
<1>8. PICK l : l = fds[Main]
  OBVIOUS
<1>9. PICK m : m = fds[First]
  OBVIOUS
<1>10. l \in Seq(Descriptor) /\ m \in Seq(Descriptor) /\ Len(l) <= MaxFds /\ Len(m) <= MaxFds
  BY <1>1, <1>7, <1>8, <1>9
<1>11. DOMAIN l = {1} /\ l[1] = d
  BY <1>7, <1>8
<1>12. DOMAIN m = {1, 2} /\ m[1] = e /\ m[2] = f /\ Len(m) = 2
  BY <1>7, <1>9
<1>13. ListOK(l, cache)
  BY <1>6, <1>10, <1>11 DEF ListOK
<1>14. ListOK(m, cache)
  BY <1>5, <1>6, <1>10, <1>12 DEF ListOK
<1>15. ProgramList(m)
  BY <1>5, <1>12 DEF ProgramList
<1> QED
  BY <1>1, <1>7, <1>8, <1>9, <1>13, <1>14, <1>15 DEF ListsOK

LEMMA InitRefs ==
  ASSUME Init, NEW p \in Pipes
  PROVE  Cardinality(Refs(alive, fds, p))
           = IF p = Kbd THEN 1 ELSE IF p = Console THEN 2 ELSE 0
<1>1. /\ Main \in Task /\ First \in Task /\ Main # First /\ Kbd # Console
      /\ alive = {Main, First} /\ Kbd \in Pipes /\ Console \in Pipes
  BY FdTableAssumption DEF Init
<1>2. PICK d : d = Fd(0, Console, FD_READ)
  OBVIOUS
<1>3. PICK e : e = Fd(0, Kbd, FD_READ)
  OBVIOUS
<1>4. PICK f : f = Fd(1, Console, FD_WRITE)
  OBVIOUS
<1>5. d.node = Console /\ e.node = Kbd /\ f.node = Console
  BY <1>2, <1>3, <1>4 DEF Fd
<1>6. /\ fds \in [Task -> Seq(Descriptor)] /\ \A t \in Task : Len(fds[t]) <= MaxFds
      /\ fds[Main] = <<d>> /\ fds[First] = <<e, f>>
  BY <1>2, <1>3, <1>4, InitFds
<1>7. Uses(fds[Main], p) = One(d.node = p)
  BY <1>6, UsesOne
<1>8. Uses(fds[First], p) = One(e.node = p) + One(f.node = p)
  <2>1. PICK l : l = <<e>>
    OBVIOUS
  <2>2. PICK m : m = <<e, f>>
    OBVIOUS
  <2>3. e \in Descriptor /\ f \in Descriptor
    BY <1>1, <1>3, <1>4 DEF Fd, Descriptor
  <2>4. l \in Seq(Descriptor) /\ Len(l) = 1 /\ m \in Seq(Descriptor) /\ Len(m) = 2
        /\ DOMAIN m = 1 .. 2 /\ m[1] = l[1] /\ m[2] = f
    BY <2>1, <2>2, <2>3
  <2>5. Extended(l, m, f)
    BY <2>3, <2>4 DEF Extended
  <2>6. Uses(m, p) = Uses(l, p) + One(f.node = p)
    BY <2>4, <2>5, UsesExtended
  <2>7. Uses(l, p) = One(e.node = p)
    BY <2>1, UsesOne
  <2> QED
    BY <1>6, <2>2, <2>6, <2>7
<1>9. Cardinality(Refs(alive, fds, p)) = Cardinality(Refs(alive \ {Main}, fds, p)) + Uses(fds[Main], p)
  <2>1. ListsOK(alive, fds, cache) /\ Main \in alive
    BY <1>1, InitLists
  <2> QED
    BY <2>1, RefsOf
<1>10. PICK A : A = alive \ {Main}
  OBVIOUS
<1>11. First \in A /\ A \ {First} = {} /\ ListsOK(A, fds, cache)
  BY <1>1, <1>10, InitLists DEF ListsOK
<1>12. Cardinality(Refs(A, fds, p)) = Cardinality(Refs(A \ {First}, fds, p)) + Uses(fds[First], p)
  BY <1>11, RefsOf
<1>13. Refs(A \ {First}, fds, p) = {}
  BY <1>11 DEF Refs
<1>14. Cardinality(Refs(A \ {First}, fds, p)) = 0
  BY <1>13, FS_EmptySet
<1>15. PICK i \in Nat : i = One(d.node = p)
  BY DEF One
<1>16. PICK j \in Nat : j = One(e.node = p)
  BY DEF One
<1>17. PICK k \in Nat : k = One(f.node = p)
  BY DEF One
<1>18. Cardinality(Refs(alive, fds, p)) = 0 + (j + k) + i
  BY <1>7, <1>8, <1>9, <1>10, <1>12, <1>14, <1>15, <1>16, <1>17
<1>19. CASE p = Kbd
  <2>1. i = 0 /\ j = 1 /\ k = 0
    BY <1>1, <1>5, <1>15, <1>16, <1>17, <1>19 DEF One
  <2> QED
    BY <1>18, <1>19, <2>1
<1>20. CASE p = Console
  <2>1. i = 1 /\ j = 0 /\ k = 1
    BY <1>1, <1>5, <1>15, <1>16, <1>17, <1>20 DEF One
  <2> QED
    BY <1>1, <1>18, <1>20, <2>1
<1>21. CASE p # Kbd /\ p # Console
  <2>1. i = 0 /\ j = 0 /\ k = 0
    BY <1>1, <1>5, <1>15, <1>16, <1>17, <1>21 DEF One
  <2> QED
    BY <1>18, <1>21, <2>1
<1> QED
  BY <1>19, <1>20, <1>21

LEMMA InitSound == Init => Sound
<1> SUFFICES ASSUME Init PROVE Sound
  OBVIOUS
<1>1. PICK s \in Start : /\ cache \in Listed(EmptyCache(s), Root)
                         /\ creates = s.creates /\ tasks = s.tasks
  BY DEF Init, EmptyCache
<1>2. CacheType(cache) /\ IsTree(cache)
  BY <1>1, InitCache
<1>3. RestOK
  BY <1>1, FdTableAssumption DEF Init, RestOK
<1>4. StreamsOK
  <2>1. /\ pipes = {Kbd, Console} /\ Kbd \in Pipes /\ Console \in Pipes /\ Kbd # Console
        /\ streams_open = [n \in Pipes |-> IF n \in pipes THEN 2 ELSE 0]
        /\ lost = [n \in Pipes |-> IF n = Kbd THEN 1 ELSE 0]
    BY FdTableAssumption DEF Init
  <2>2. ASSUME NEW p \in Pipes
        PROVE  /\ streams_open[p] = Cardinality(Refs(alive, fds, p)) + lost[p]
               /\ p \in pipes <=> streams_open[p] > 0
    <3>1. Cardinality(Refs(alive, fds, p)) = IF p = Kbd THEN 1 ELSE IF p = Console THEN 2 ELSE 0
      BY InitRefs
    <3> QED
      BY <2>1, <3>1
  <2> QED
    BY <2>1, <2>2 DEF StreamsOK
<1>5. ListsOK(alive, fds, cache)
  BY InitLists
<1> QED
  BY <1>2, <1>3, <1>4, <1>5 DEF Sound

-----------------------------------------------------------------------------
LEMMA NextSound == Sound /\ [Next]_vars => Sound'
<1> SUFFICES ASSUME Sound, [Next]_vars PROVE Sound'
  OBVIOUS
<1>1. CASE UNCHANGED vars
  <2>1. RestOK' /\ StreamsOK' /\ ListsOK(alive, fds, cache)' /\ (CacheType(cache) /\ IsTree(cache))'
    BY <1>1 DEF vars, Sound, RestOK, StreamsOK
  <2> QED
    BY <2>1 DEF Sound
<1>2. CASE Next
  <2>1. PICK t \in Task :
          \/ \E a \in BOOLEAN, p \in Argument, m \in {FD_READ, FD_WRITE} : open(t, a, p, m)
          \/ \E a \in BOOLEAN, p \in Argument :
               chdir(t, a, p) \/ exec(t, a, p) \/ SearchFreed(t, a, p)
          \/ pipe(t) \/ fork(t) \/ exit(t)
          \/ \E n \in 0 .. MaxFds - 1 : close(t, n) \/ vfs_read_dir(t, n)
          \/ \E n \in 0 .. MaxFds - 1, a \in 1 .. MaxAmount : TransferFile(t, n, a)
    BY <1>2 DEF Next
  <2>2. CASE \E a \in BOOLEAN, p \in Argument, m \in {FD_READ, FD_WRITE} : open(t, a, p, m)
    BY <2>2, OpenStep DEF Mode
  <2>3. CASE \E a \in BOOLEAN, p \in Argument :
               chdir(t, a, p) \/ exec(t, a, p) \/ SearchFreed(t, a, p)
    BY <2>3, ChdirStep, ExecStep, SearchFreedStep
  <2>4. CASE pipe(t) \/ fork(t) \/ exit(t)
    BY <2>4, PipeStep, ForkStep, ExitStep
  <2>5. CASE \E n \in 0 .. MaxFds - 1 : close(t, n) \/ vfs_read_dir(t, n)
    BY <2>5, CloseStep, ReadDirStep
  <2>6. CASE \E n \in 0 .. MaxFds - 1, a \in 1 .. MaxAmount : TransferFile(t, n, a)
    <3>1. PICK n \in 0 .. MaxFds - 1, a \in 1 .. MaxAmount : TransferFile(t, n, a)
      BY <2>6
    <3>2. a \in Nat
      BY FdTableAssumption
    <3> QED
      BY <3>1, <3>2, TransferStep
  <2> QED
    BY <2>1, <2>2, <2>3, <2>4, <2>5, <2>6
<1> QED
  BY <1>1, <1>2

\* What the steps preserve holds in every state: the lists, the counts of the
\* streams and the cache fit together, whatever the programs call.
THEOREM DescriptorsSound == Spec => []Sound
BY InitSound, NextSound, PTL DEF Spec

\* The numbers of a task's descriptors differ and its positions are in the files
\* (fd.c, vfs_create_fd; read.c, vfs_read_file).
THEOREM FdsCorrect == Spec => []FdsOK
BY DescriptorsSound, SoundImplies, PTL

\* The count of the streams of a pipe is that of the descriptors of all tasks and
\* of the references that were lost (close.c; task.c, terminate_task).
THEOREM StreamsAreCounted == Spec => []StreamsCounted
BY DescriptorsSound, SoundIs, PTL

\* Until a freed tnode is read, no descriptor is of a pipe that was unloaded, and
\* one of a file that was freed only where the list of a directory above it was
\* loaded anew (close.c; nodes.c, free_dir_list and vfs_search_vnode).
THEOREM NothingDangles == Spec => []NoDanglingFd
BY DescriptorsSound, SoundImplies, PTL

\* The cache stays a tree of loaded directories (nodes.c).
THEOREM CacheStaysTree == Spec => []CacheIsTree
BY DescriptorsSound, SoundIs, PTL

\* Unless a transfer has failed, a program finds by a path what is on the disk
\* (nodes.c, vfs_search_vnode).
THEOREM FilesAreFound == Spec => []PathsAreFound
BY DescriptorsSound, SoundImplies, PTL

=============================================================================
