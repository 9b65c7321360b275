------------------------------ MODULE FdTable ------------------------------
(***************************************************************************)
(* The file descriptors and the current directories of the tasks, the      *)
(* nodes they refer to and the cache these are in (fd.c, open.c, close.c,  *)
(* pipe.c, read.c, write.c, kchdir() and what fork, exec and exit do with  *)
(* descriptors).  System calls run with interrupts disabled, and what a    *)
(* blocked read or write does to its node is modelled in Pipe, so each     *)
(* call is one step here.                                                  *)
(*                                                                         *)
(*   alive         the tasks that exist and have not exited                *)
(*   fds           the descriptor list of each task, in the list's order   *)
(*   current_dir   the working directory of each task                      *)
(*   cache         the nodes of files and directories (Nodes)              *)
(*   pipes         the pipes that are allocated                            *)
(*   streams_open  the reference count of each pipe.  A node of the cache  *)
(*                 has one, too, but its cached_links keep it from being   *)
(*                 unloaded in any case                                    *)
(*   lost          how many references to each pipe no task has any more:  *)
(*                 the keyboard driver's own, and those of exited tasks    *)
(*   creates       how many files may still be created, a bound            *)
(*   tasks         the tasks there may be, a bound                         *)
(*   heapOK        whether no freed tnode has been read; what comes after  *)
(*                 that is left open                                       *)
(*                                                                         *)
(* A call on a node that was freed is not modelled.                        *)
(***************************************************************************)
EXTENDS Nodes

CONSTANTS
  Task, Main, First,   \* the tasks; kernel_main and the first user task
  Pipes, Kbd, Console, \* the nodes of pipes; those of the keyboard and the console
  Start,               \* what is on the disk, and bounds on what may fail and be created
  Argument,            \* the paths that programs use
  Size,                \* the size of each file
  MaxAmount,           \* bound on the amount of a transfer
  MaxFds,              \* bound on the descriptors of one task
  MaxExits             \* bound on the tasks that exit, as each loses a reference

ASSUME FdTableAssumption ==
  /\ Main \in Task /\ First \in Task /\ Main # First /\ IsFiniteSet(Task)
  /\ Kbd \in Pipes /\ Console \in Pipes /\ Kbd # Console
  /\ \A p \in Pipes : p \notin NodeId
  /\ Argument \subseteq Seq(Name)
  /\ Size \in [Path -> Nat]
  /\ MaxAmount \in Nat /\ MaxFds \in Nat \ {0, 1} /\ MaxExits \in Nat
  /\ \A s \in Start : /\ s.disk \subseteq Tnode /\ DiskIsTree(s.disk)
                      /\ s.errors \in Nat /\ s.creates \in Nat
                      /\ {Main, First} \subseteq s.tasks /\ s.tasks \subseteq Task

FD_READ == "read"

\* FD_WRITE and O_CREAT are the same bit.
FD_WRITE == "write"

VARIABLES alive, fds, current_dir, cache, pipes, streams_open, lost, creates, tasks, heapOK

vars == <<alive, fds, current_dir, cache, pipes, streams_open, lost, creates, tasks, heapOK>>

Fd(n, node, mode) == [fd |-> n, node |-> node, mode |-> mode, pos |-> 0]

Descriptor == [fd : Nat, node : Pipes \cup NodeId, mode : {FD_READ, FD_WRITE}, pos : Nat]

\* The type of the state.
TypeOK ==
  /\ alive \subseteq tasks /\ tasks \subseteq Task
  /\ fds \in [Task -> Seq(Descriptor)] /\ \A t \in Task : Len(fds[t]) <= MaxFds
  /\ current_dir \in [Task -> {NULL} \cup {n \in NodeId : n[2] = "dir"}]
  /\ CacheType(cache) /\ creates \in Nat /\ heapOK \in BOOLEAN
  /\ pipes \subseteq Pipes
  /\ streams_open \in [Pipes -> Nat]
  /\ lost \in [Pipes -> Nat]

\* kernel_main keeps the read end of the console pipe; the first user task has
\* the keyboard and the write end.  The list of the root directory is loaded.
Init ==
  /\ alive = {Main, First}
  /\ fds = [t \in Task |->
              CASE t = Main  -> <<Fd(0, Console, FD_READ)>>
                [] t = First -> <<Fd(0, Kbd, FD_READ), Fd(1, Console, FD_WRITE)>>
                [] OTHER     -> <<>>]
  /\ current_dir = [t \in Task |-> NULL]
  /\ \E s \in Start :
       /\ cache \in Listed([disk |-> s.disk, tnodes |-> {}, vnodes |-> {}, created |-> {},
                            epoch |-> 0, relisted |-> {}, errors |-> s.errors,
                            failed |-> FALSE], Root)
       /\ creates = s.creates /\ tasks = s.tasks
  /\ pipes = {Kbd, Console}
  /\ streams_open = [n \in Pipes |-> IF n \in pipes THEN 2 ELSE 0]
  /\ lost = [n \in Pipes |-> IF n = Kbd THEN 1 ELSE 0]
  /\ heapOK = TRUE

-----------------------------------------------------------------------------
\* The place of the first descriptor with this number, 0 if there is none.
vfs_find_fd(l, n) ==
  LET at == {x \in DOMAIN l : l[x].fd = n}
  IN  IF at = {} THEN 0 ELSE CHOOSE x \in at : \A y \in at : x <= y

NumberIsLength_Mutant(l) == Len(l)

\* The number the search in vfs_create_fd() ends with.
NewNumber(l) ==
  CHOOSE n \in 0 .. Len(l) : /\ vfs_find_fd(l, n) = 0
                             /\ \A k \in 0 .. n - 1 : vfs_find_fd(l, k) # 0

vfs_create_fd(l, node, mode) == Append(l, Fd(NewNumber(l), node, mode))

Uses(l, n) == Cardinality({x \in DOMAIN l : l[x].node = n})

InUserMode(t) == heapOK /\ t \in alive \ {Main}

IsLive(n) == n \in pipes \cup Live(cache)

-----------------------------------------------------------------------------
\* Where a path starts.
From(t, absolute) ==
  IF absolute \/ current_dir[t] = NULL THEN RootNode ELSE current_dir[t]

\* open() of the node that was found or made, if any: a directory can be opened
\* for reading only.
Opened(t, at, mode) ==
  /\ cache' = at.cache
  /\ fds' = IF at.node = NULL \/ (at.node[2] = "dir" /\ mode # FD_READ) THEN fds
            ELSE [fds EXCEPT ![t] = vfs_create_fd(@, at.node, mode)]

open(t, absolute, path, mode) ==
  /\ InUserMode(t)
  /\ Len(fds[t]) < MaxFds
  /\ IsLive(From(t, absolute))
  /\ \E at \in vfs_search_vnode(cache, From(t, absolute), path) :
       IF at.node # NULL \/ mode = FD_READ
       THEN Opened(t, at, mode) /\ UNCHANGED creates
       ELSE /\ creates > 0 /\ path \in Path
            /\ creates' = creates - 1
            /\ \E made \in mknode_file(at.cache, path) : Opened(t, made, mode)
  /\ UNCHANGED <<alive, current_dir, pipes, streams_open, lost, tasks, heapOK>>

chdir(t, absolute, path) ==
  /\ InUserMode(t)
  /\ IsLive(From(t, absolute))
  /\ \E at \in vfs_search_vnode(cache, From(t, absolute), path) :
       /\ cache' = at.cache
       /\ current_dir' = IF at.node # NULL /\ at.node[2] = "dir"
                         THEN [current_dir EXCEPT ![t] = at.node] ELSE current_dir
  /\ UNCHANGED <<alive, fds, pipes, streams_open, lost, creates, tasks, heapOK>>

(***************************************************************************)
(* The search of open(), chdir() or exec() returns what is now where the   *)
(* tnode of the last name was.  It may still be NULL, the case above.      *)
(***************************************************************************)
SearchFreed(t, absolute, path) ==
  /\ InUserMode(t)
  /\ IsLive(From(t, absolute))
  /\ \E at \in vfs_search_vnode(cache, From(t, absolute), path) :
       ReadsFreedTnode(cache, From(t, absolute), path, at) /\ cache' = at.cache
  /\ heapOK' = FALSE
  /\ UNCHANGED <<alive, fds, current_dir, pipes, streams_open, lost, creates, tasks>>

pipe(t) ==
  /\ InUserMode(t)
  /\ Len(fds[t]) + 2 <= MaxFds
  /\ \E p \in Pipes \ pipes :
       /\ pipes' = pipes \cup {p}
       /\ fds' = [fds EXCEPT ![t] = vfs_create_fd(vfs_create_fd(@, p, FD_READ), p, FD_WRITE)]
       /\ streams_open' = [streams_open EXCEPT ![p] = 2]
  /\ UNCHANGED <<alive, current_dir, cache, lost, creates, tasks, heapOK>>

CloseUnloadsAlways_Mutant(l) ==
  /\ streams_open' = [p \in Pipes |-> streams_open[p] - Uses(l, p)]
  /\ pipes' = {p \in pipes : Uses(l, p) = 0}

\* vfs_close_file() of some descriptors: a pipe goes with its last stream.
Closed(l) ==
  /\ streams_open' = [p \in Pipes |-> streams_open[p] - Uses(l, p)]
  /\ pipes' = {p \in pipes : Uses(l, p) > 0 => streams_open'[p] > 0}

(***************************************************************************)
(* close(): the search for the element before the descriptor finds none    *)
(* for the first of the list, which is refused.                            *)
(***************************************************************************)
close(t, n) ==
  LET x == vfs_find_fd(fds[t], n)
  IN  /\ InUserMode(t)
      /\ x > 1 /\ IsLive(fds[t][x].node)
      /\ fds' = [fds EXCEPT ![t] = RemoveAt(@, x)]
      /\ Closed(<<fds[t][x]>>)
      /\ UNCHANGED <<alive, current_dir, cache, lost, creates, tasks, heapOK>>

\* The list fork() gives to the child: every descriptor is created anew, in
\* the order of the list, and so gets a new number.
CopyFds(l) ==
  LET copy[x \in 0 .. Len(l)] ==
        IF x = 0 THEN <<>>
        ELSE LET new == vfs_create_fd(copy[x - 1], l[x].node, l[x].mode)
             IN  [new EXCEPT ![x].pos = l[x].pos]
  IN  copy[Len(l)]

fork(t) ==
  /\ InUserMode(t)
  /\ \A x \in DOMAIN fds[t] : IsLive(fds[t][x].node)
  /\ \E c \in tasks \ alive :
       /\ alive' = alive \cup {c}
       /\ fds' = [fds EXCEPT ![c] = CopyFds(fds[t])]
       /\ current_dir' = [current_dir EXCEPT ![c] = current_dir[t]]
  /\ streams_open' = [p \in Pipes |-> streams_open[p] + Uses(fds[t], p)]
  /\ UNCHANGED <<cache, pipes, lost, creates, tasks, heapOK>>

\* The new task gets the list and the directory of the old one.
HandOver(t, c) ==
  /\ fds' = [fds EXCEPT ![c] = fds[t], ![t] = <<>>]
  /\ current_dir' = [current_dir EXCEPT ![c] = current_dir[t], ![t] = NULL]

(***************************************************************************)
(* exec(): load_elf() opens the program, with a descriptor it closes       *)
(* again.  A file may turn out not to be a program.  (An exec() of a       *)
(* directory, which fails after reading an entry of it, is left out.)      *)
(***************************************************************************)
exec(t, absolute, path) ==
  /\ InUserMode(t)
  /\ IsLive(From(t, absolute))
  /\ \E at \in vfs_search_vnode(cache, From(t, absolute), path) :
       /\ at.node # NULL => at.node[2] # "dir"
       /\ cache' = at.cache
       /\ \/ UNCHANGED <<alive, fds, current_dir>>
          \/ /\ at.node # NULL
             /\ \E c \in tasks \ alive :
                  /\ alive' = (alive \ {t}) \cup {c}
                  /\ HandOver(t, c)
  /\ UNCHANGED <<pipes, streams_open, lost, creates, tasks, heapOK>>

ExitClosesNothing_Mutant(t) ==
  /\ InUserMode(t)
  /\ lost[Kbd] <= MaxExits
  /\ \A x \in DOMAIN fds[t] : IsLive(fds[t][x].node)
  /\ alive' = alive \ {t}
  /\ lost' = [p \in Pipes |-> lost[p] + Uses(<<Head(fds[t])>>, p)]
  /\ fds' = [fds EXCEPT ![t] = <<>>]
  /\ current_dir' = [current_dir EXCEPT ![t] = NULL]
  /\ UNCHANGED <<cache, pipes, streams_open, creates, tasks, heapOK>>

\* exit() closes all descriptors; but the first cannot be closed.
exit(t) ==
  /\ InUserMode(t)
  /\ lost[Kbd] <= MaxExits
  /\ \A x \in DOMAIN fds[t] : IsLive(fds[t][x].node)
  /\ alive' = alive \ {t}
  /\ Closed(Tail(fds[t]))
  /\ lost' = [p \in Pipes |-> lost[p] + Uses(<<Head(fds[t])>>, p)]
  /\ fds' = [fds EXCEPT ![t] = <<>>]
  /\ current_dir' = [current_dir EXCEPT ![t] = NULL]
  /\ UNCHANGED <<cache, creates, tasks, heapOK>>

-----------------------------------------------------------------------------
Moved(t, x, pos) ==
  /\ fds' = [fds EXCEPT ![t][x].pos = pos]
  /\ UNCHANGED <<alive, current_dir, pipes, streams_open, lost, creates, tasks, heapOK>>

\* "The exact amount we can read" or write: a write does not enlarge a file.
ExactAmount(d, amount) ==
  LET size == Size[d.node[1]]
  IN  IF amount + d.pos > size THEN size - d.pos ELSE amount

\* kread() and kwrite() of a file: the position advances by stat, what the
\* driver says it has transferred.  Without any, nothing changes.
TransferFile(t, n, amount) ==
  LET x == vfs_find_fd(fds[t], n)
  IN  /\ InUserMode(t)
      /\ x # 0 /\ fds[t][x].node \in Live(cache)
      /\ fds[t][x].node[2] # "dir"
      /\ \E stat \in 1 .. ExactAmount(fds[t][x], amount) :
           Moved(t, x, fds[t][x].pos + stat)
      /\ UNCHANGED cache

\* The order in which a directory is read: "Entries for directories will be
\* read before file entries".
Order(c, d) ==
  LET of(k) == {t \in Children(c, d) : t[2] = k}
  IN  SetToSeq(of("dir")) \o SetToSeq(of("file"))

(***************************************************************************)
(* kread() of a directory reads one entry, and loads its node.  (After a   *)
(* list could not be loaded the counts are not those of the list, and a    *)
(* read goes beyond its end; that is not modelled.)                        *)
(***************************************************************************)
vfs_read_dir(t, n) ==
  LET x == vfs_find_fd(fds[t], n)
      d == fds[t][x].node[1]
      pos == fds[t][x].pos
      entry == Order(cache, d)[pos + 1]
      loaded == \E v \in cache.vnodes : <<v[1], v[2]>> = entry
  IN  /\ InUserMode(t)
      /\ x # 0 /\ fds[t][x].node \in Live(cache)
      /\ fds[t][x].node[2] = "dir"
      /\ pos < Cardinality(Children(cache, d))
      /\ IF loaded THEN UNCHANGED cache
         ELSE \E at \in vfs_load_at(cache, d, entry) : cache' = at.cache
      /\ Moved(t, x, pos + 1)

Next ==
  \E t \in Task :
    \/ \E a \in BOOLEAN, p \in Argument, m \in {FD_READ, FD_WRITE} : open(t, a, p, m)
    \/ \E a \in BOOLEAN, p \in Argument : chdir(t, a, p) \/ exec(t, a, p) \/ SearchFreed(t, a, p)
    \/ pipe(t) \/ fork(t) \/ exit(t)
    \/ \E n \in 0 .. MaxFds - 1 : close(t, n) \/ vfs_read_dir(t, n)
    \/ \E n \in 0 .. MaxFds - 1, a \in 1 .. MaxAmount : TransferFile(t, n, a)

Spec == Init /\ [][Next]_vars

-----------------------------------------------------------------------------
\* The numbers of a task's descriptors differ, whatever it closed before: each
\* is found by its number (fd.c, vfs_create_fd and vfs_find_fd).
FdsUnique ==
  \A t \in alive : \A x, y \in DOMAIN fds[t] : fds[t][x].fd = fds[t][y].fd => x = y

\* A position never is beyond the end of the file, so that "the exact amount we
\* can read" is not negative (read.c, vfs_read_file).
PosInFile ==
  \A t \in alive : \A x \in DOMAIN fds[t] :
    LET n == fds[t][x].node
    IN  n \notin Pipes /\ n[2] # "dir" => fds[t][x].pos \in 0 .. Size[n[1]]

\* The descriptor lists are sound: numbers differ and positions are in the file.
FdsOK == TypeOK /\ FdsUnique /\ PosInFile

(***************************************************************************)
(* streams_open counts the references: the descriptors of all tasks, the   *)
(* copies of fork() included, and those that were lost: the keyboard's     *)
(* own, and the first descriptor of every task that has exited.  So every  *)
(* other pipe goes with its last task (close.c, task.c, terminate_task).   *)
(***************************************************************************)
References(n) ==
  Cardinality({r \in alive \X (1 .. MaxFds) :
                 r[2] \in DOMAIN fds[r[1]] /\ fds[r[1]][r[2]].node = n})

StreamsCounted ==
  \A p \in Pipes : /\ streams_open[p] = References(p) + lost[p]
                   /\ p \in pipes <=> streams_open[p] > 0

(***************************************************************************)
(* No task has a descriptor of a pipe that was unloaded: close() and exit  *)
(* unload it with its last descriptor, never while a task that forked away *)
(* has one.  The node of a file is freed only where the list of a          *)
(* directory above it was loaded anew since the node was made.  This is so *)
(* until a freed tnode is read: what open() gets then may be anything      *)
(* (close.c, vfs_unload_fnode; nodes.c, free_dir_list and                  *)
(* vfs_search_vnode).                                                      *)
(***************************************************************************)
NoDanglingFd ==
  heapOK => \A t \in alive : \A x \in DOMAIN fds[t] :
              LET n == fds[t][x].node
              IN  IsLive(n) \/ (n \notin Pipes /\ Freed(cache, n))

\* The cache of nodes stays a tree of loaded directories (nodes.c).
CacheIsTree == IsTree(cache)

\* Unless a transfer has failed, programs find by a path what is on the disk,
\* whatever was loaded, created and loaded anew before (nodes.c).  The driver is
\* taken to list the names that are on the disk, which ext2_list_files() does not
\* do for every name (see Ext2).
PathsAreFound == \A p \in Argument \cap Path : FindsDisk(cache, p)

=============================================================================
