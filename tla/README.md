# Nettapus in TLA+

Nettapus is a small x86-64 kernel: a preemptive round-robin scheduler on one
CPU, semaphores and wait queues, fork/exec/wait/exit, pipes, a VFS with an ext2
driver, a heap, page tables, and a handful of drivers. This directory holds
TLA+ models of its core, the TLC configurations that check them, and TLAPS
proofs. Paths below are relative to `src/libk/` of the repository unless they
start with `kernel/` or `doc/`.

## 1. Inventory

| Part | State | Operations | Hard behaviour | What makes it correct |
|---|---|---|---|---|
| Scheduler (`arch/x86-64/task/task.c`, `task_switch.asm`) | `current_task`, ready list (`first_task`, `last_task`, `next`), `sched_lock`, `task_switch_lock`, `task_switch_postponed`, ticks | `yield`, `block_task`, `unblock_task`, the two locks, `scheduler_irq0`, `create_task`, `copy_task`, `idle_task_main` | interrupts in the middle of kernel tasks; switches postponed and done later, by someone else; one `next` field for all lists | the ready list is a list of the ready tasks; blocked tasks do not run; ready tasks get the CPU; locks do not leak |
| Semaphores (`semaphore.c`) | count, limit, list of waiters | `create`, `acquire`, `release`, `destroy` | hand-over to a blocked task; several waiters | mutual exclusion; every acquire returns |
| Queues (`queue.c`) | count, list of waiters | `wait`, `signal`, `destroy` | signals from an interrupt handler; several waiters | a signal wakes a waiter if there is one |
| Task lifecycle (`syscalls.c`, `fork.c`, `_fork.asm`, `task.c`) | pid, `wait_queue`, termination queue, terminator | `fork`, `exec`, `wait`, `exit`, `terminator_task_main` | a task is queued for its end while it still runs; `exec` hands its identity to another structure | every exited task is freed, once, and nothing points to it; who waits returns |
| Pipes (`fs/vfs/pipe.c`, `read.c`, `write.c`) | memory, size, mutex, two queues | `read`, `write` | sleep and release must be one step; partial transfers; many readers and writers | a bounded FIFO channel; no lost wake-ups |
| Keyboard (`kbd/kbd.c`) | line buffer, shift state, its pipe | `kbd_handle_key`, `kbd_flush` | writes to a pipe from an interrupt, past the mutex | stored keys arrive in order; no overflow |
| Heap (`mem/heap.c`) | chunk headers, free list | `kmalloc`, `kfree` | splitting with alignment, merging during the walk | blocks do not overlap; no memory is lost |
| Physical memory (`mem/pmm.c`) | bitmap of pages | `allocpp`, `allocpps`, `freepp`, `freepps` | runs across words of the bitmap | no page is handed out twice |
| Virtual memory (`mem/vmm.c`) | four levels of tables, with shadow pointers | `map_memory`, `unmap_memory`, `alloc_pages`, `copy_addr_space` | failure half-way; the shared kernel half | mappings are what was asked for; spaces do not share user pages |
| File descriptors (`fs/vfs/fd.c`, `open.c`, `close.c`) | list per task, `streams_open` of nodes | `create`, `find`, `close`, `seek`, copy at fork | a node shared by many descriptors; the head of the list | a pipe is freed when its last descriptor goes |
| VFS nodes (`fs/vfs/nodes.c`) | tree of loaded directories and files | load, search, unload, `mknode`, mount | loading on demand, lists loaded anew while nodes are open | the nodes are a tree; what is on the disk is found |
| Ext2 (`fs/ext2/`) | bitmaps, inodes, block maps on disk | allocate, read, write, list, create | partial failure between two writes | no block has two owners |
| Disk layer (`disk/`) | devices with a mutex | `read`, `write`, partitions | error paths out of the critical section | the mutex is always given back |
| ELF loader (`elf.c`) | – | `load_elf` | error paths under the scheduler lock | the lock is always given back |
| IDE, PCI, VGA, TTY, serial, strings, config, boot, user programs | – | – | port I/O, drawing, parsing at boot | – |

Interaction. User tasks enter through an interrupt gate, so a system call runs
with interrupts disabled until it blocks. Kernel tasks (kernel_main, the
terminator, the idle task) run with interrupts enabled. Everything that waits
goes through `task.c`: semaphores and queues block the current task under the
task switch lock, which turns `yield()` into a note that
`unlock_task_switches()` acts on. Neither lock keeps the keyboard interrupt
away from the ready list. Pipes use one semaphore and two queues;
`exit` and `wait` use queues; the keyboard interrupt signals a queue.

## 2. Plan

Done, in this order, because everything else blocks, wakes and switches through
the first: `TaskOps`/`Sched` (with proofs), `Lifecycle`, `Pipe` with the
abstract `ByteChannel`, `Heap` with the abstract `Allocator`;
`PageFrames`/`PageTables`/`AddressSpaces` (physical and virtual memory under
load, fork, exec and exit); `Drives`/`Ext2`/`Storage` (from the IDE drives to
the bytes of a file); `FdTable` over `Nodes` (descriptors over the node cache).

The proofs follow the same order: `SchedProofs`, `LifecycleProofs`,
`HeapProofs`, `PipeProofs`, `NodesProofs`/`FdTableProofs`,
`AddressSpacesProofs` and `StorageProofs`.

Next:
1. The keyboard's line buffer in front of `kbd_flush()`; the cursor of the
   terminal.

## 3. Modules

**TaskOps** models `task.c`, `semaphore.c` and `queue.c` as operators from
kernel states to kernel states, named as in the code; a nested call is a nested
application. Lists are what the code has: a first and a last pointer and the
one `next` field per task. That is what makes visible that `release_semaphore()`
and `signal_queue()` unblock the first waiter, which clears its `next`, before
they read that `next`. `task_switch_postponed` is a Boolean (the code tests and
clears it), and only the current task's ticks are kept (yield overwrites those
of a task before they are read again). `TASK_STATE_ZERO` is the state 0 that
`create_task()` leaves in a new task. `InterruptedLink` and `InterruptedYield`
give what an edit of the ready list leaves when irq1, which unblocks the
keyboard's reader and so edits the same list, comes in the middle of it: one
result for each place and for what the compiler may keep in a register.

**Sched** runs tasks on these operators. A call is three steps: the lock with
the body (during which nothing switches), the decrement in
`unlock_task_switches()`, and its test of the postponed flag; between them the
timer (`scheduler_irq0`) or the keyboard (`irq1`) can interrupt a kernel task.
`pend` counts the `yield()`s a task is switched out in: each still has an
`unlock_scheduler()` to do, and until then another task runs with the increment
that task made. `Create` and `Fork` add tasks. A semaphore a task holds is not
acquired again by it, and only a holder releases, as in all callers. Only user
tasks wait for the keyboard, and only irq1 wakes them: kernel_main reads the
console's pipe.

A body, and a `yield()`, may be one step because the timer does not touch what
they work on. The keyboard does: for kernel tasks, which run with interrupts
enabled, `ReleaseInterrupted`, `SignalInterrupted` and `YieldInterrupted` are the
same calls with irq1 in the middle of their edit of the ready list. They set
`torn`, and the model stops there (`Stopped`): what a kernel with such a list
does is left open. The safety properties read "as long as the list is not torn";
`ReadyListWhole` is the claim without that condition, which `sched_race` refutes.

**MCSched** gives the constants: kernel_main, the idle task and up to two user
tasks, a mutex and a counting semaphore, a queue, and the queue of the
keyboard.

**SchedProofs**, **LifecycleProofs**, **HeapProofs**, **PipeProofs**,
**AddressSpacesProofs**, **NodesProofs**, **FdTableProofs** and
**StorageProofs** hold the theorems (section 5), each about the module it is
named after.

**Lifecycle** has the system calls `fork`, `exec`, `exit`, `wait` and a
blocking `read`, each one step up to its task switch, and the terminator, one
step per place where the timer can come in between. Task structures and wait
queues are allocated and freed. `AnyPid` says whether programs wait for any pid
or only for those fork() gave them. Time slices and the scheduler lock are left
out: the timer may fire whenever interrupts are enabled. A key that comes while
the terminator links a waiter or makes its postponed switch tears the ready list
(`DrainInterrupted`, `CheckInterrupted`), and the model stops, as in `Sched`.

**Pipe** has `read` and `write` with a step per turn of their loops, and the
keyboard's `kbd_flush` as a writer that takes no mutex; `isKbd` says whether
the pipe is the keyboard's, and both kinds are initial states. Of the lists of
waiters only the first task is kept, since the others are forgotten at the next
wake-up in any case. The bytes carry their writer and number. `PipeIsChannel`
says that this implements **ByteChannel**, a bounded FIFO.

**Heap** has `kmalloc` and `kfree` with one step per turn of their loops, on
headers at byte addresses: the header of 24 bytes, the rounding to 4, the least
size of 16, the alignment to 16 and the threshold of 48 are the code's; only
the heap is smaller. `HeapIsAllocator` says that this implements **Allocator**,
which hands out disjoint blocks. One call at a time is justified by the
callers: system calls run with interrupts disabled, the terminator holds the
task switch lock, and kernel_main no longer allocates once user tasks exist.

**PageFrames** is `pmm.c`: a bitmap as the set of used pages, `allocpp`, and
`allocpps` with its search that jumps over runs that are too short.
**PageTables** is `vmm.c`: four levels of tables of `Width` entries, allocated
from the page heap, with `map_memory`, `unmap_memory`, `get_page_entry` and the
freeing of a space; an address is a page number. **AddressSpaces** composes
them with `load_elf`, `create_task`, `copy_addr_space`, `fork_ret`, `exit` and
the terminator. The loops over segments and over pages have a step per turn, so
that the window at `0xFFFFFFFF98000000`, which all spaces share, is seen in
use. Pages have contents, so that a copy of the wrong page would be seen. The
read of a segment may end early, which `load_elf()` logs and ignores: `got`
says after how many pages. The segments of a program are page-aligned and do
not overlap, anywhere below `UserLimit`, the address `load_elf()` tests. The
terminator clears entry `i` of a page table where it means entry `l`
(`task.c:544`), and so forgets some pages of tables outside the lowest part of
the space: `forgotten` records which (`Missed`). A `load_elf()` may fail when
it reads the headers for the second time; its space then belongs to nobody
(`leaked`). Memory may run out: `allocpp()` then returns 0 and nobody checks
it: the properties of contents except a space that maps a reserved page
(`RanOut`). That the page heap runs out is not modelled: a call, and a turn of
its loop, begins only if there are tables for it (`EnoughStructs`). A program's
segments have no more pages than the window has room for, which the code leaves
as a "TODO" (`elf.c`), and no more than there are reserved pages, since without
memory they are mapped there.

**Drives** is the boot of the disk layer: which disks the IDE driver finds, the
partitions of the MBR, the drives and the file systems on them, with the mutex
of each disk and any transfer failing, refused or done. The order of the lists
and the early returns that keep the mutex are the code's. The numbers of an MBR
entry are put together in a signed int and sign-extended (`Widened`), and sums
of 64-bit numbers wrap (`Plus`). **Ext2** has the pure part of the driver on an
image: the block map with its indirect block, lists, names, the bitmaps. The
listing takes a file's name up to the next zero byte, the search by its length:
a name whose length is a multiple of 4 (`FullName`), with another entry behind
it, is listed as `Overrun`, a name nothing has. **Storage** composes both and
adds `ext2_read_file`, `ext2_write_file` and `ext2_mknod`, with a step per turn
of the loop or per structure that goes to the disk. Listings are sets of
entries, as nothing depends on their order. An image is as mkfs leaves it
(`IsImage`: typed, the root is a directory, the blocks of a file differ), and
the superblock of each file system lies on its disk (`IsDisk`). A bitmap of
which `to_read` is 0 (`inodes.c:121`) is a transfer of nothing, which keeps the
mutex; `MayKeep` says when that, or a sector beyond the disk, may happen.
`heapOK` becomes FALSE where a call uses memory it never wrote or allocated;
after that nothing is claimed.

**Nodes** is the cache of the VFS as one record and operators on it, named as
in `nodes.c`: the names in the lists of loaded directories, the nodes loaded
for them, and the nodes of `mknode_file()`, which nothing points to. An
operator that may fail gives the set of the possible caches. A node carries the
number of reloads before it was loaded, so that a freed node is told from the
one loaded later for the same name; `relisted` says which lists were loaded
anew, and when. `ReadsFreedTnode` is the search that returns the vnode of a
tnode which the reload after a failure has freed (`nodes.c:302`). `IsTree` is
what the cache is at all times: the disk is a tree (`DiskIsTree`, assumed of
the initial disks and preserved), a name is listed and a node loaded only below
a loaded directory, a name has one node, and the list of a loaded directory is
complete unless a transfer failed. `Name` are the names in paths, `Path` the
paths of what can exist.

**FdTable** has the descriptor lists of the tasks, in the order of the code's
lists, their current directories and the `streams_open` of pipes, over a cache
of `Nodes`: `open` (with creation: `O_CREAT` is the bit of `FD_WRITE`),
`chdir`, `pipe`, `close`, transfers that move the position, the reading of a
directory, which loads nodes, and what `fork` (a copy with new numbers), `exec`
(a move) and `exit` do with a list. `exit` closes all descriptors but the first
of the list, which `close()` refuses; that reference, to the keyboard, is lost.
A call is one step since system calls run with interrupts disabled; what a
blocking read does meanwhile is the subject of `Pipe`. `lost` counts the
references that no task has any more: those of exited tasks and the keyboard
driver's. `SearchFreed` is a call whose search reads a freed tnode: it sets
`heapOK` to FALSE, and the model stops; the case that the memory still holds
NULL is the ordinary failure of the call.

Definitions whose name ends in `_Mutant` are wrong versions of the definition
that follows: each is a plausible bug that makes the property it is paired with
in `PROJECT.json` fail.

## 4. Runs

Where a run lists `HeapOK`, `TasksOK`, `PipeOK`, `FdsOK`, `TablesOK` or
`StorageOK`, this is the conjunction of the type invariant and the structural
invariants of the module, which have names of their own.

| Run | Configuration | Result |
|---|---|---|
| `sched` | 2 kernel and 2 user tasks, mutex and counting semaphore (2 units), a queue and the keyboard's, slices of 2 ticks | 743,496 states; unless the ready list is torn, list, exclusion, counts, blocking and locks are right, and so is the inductive invariant |
| `sched_timer` | 1 user task, no keyboard, fairness | preemption always possible, ready tasks run, acquires return |
| `sched_lost_waiter` | 2 user tasks, fairness | violation of `AcquireReturns` |
| `sched_race` | 2 user tasks, keyboard | violation of `ReadyListWhole` |
| `sched_kbd` | 2 user tasks, keyboard, fairness | violation of `RoundRobin` |
| `lifecycle` | 3 user tasks, 3 pids, any pid is waited for, fairness | 105,505 states; freeing and ownership are right unless the ready list is torn; unless a waiter was lost, exits complete and waits return |
| `pipe` | 1 reader and 1 writer, 2 readers, 2 writers, or the keyboard; 2 bytes of memory, transfers of 1 to 3, 4 bytes of each writer, fairness | 154,354 states; a FIFO channel, no overflow, no lost wake-up, stored keys arrive in order; with one reader and one writer everything arrives |
| `heap` | 224 bytes, requests of 1, 23 and 34 bytes | 27,252 states; an allocator |
| `fd` | 2 programs of 3 descriptors with a file of 2 bytes, or with a directory and 1 failing transfer; 1 program with a file, a directory and a file in it, 1 failing transfer and 1 created file; a pipe, 1 exit | 279,039 states; numbers, counts and positions are right, the cache is a tree and finds the disk |
| `memory` | 12 pages with a hole, tables of 3 entries, 3 tasks, programs of 1 and 2 segments, 1 failing load | 63,790 states; tables and pages have one owner but for the forgotten ones, programs and children see their memory |
| `storage` | 6 machines, 5 images, 2 failing transfers, 3 calls, fairness | 257,571 states; file systems are found, reads and writes are right, boot and calls end |
| `storage_create` | the same, no failure | violation of `CreateKeepsFiles` |

Bounds. Two user tasks beside kernel_main are the least that give a semaphore
two waiters and a holder, the case the lists can get wrong. A slice of two
ticks lets a tick fall before the end of a slice. Three user structures and
three pids let a structure be freed and used again while others wait, and two
tasks wait for the same one. A pipe of
two bytes is exceeded by one transfer of three, and two writers interleave
their turns. The heap has room for four chunks, so that there is a chunk
between two others to be freed first or last; 23 bytes give a chunk without
alignment gap (merging happens), the others one with a gap, and 1 byte is below
the least size. Pipe runs do not check deadlock: when the bounded number of
bytes is sent the writers stop. `fd` does not either, because all programs may
exit; nor `memory` and `storage`, where the tasks and the calls are bounded. The
other runs do. Three descriptors are what a list with a gap
takes (close the second of three, then open): there numbering by length and by
search differ, and so do the parent's and the child's numbers after a fork. A
failing transfer or a creation below two levels of directories is what frees
loaded nodes below a loaded directory. Tables of three entries leave the kernel
the last, the stacks the one before, and a segment of two pages that crosses a
table; the other program is outside the lowest part, with a page that the
terminator forgets, and any segment may be read in part. Twelve pages are used
up by three programs. The machines have two file systems, partitions before and
behind an invalid one and one that starts behind the sign bit, an old disk
without 48-bit addresses, a whole disk as file system, a GPT, a bad superblock,
a disk shorter than its file system, and no disk; the
images a file with indirect blocks and one out of reach, a directory of two
blocks with and without a zero size behind its entries, no inode left, a bitmap
of which no block is read, and a name that is overrun in the listing. Two
failures let one hit the call that handles another.

Fairness. In `Sched`, strong fairness of the timer: a tick that comes with
interrupts disabled is kept by the interrupt controller and delivered later.
Strong fairness for the steps of a call: a slice is long compared with a call,
so a task that is switched in again and again gets through. Releases are fair
since every caller of `acquire_semaphore()` reaches its release. Nothing makes
a task start a call, and no key need be pressed. `Lifecycle` uses the same.
`Pipe` assumes that tasks that are not blocked go on (shown in `sched_timer`)
and that the readers keep reading, as the console loop does. `Heap` assumes
that a call in progress keeps running, and `Storage` that boot and a call in
progress do: nothing else needs the CPU then, and the devices answer (the
polling has no timeout).

### What the violations show

* `sched_lost_waiter`: two tasks wait for a mutex. The release wakes the first
  and, its `next` being cleared already, sets the list to empty. The second
  waits for ever. `acquire_semaphore()` says the release "will eventually
  unblock this task".
* `sched_race`: a user task waits for a key, and a time slice ends inside a call
  of kernel_main, whose `unlock_task_switches()` then makes the postponed switch.
  `yield()` stores the link to kernel_main behind `last_task` and reads
  `last_task->next` again; the irq1 in between has appended the reader, and
  `last_task` becomes NULL, after which `yield()` does nothing and a call that
  blocks returns at once. `unblock_task()` can be interrupted in the same way.
  The comment above the lock functions says "For a single CPU however, this works
  well enough."
* `sched_kbd`: a time slice ends while a kernel task is between the decrement and
  the test in `unlock_task_switches()`, a switch being postponed. irq0 switches
  to a new task, which has an `unlock_scheduler()` to do; before it does, a key
  is pressed, and the handler's own `unlock_task_switches()` makes the postponed
  switch. Of the two nested `yield()`s only one is undone by the task that then
  runs, the scheduler lock stays taken, and the timer no longer switches.
* `storage_create`: `ext2_alloc_inode()` returns the number of the bit, counted
  from 0, as the number of the inode, counted from 1: the new file gets the
  inode before the one it allocated, which is another file's.

Three more limits were met and have no run of their own. `close()` refuses the
first descriptor of a list (`close.c:13`), where `doc/syscalls/syscalls.txt` says
it "is universal for all file descriptors". `find_task()` looks at
the ready list only, so that `wait()` for a child blocked in a read fails,
where `doc/syscalls/syscalls.txt` says it "only ever returns 0". And when two
tasks wait for the same one, `signal_queue()` forgets the second but still
counts it, and the terminator's loop `while amount_waiting > 0` never ends, with
the task switch lock held; `ExitTerminates` and `WaitReturns` therefore except
the states in which a waiter was lost (`LostWaiter`).

The lost waiters also affect a pipe with two writers waiting for room, which is
why `WriteReturns` and `BytesArrive` are stated for one reader and one writer.

### What no property covers

Further places where the code is fragile, met while modelling, about which
nothing is claimed: after a close has left a gap, `fork()` gives the child
other numbers for its descriptors than the parent has (`task.c:267`); `open()`
with `O_CREAT` searches from the current directory and creates from the root
(`nodes.c:336`); after a listing that failed the count of the old one remains
(`nodes.c:99`); a seek in an empty file gives position -1 (`fd.c:99`); segments
that share a page are mapped over each other (`elf.c:85`); `unmap_memory()`
does not advance over a missing table (`vmm.c:368`); a failure to store a
bitmap is ignored (`inodes.c:146`); a block written from its start, but not to
its end, loses the rest (`ext2/write.c:47`, which `WriteIsPrefix` leaves out);
the polling of a disk has no timeout (`ide-pio.c:9`).

## 5. Proofs

Every theorem is about the specification a run checks, for every value of its
constants, from the named assumption of the module alone. Where a run has the
invariant of a proof, or its conjuncts, among its properties, TLC has checked
it first.

**Scheduler** (`SchedProofs`, from `TaskOpsAssumption` and `SchedAssumption`),
for any sets of tasks, semaphores and queues and any time slice:

* `IInvInvariant`: the inductive invariant `IInv`;
* `TypeCorrect`, `RunQueueCorrect`, `MutualExclusionCorrect`, `CountCorrect`,
  `BlockedNeverRunsCorrect`, `SwitchLockCorrect`: what it implies;
* `PreemptibleWithoutKeyboard`: with `KbdQueue = {}`, `UserIsPreemptible`. That
  hypothesis is the configuration of `sched_timer`; with the keyboard the
  property is false (`sched_kbd`).

None of these is inductive by itself. The ready list stays a list only if the
tasks linked into it were not on it already, which needs to know that the first
waiter of a semaphore or a queue is blocked (`WaitersOK`), and that `yield()`
finds the list non-empty (`KernelOK`: the idle task is ready whenever it is not
running). That a waiter is blocked there and nowhere else needs to know what
call each blocked task is in (`CallsOK`). That a current task may be in the
blocked or ready state at all, between the block and the switch, makes
`CallsOK` tie the state of the current task to its place in the call and to the
postponed flag. Mutual exclusion follows from `CountOK`: the count equals the
number of owners, where a task that was handed the semaphore while blocked
already counts. All of it (`Whole`) holds as long as the ready list is not torn;
`IInv` is `torn \/ Whole` with the types, which also the interrupted edits keep.

The argument is layered: lemmas on the operators of `TaskOps` (linking at
either end, requeueing, popping: each preserves the existence of a bijection
between 1..n and the ready tasks that the links follow), lemmas on `KernelOK`
for each kernel operator, then one step per action and conjunct of `IInv`.
Cardinalities change by one through `FiniteSetTheorems`.

**Task lifecycle** (`LifecycleProofs`, from `TaskOpsAssumption` and
`LifecycleAssumption`), for any number of task structures, wait queues and
pids: `TasksAreIdentified` (`TasksOK`), `ExitedTasksAreQueued` (`ExitQueueOK`)
and `FreedTasksAreGone` (`NoDanglingTask`), all from the inductive invariant of
`LifecycleInvariant`, up to a key press that tears the ready list. That a freed
structure is nowhere linked needs to know what each blocked task is blocked on
(`CallsOK`, `StatesOK`), that the queue of the quitter has been drained before
it is freed, and that its count is right although `signal_queue()` forgets all
waiters but the one it wakes: the ends of a queue are only known to be two of
its waiters, or nothing (`EndsIn`), but its count is the number of tasks
blocked on it. The terminator runs on after `block_task()` until its check, and
a key or the timer may come in between; `SwitchOK` says that only there the
current task may be blocked, and that the switch is then postponed. `OwnersOK`
and `PidsOK` carry the hand-over of the pid and the wait queue in `exec()`. The
lists of the properties are walks through `next`; the proof keeps numberings of
their tasks instead (`Chain`, as in the scheduler's proof) and shows that a
walk follows the numbering (`WalkIs`, `ChainIsList`).

**Heap** (`HeapProofs`, from `HeapAssumption`), for any heap and any requests:
`HeapCorrect` (`HeapOK` in every state, also between the turns of a walk) and
`HeapRefinesAllocator`. `HeapOK` is inductive as it stands: besides the tiling
and the free list it says how the links of neighbours agree, which sizes
chunks have, and where a call in progress stands (`CallOK`), without which the
merge of `kfree()` and the split of `kmalloc()` could not be followed. Chunks
are a finite set of addresses, and "the next chunk" is its next element, so
that a split adds one element and a merge removes one; no induction over the
list is needed. The refinement maps a block to its owner's request, and the
steps of a walk to stutters.

**Pipe** (`PipeProofs`, from `PipeAssumption`), for any number of readers and
writers, any size of the pipe and of the transfers, with and without the
keyboard: `PipeCorrect`, `BytesInOrder`, `PipeRefinesChannel`, and for one
reader and one writer `WakeupsArrive`. `PipeOK` is inductive as it stands:
`OneInside` alone needs the waiters of the mutex to be blocked, and these need
to be the first ones that are waiting. `NoLostWakeup` is not: it needs to know
what a call that left its loop has still to do (who has written and not yet
signalled), which the module adds as an invariant of its own.

**Nodes** (`NodesProofs`, from `NodesAssumption`). `TreeFindsDisk`: in a cache
that is a tree, the loop over the names of a path finds it exactly if it is on
the disk, for paths of any length. Behind it are lemmas on every operator of
`nodes.c`: what `free_dir_list`, `vfs_dir_load_list` and `vfs_load_at` leave,
each result again being a tree of a later epoch (`Later`), with a failure
anywhere. The loop is a recursive function; that it exists and satisfies its
recursion is proved from the least number for which it would not (`LeastNat`),
and what holds after each turn in the same way.

**Descriptors** (`FdTableProofs`, from `FdTableAssumption` and
`NodesAssumption`), for any number of tasks, descriptors, pipes, files, failing
transfers and created files: `FdsCorrect`, `StreamsAreCounted`,
`NothingDangles`, `CacheStaysTree` and `FilesAreFound`, all from one inductive
invariant, `Sound` (`DescriptorsSound`). It puts the five together because they
need each other. The count of the streams survives `exit()` only if the list of
a program is not empty, since its first descriptor is the one that is lost;
that no list becomes empty follows from `close()` refusing it. A descriptor
that is copied or moved stays of a live node, or of one that was freed with a
list above it, only if the cache changed as `Later` allows; `NothingDangles`
ends with the first read of a freed tnode. The count itself is a cardinality of
pairs of task and place: lemmas say how many descriptors of a pipe a list has
after an append (`UsesExtended`), a removal (`UsesWithout`) and a copy
(`UsesSame`), and how the number of all references follows from that of one
list (`RefsOf`, `RefsSet`).

**Memory** (`AddressSpacesProofs`, from the assumptions of the memory model),
for any memory map, any number of pages and of tables, any size of the tables
from three entries on, any tasks and programs. `AllocppsIsFirstFit`: the search
of `allocpps()`, which jumps over runs that are too short, finds the first run
that is long enough, if there is any; `MemoryIsFirstFit` says so of every state.
`TablesAreOK` (`TablesOK`), `PagesAreOwned` (`PagesOwned`), `ProgramsAreLoaded`
(`ProgramLoaded`) and `ForksCopy` (`ForkCopies`) follow from the inductive
invariant `MemInv`.

`MemInv` says more than the properties in three ways. The tables of all spaces
are a forest in which each table has a position (its space and its indexes from
the highest table on), so that two spaces, or two ways in one space, never meet
in a table of the page heap (`IsForest`); `StructsOwned` counts tables, which
does not say where they hang. Every page above the reserved ones is marked if
and only if some space maps it, and then it is mapped once, or the terminator
forgot it, and then no space does (`Owned`); the window is the exception, where
only a fork in progress leaves a page (`WindowOnly`). What the terminator
forgets of a space is exactly `Missed`: the walk clears entry `i` after each
page, so that it misses the page at `i` if there is a page before it
(`MissedAt`, `FreedAt`). And a call in progress has what it has promised so
far: `ExecOK` says that the segments done have the contents of the file as far
as they were read, `ForkOK` that the pages done are copies. With these, each
action is a composition of `map_memory`, `unmap_memory`, marking and clearing
of pages, and the creation and freeing of a space; a lemma for each says what
it does to the forest, to the set of mapped pages and to who owns them. The
loops of `map_memory` and `unmap_memory` are recursive functions; what holds
after each turn is shown from the least turn at which it would not.

The proof corrected the model and a property. Fork was said to copy everything
unless the child ran out of memory, but a parent that ran out has reserved pages
mapped, which another such space's end frees and which are then handed out
again: `ForkCopies` now excepts both. The bound on tables was one number for all
steps, too small for long segments; it now depends on the step.

**Storage** (`StorageProofs`, from `DrivesAssumption`, `Ext2Assumption` and
`StorageAssumption`), for any machines, images, block sizes, numbers of blocks
and inodes, failing transfers and calls. `NamesAreFound` (`ListedIsFound`),
`ReadsAreContent` (`ReadIsContent`) and `WritesArePrefixes` (`WriteIsPrefix`)
follow from the inductive invariant `FileInv` (`FilesStayConsistent`). It says
what the image keeps (`ImageOK`: its type, no block twice in a file, and a root
that is a directory or has no blocks), how far a read or write has come
(`Progress` ties the block and the offset in it to the bytes done, `HasRead` and
`HasWritten` say what these are), and where a creation is (`NodOK`).
`ListedIsFound` needs the root: `ext2_mknod()` may overwrite its inode, since it
takes the number of a bit for that of an inode, after which nothing is listed.
It is claimed for the names that the listing gives as they are on the disk, once
each; a file whose name is overrun can be created a second time.
`WriteIsPrefix` survives a turn only if the block that goes to the disk is none
of the blocks before it.

`StorageIsOK` (`StorageOK`) needs an invariant of boot, `BootInv`. While no
device failed, the list of drives, read from its end, has the file systems of
the disks searched so far, as far as the code can see them (`FsOn`: without GPT,
with 48-bit addresses, and before a partition that does not fit or whose numbers
were sign-extended); the loop over the MBR has added those of the entries
before the one it is at; and in `init_fs()` what the drives not yet seen have,
followed by the list made so far, is what all disks have. The lists are
concatenations of any number of lists, which the library defines by recursion:
`Flat` states them by the existence of a function of prefixes, and that
`FlattenSeq` and `ide_refresh_disks` are such is shown from the least number for
which they would not be.

Only model-checked:

* all liveness (`AcquireReturns`, `RoundRobin`, `ExitTerminates`,
  `WaitReturns`, `BytesArrive`, `WriteReturns`, `CallReturns`): fairness and
  ENABLED are out of the prover's reach.

Every safety invariant of the passing runs is also a theorem.

## 6. Not modelled

* Register contents, stacks and the TSS; the flags of page table entries;
  `alloc_pages()`, which has no caller; `is_mapped()`, with which the system
  calls test the pointers they are given, before they do anything else.
* The ports of IDE and PCI and their polling, drawing, serial output, the
  fields of on-disk and ELF structures: hardware and layout.
* The translation of scan codes and the keyboard's line buffer; the parsing of
  the configuration file at boot; the splitting of a path into names.
* Task arguments. `copy_task()` gives the copy the list of its parent and then
  appends to that list while it walks it, so that `fork()` of a task that has
  arguments does not end; the programs of the models have none.
* `.` and `..`, mounts other than the root's, and calls on nodes that were
  freed by the reload of a list, of which nothing can be said. `PathsAreFound` is
  about a driver that lists the names as they are on the disk, which the ext2
  driver does not do for every name (`Overrun`).
* What the kernel does after an interrupt has torn the ready list, and after a
  freed tnode was read.
* Segments that are not page-aligned or overlap, and the bytes of a page that a
  short read has filled in part.
* `destroy_semaphore()` and `destroy_queue()`: they are called only for a pipe
  that no descriptor refers to any more, so that nobody waits there
  (`StreamsCounted`).
* Failures of `kmalloc()`, whose result is mostly dereferenced before it is
  tested; `kseek()`, which only the ELF loader calls; user programs and libc.
