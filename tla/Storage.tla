------------------------------ MODULE Storage ------------------------------
(***************************************************************************)
(* The root file system in use: ext2_read_file(), ext2_write_file() and    *)
(* ext2_mknod() on the drive that boot has found.  The calls come from     *)
(* system calls, which run with interrupts disabled, so there is one at a  *)
(* time; it has a step per turn of its loop, or per structure it transfers *)
(* to the disk, and any transfer may fail.                                 *)
(*                                                                         *)
(*   img     the image of the root file system (Ext2)                      *)
(*   call    the call in progress, where it is, and its local variables    *)
(*   calls   how many calls there have been                                *)
(*   heapOK  whether no call has used memory that it did not allocate or   *)
(*           did not write; what the kernel does after that is not modelled *)
(***************************************************************************)
EXTENDS Drives, Ext2

CONSTANTS
  Image,      \* the images that are considered
  Extent,     \* the offsets and amounts of the reads and writes
  NewByte,    \* what is written
  Garbage,    \* what is in memory that was never written
  NewName,    \* the name of a file that is created
  SectorsPerBlock,
  MaxCalls

ASSUME StorageAssumption ==
  /\ MaxCalls \in Nat /\ SectorsPerBlock \in Nat \ {0}
  /\ \A x \in Extent : x[1] \in Nat /\ x[2] \in Nat
  /\ {NewByte, Garbage} \subseteq Byte /\ NewName \in STRING
  /\ \A i \in Image : IsImage(i)

VARIABLES img, call, calls, heapOK

vars == <<bootVars, img, call, calls, heapOK>>

Idle == [op |-> "idle"]

\* The files that can be opened: those the search finds by their listed name.
File == {e.inode : e \in {f \in ext2_list_files(img, RootInode) : f.name # Overrun}}

Init ==
  /\ BootInit
  /\ img \in Image
  /\ call = Idle
  /\ calls = 0
  /\ heapOK = TRUE

Booting == Boot /\ UNCHANGED <<img, call, calls, heapOK>>

-----------------------------------------------------------------------------
\* ext2_load_blocks() and ext2_write_blocks() of the root file system.
Transfer(b, count, outcome) ==
  /\ outcome \in drive_sectors(Ide[root_fs.dev], root_fs.start,
                               b * SectorsPerBlock, count * SectorsPerBlock)
  /\ Transferred(root_fs.dev, outcome)
  /\ UNCHANGED <<machine, drives, fss, boot>>

Good(outcome) == outcome = "ok"

NoTransfer == UNCHANGED bootVars

Begin(c) ==
  /\ boot.at = "up" /\ call = Idle /\ calls < MaxCalls /\ heapOK
  /\ call' = c
  /\ calls' = calls + 1
  /\ NoTransfer /\ UNCHANGED <<img, heapOK>>

At(op, place) == call.op = op /\ call.at = place

Return(value) == call' = [call EXCEPT !.at = "return", !.ret = value]

Returned ==
  /\ call.op # "idle" /\ call.at = "return"
  /\ call' = Idle
  /\ NoTransfer /\ UNCHANGED <<img, calls, heapOK>>

\* The block with the inodes of a group; where it is does not matter.
InodeTable == 1

-----------------------------------------------------------------------------
(***************************************************************************)
(* ext2_read_file() and ext2_write_file() begin in the same way.  done is  *)
(* bytes_read, buf is data_buf, out is what the caller's buffer has got.   *)
(***************************************************************************)
Transfers(op, i, extent) ==
  [op |-> op, at |-> "inode", ino |-> i, pos |-> extent[1], off |-> extent[1],
   bytes |-> extent[2], block |-> 0, done |-> 0, out |-> <<>>, ret |-> 0,
   buf |-> [x \in 1 .. BlockSize |-> Garbage], old |-> img.data]

ext2_read_file(i, extent) == Begin(Transfers("read", i, extent))

ext2_write_file(i, extent) == Begin(Transfers("write", i, extent))

LoadInode ==
  /\ call.op \in {"read", "write"} /\ call.at = "inode"
  /\ \E o \in {"ok", "error", "refused", "range"} :
       /\ Transfer(InodeTable, 1, o)
       /\ IF ~Good(o) \/ call.off + call.bytes > img.ino[call.ino].size THEN Return(-1)
          ELSE call' = [call EXCEPT !.at = "loop", !.block = call.off \div BlockSize,
                                    !.off = call.off % BlockSize]
  /\ UNCHANGED <<img, calls, heapOK>>

\* The block of the next turn; an indirect block is transferred to find it.
Address == ext2_block_in_inode(img, img.ino[call.ino], call.block)

ToCopy == IF BlockSize - call.off > call.bytes THEN call.bytes ELSE BlockSize - call.off

AdvanceKeepsOffset_Mutant(buf, out) ==
  call' = [call EXCEPT !.bytes = @ - ToCopy, !.done = @ + ToCopy,
                       !.block = @ + 1, !.buf = buf, !.out = out]

Advance(buf, out) ==
  call' = [call EXCEPT !.bytes = @ - ToCopy, !.done = @ + ToCopy, !.off = 0,
                       !.block = @ + 1, !.buf = buf, !.out = out]

ReadTurn ==
  /\ At("read", "loop") /\ call.bytes > 0
  /\ IF Address = 0 THEN Return(-1) /\ NoTransfer
     ELSE \E o \in {"ok", "error", "refused", "range"} :
            /\ Transfer(Address, 1, o)
            /\ IF Good(o)
               THEN Advance(img.data[Address],
                            call.out \o SubSeq(img.data[Address], call.off + 1, call.off + ToCopy))
               ELSE Return(-1)
  /\ UNCHANGED <<img, calls, heapOK>>

\* data_buf after the copy: only a block that is written from its middle on is
\* loaded before, otherwise the rest of the buffer is what it was.
FilledBuf(buf) ==
  LET base == IF call.off > 0 THEN img.data[Address] ELSE buf
  IN  [x \in 1 .. BlockSize |->
         IF x \in call.off + 1 .. call.off + ToCopy THEN NewByte ELSE base[x]]

\* A turn may fail in the load, or in the store, which then may have had its
\* effect or not.  A block whose address cannot be loaded ends the write early.
WriteTurn ==
  /\ At("write", "loop") /\ call.bytes > 0
  /\ IF Address = 0 THEN Return(call.done) /\ NoTransfer /\ UNCHANGED img
     ELSE \E o \in {"ok", "error", "refused", "range"} :
            /\ Transfer(Address, 1, o)
            /\ \/ /\ Good(o)
                  /\ img' = [img EXCEPT !.data[Address] = FilledBuf(call.buf)]
                  /\ Advance(FilledBuf(call.buf), <<>>)
               \/ /\ ~Good(o)
                  /\ Return(-1)
                  /\ \/ UNCHANGED img
                     \/ o = "error" /\ img' = [img EXCEPT !.data[Address] = FilledBuf(call.buf)]
               \/ /\ o = "error" /\ call.block >= DIRECT
                  /\ Return(call.done)
                  /\ UNCHANGED img
  /\ UNCHANGED <<calls, heapOK>>

TransferDone ==
  /\ call.op \in {"read", "write"} /\ call.at = "loop" /\ call.bytes = 0
  /\ Return(call.done)
  /\ NoTransfer /\ UNCHANGED <<img, calls, heapOK>>

-----------------------------------------------------------------------------
(***************************************************************************)
(* ext2_mknod() in the root directory, for a name that is not listed there *)
(* (kopen() and mknode_file()).  Only the first block of the directory is searched,    *)
(* and beyond its end: past tells whether the entry it settles on is       *)
(* there.  The number of the new block is stored 160 bytes behind the      *)
(* start of the inode, which has 128.                                      *)
(***************************************************************************)
ext2_mknod ==
  /\ NewName \notin {e.name : e \in ext2_list_files(img, RootInode)
                                   \cup ext2_list_folders(img, RootInode)}
  /\ Begin([op |-> "mknod", at |-> "entry", past |-> FALSE, num |-> 0, ret |-> 0])

DirBlock == img.ino[RootInode].direct[0]

\* That the parent's inode cannot be loaded goes unnoticed: the search then goes
\* on with memory that was never written.
FindEntry ==
  /\ At("mknod", "entry")
  /\ \E o \in {"ok", "error", "refused", "range"} :
       /\ Transfer(DirBlock, 1, o)
       /\ IF Good(o) THEN call' = [call EXCEPT !.at = "ialloc", !.past = ~img.dir[DirBlock].zero]
                     ELSE Return(0)
       /\ heapOK' \in IF o = "error" THEN {TRUE, FALSE} ELSE {heapOK}
  /\ UNCHANGED <<img, calls>>

\* A bitmap that is loaded and stored.  The outcome of the store is ignored.  A
\* bitmap of no blocks is searched in memory that was never written, and keeps
\* the semaphore: the next transfer waits for ever.
ext2_alloc_inode ==
  LET bit == FirstClear(img.imap, img.ifree, img.inodes_in_group)
  IN  /\ At("mknod", "ialloc")
      /\ \E o \in {"ok", "error", "refused", "range", "empty"} :
           /\ Transfer(InodeTable, ToRead(img.inodes_in_group), o)
           /\ heapOK' = (heapOK /\ o # "empty")
           /\ \/ /\ o = "ok" /\ bit # NoBit
                 /\ call' = [call EXCEPT !.at = "balloc", !.num = bit]
                 /\ img' = [img EXCEPT !.imap = @ \cup {bit}]
              \/ /\ o = "error" /\ bit # NoBit
                 /\ call' = [call EXCEPT !.at = "balloc", !.num = bit]
                 /\ UNCHANGED img
              \/ /\ o # "ok" \/ bit = NoBit
                 /\ call' = [call EXCEPT !.at = "balloc", !.num = 0]
                 /\ UNCHANGED img
      /\ UNCHANGED calls

ext2_alloc_blocks ==
  LET bit == FirstClear(img.bmap, img.bfree, BlocksPerGroup)
  IN  /\ At("mknod", "balloc")
      /\ \E o \in {"ok", "error", "refused", "range", "empty"} :
           /\ Transfer(InodeTable, ToRead(BlocksPerGroup), o)
           /\ \/ /\ o = "ok" /\ bit # NoBit
                 /\ img' = [img EXCEPT !.bmap = @ \cup {bit}]
                 /\ heapOK' = FALSE
              \/ /\ o = "empty" \/ (o = "error" /\ bit # NoBit)
                 /\ heapOK' = FALSE
                 /\ UNCHANGED img
              \/ /\ o \notin {"ok", "empty"} \/ (o = "ok" /\ bit = NoBit)
                 /\ UNCHANGED <<img, heapOK>>
      /\ call' = [call EXCEPT !.at = "inode"]
      /\ UNCHANGED calls

\* A file without blocks.
NewInode ==
  [isDir |-> FALSE, size |-> 0, direct |-> [n \in 0 .. DIRECT - 1 |-> 0], singly_indirect |-> 0]

\* There is no group of inode 0.
ext2_write_inode ==
  /\ At("mknod", "inode")
  /\ IF call.num = 0 THEN Return(0) /\ NoTransfer /\ UNCHANGED img
     ELSE \E o \in {"ok", "error", "refused", "range"} :
            /\ Transfer(InodeTable, 1, o)
            /\ IF Good(o)
               THEN /\ img' = [img EXCEPT !.ino[call.num] = NewInode]
                    /\ call' = [call EXCEPT !.at = "link"]
               ELSE /\ Return(0)
                    /\ \/ UNCHANGED img
                       \/ o = "error" /\ img' = [img EXCEPT !.ino[call.num] = NewInode]
  /\ UNCHANGED <<calls, heapOK>>

\* The directory block is stored, with the entry unless that is past its end.
LinkEntry ==
  LET entry == [name |-> NewName, inode |-> call.num, type |-> "file"]
      linked == IF call.past THEN img
                ELSE [img EXCEPT !.dir[DirBlock].entries = Append(@, entry)]
  IN  /\ At("mknod", "link")
      /\ \E o \in {"ok", "error", "refused", "range"} :
           /\ Transfer(DirBlock, 1, o)
           /\ img' \in IF Good(o) THEN {linked} ELSE {img, linked}
      /\ Return(0)
      /\ heapOK' = (heapOK /\ ~call.past)
      /\ UNCHANGED calls

-----------------------------------------------------------------------------
CallStep ==
  \/ LoadInode \/ ReadTurn \/ WriteTurn \/ TransferDone \/ Returned
  \/ FindEntry \/ ext2_alloc_inode \/ ext2_alloc_blocks \/ ext2_write_inode \/ LinkEntry

Next ==
  \/ Booting
  \/ \E i \in File, x \in Extent : ext2_read_file(i, x) \/ ext2_write_file(i, x)
  \/ ext2_mknod
  \/ CallStep

Spec == Init /\ [][Next]_vars

\* Boot and a call go on as long as the code they run can: nothing else needs
\* the CPU, and a device answers every command.
FairSpec == Spec /\ WF_vars(Booting) /\ WF_vars(CallStep)

-----------------------------------------------------------------------------
\* The block of an inode by the layout of ext2.
TrueBlock(node, n) ==
  IF n < DIRECT THEN node.direct[n] ELSE img.ptrs[node.singly_indirect][n - DIRECT]

\* The type of the state.
TypeOK ==
  /\ machine \in Machine
  /\ mutex \in [DOMAIN Ide -> 0 .. 1]
  /\ errors \in 0 .. MaxErrors
  /\ boot.at \in {"disk", "mbr", "entry", "whole", "fs", "up", "failed"}
  /\ img \in ImageType
  /\ calls \in 0 .. MaxCalls /\ heapOK \in BOOLEAN

\* The disks, their semaphores and the root file system are as boot has to leave
\* them (FsFound), and every address on the image leads to a block.
StorageOK == TypeOK /\ FsFound

Content(i) ==
  [k \in 1 .. img.ino[i].size |->
     img.data[TrueBlock(img.ino[i], (k - 1) \div BlockSize)][((k - 1) % BlockSize) + 1]]

(***************************************************************************)
(* A read that succeeds has returned the bytes of the file at its offset,  *)
(* across blocks and from direct to indirect ones, after any writes        *)
(* (read.c and inodes.c, ext2_block_in_inode).                             *)
(***************************************************************************)
ReadIsContent ==
  call.op = "read" /\ call.at = "return" /\ call.ret > 0
    => call.out = SubSeq(Content(call.ino), call.pos + 1, call.pos + call.ret)

(***************************************************************************)
(* At every moment of a write, should the machine stop there, and after    *)
(* it, failed or not: the bytes done so far are stored, those before the   *)
(* offset are what they were, and so is every block behind the current one *)
(* and every block of other files (write.c).                               *)
(***************************************************************************)
WriteIsPrefix ==
  call.op = "write" =>
    LET node == img.ino[call.ino]
        first == call.pos \div BlockSize
        last == IF call.bytes > 0 THEN call.block ELSE call.block - 1
        touched == {TrueBlock(node, n) : n \in {m \in first .. last : m * BlockSize < node.size}}
        upTo == TrueBlock(node, first)
    IN  /\ \A k \in call.pos + 1 .. call.pos + call.done : Content(call.ino)[k] = NewByte
        /\ \A b \in Block \ touched : img.data[b] = call.old[b]
        /\ \A x \in 1 .. call.pos % BlockSize : img.data[upTo][x] = call.old[upTo][x]

\* Names that two entries of the root directory have.  A file whose own name is
\* listed overrun can be created a second time.
Doubled ==
  {e.name : e \in {f \in Listed(img, RootInode) :
                     \E g \in Listed(img, RootInode) : g # f /\ g.name = f.name}}

(***************************************************************************)
(* Every name in the listing of the root directory is found by a search,   *)
(* and leads to the inode of the listing, over several blocks and however  *)
(* a block ends; the search of a listed name never hangs (list.c, open.c). *)
(* Not so for a file's name that the listing has overrun (list.c:65), nor  *)
(* for a name that stands there twice.                                     *)
(***************************************************************************)
ListedIsFound ==
  \A e \in ext2_list_files(img, RootInode) \cup ext2_list_folders(img, RootInode) :
    e.name \notin Doubled \cup {Overrun} => ext2_open_at(img, RootInode, e.name) = e.inode

(***************************************************************************)
(* Two returns of drive_read_sectors() and drive_write_sectors() keep the  *)
(* semaphore.  They are taken when a block is beyond the end of the disk,  *)
(* and when the bitmap of a group has a size for which ToRead is 0.        *)
(***************************************************************************)
MayKeep ==
  \/ NumBlocks * SectorsPerBlock > SectorCount(Ide[root_fs.dev])
  \/ call.op = "mknod" /\ 0 \in {ToRead(img.inodes_in_group), ToRead(BlocksPerGroup)}

(***************************************************************************)
(* Boot ends, with a root file system or without, and every call returns,  *)
(* whichever of their transfers the device fails: no transfer waits for a  *)
(* semaphore that an earlier one has kept (read-write.c), other than where *)
(* MayKeep says.                                                           *)
(***************************************************************************)
CallReturns ==
  /\ <>(boot.at \in {"up", "failed"})
  /\ call.op # "idle" /\ ~MayKeep ~> call.op = "idle"

\* Creating a file leaves the inodes of what is in the directory alone: it is
\* "to create an inode, link the entry to it, then write both of them back"
\* (mknod.c).
CreateKeepsFiles ==
  [][call.op = "mknod" =>
       \A e \in Listed(img, RootInode) : img'.ino[e.inode] = img.ino[e.inode]]_vars

=============================================================================
