-------------------------------- MODULE Ext2 --------------------------------
(***************************************************************************)
(* What the ext2 driver computes on an image (inodes.c, blocks.c, list.c,  *)
(* open.c).  An image is a record:                                         *)
(*   imap, bmap    the bits that are set in the inode and block bitmaps,   *)
(*                 counted from 0 over all groups                          *)
(*   ifree, bfree  free_inode_count and free_block_count of each group     *)
(*                 descriptor, which the driver never changes              *)
(*   inodes_in_group  of the superblock                                     *)
(*   ino           the inodes                                              *)
(*   data          the bytes of each block of a file                       *)
(*   ptrs          the addresses in each indirect block                    *)
(*   dir           the entries of each directory block, and whether a zero *)
(*                 size follows the last (otherwise it fills the block)    *)
(***************************************************************************)
EXTENDS Integers, SequencesExt, FiniteSetsExt

CONSTANTS
  BlockSize,      \* bytes in a block
  DIRECT,         \* direct blocks of an inode: 12
  PTRS,           \* block_size / 4: addresses in an indirect block
  NumBlocks,      \* blocks of the file system
  Groups,         \* group_count
  NumInodes,      \* bound on the inodes of the file system
  BlocksPerGroup,
  FullName,       \* the names whose length is a multiple of 4
  Overrun         \* a name that goes on into the next entry

ASSUME Ext2Assumption ==
  /\ BlockSize \in Nat \ {0} /\ NumBlocks \in Nat \ {0} /\ Groups \in Nat \ {0}
  /\ DIRECT \in Nat \ {0} /\ PTRS \in Nat /\ DIRECT < PTRS
  /\ NumInodes \in Nat /\ NumInodes > 1 /\ BlocksPerGroup \in Nat \ {0}
  /\ Overrun \notin STRING

Inode == 1 .. NumInodes

Block == 0 .. NumBlocks - 1

Byte == 0 .. 255

\* The types of directory entries; the driver only tells directories from the rest.
EntryType == {"file", "dir", "other"}

\* The root directory.
RootInode == 2

ImageType ==
  [imap : SUBSET (0 .. NumInodes - 1),
   inodes_in_group : Nat \ {0},
   bmap : SUBSET (0 .. Groups * BlocksPerGroup - 1),
   ifree : [0 .. Groups - 1 -> Nat],
   bfree : [0 .. Groups - 1 -> Nat],
   ino : [Inode -> [isDir : BOOLEAN, size : Nat, direct : [0 .. DIRECT - 1 -> Block],
                    singly_indirect : Block]],
   data : [Block -> [1 .. BlockSize -> Byte]],
   ptrs : [Block -> [0 .. PTRS - 1 -> Block]],
   dir : [Block -> [entries : Seq([name : STRING, inode : Inode, type : EntryType]),
                    zero : BOOLEAN]]]

IndirectOffByOne_Mutant(img, node, n) ==
  IF n < DIRECT THEN node.direct[n] ELSE
  IF n < PTRS THEN img.ptrs[node.singly_indirect][n - DIRECT + 1] ELSE 0

\* "Returns the nth data block of the inode", 0 if there is none.
ext2_block_in_inode(img, node, n) ==
  IF n < DIRECT THEN node.direct[n] ELSE
  IF n < PTRS THEN img.ptrs[node.singly_indirect][n - DIRECT] ELSE 0

-----------------------------------------------------------------------------
Least(S) == CHOOSE x \in S : \A y \in S : x <= y

\* The loop of ext2_list_files() and ext2_list_folders() ends at the first block
\* that is missing, or behind the first that has an entry of size zero.
ListedBlocks(img, node) ==
  LET addr(n) == ext2_block_in_inode(img, node, n)
      end == Least({n \in 0 .. PTRS : addr(n) = 0 \/ (n > 0 /\ img.dir[addr(n - 1)].zero)})
  IN  {addr(n) : n \in 0 .. end - 1}

\* The entries of a directory; nothing depends on the order of the lists.
Listed(img, i) == UNION {Range(img.dir[b].entries) : b \in ListedBlocks(img, img.ino[i])}

(***************************************************************************)
(* ext2_list_files() copies a file's name up to the next zero byte.  In    *)
(* its entry, that mkfs has padded to a multiple of 4 bytes, there is none *)
(* when the length is such a multiple, and the inode number of the next    *)
(* entry follows.  ext2_list_folders() and the search use name_len.        *)
(***************************************************************************)
Terminated(entries, x) ==
  \/ entries[x].name \notin FullName
  \/ x = Len(entries)
  \/ entries[x + 1].inode % 256 = 0

NamedAsListed(entries, x) ==
  IF Terminated(entries, x) THEN entries[x] ELSE [entries[x] EXCEPT !.name = Overrun]

FilesIn(entries) ==
  {NamedAsListed(entries, x) : x \in {y \in DOMAIN entries : entries[y].type # "dir"}}

ext2_list_files(img, i) ==
  UNION {FilesIn(img.dir[b].entries) : b \in ListedBlocks(img, img.ino[i])}

ext2_list_folders(img, i) == {e \in Listed(img, i) : e.type = "dir"}

Named(img, b, name) == {x \in DOMAIN img.dir[b].entries : img.dir[b].entries[x].name = name}

SearchFirstBlock_Mutant(img, node, name) ==
  LET b == ext2_block_in_inode(img, node, 0)
      at == Named(img, b, name)
  IN  IF at = {} THEN 0 ELSE img.dir[b].entries[Least(at)].inode

(***************************************************************************)
(* ext2_search_dir(): the inode of the first entry with this name, 0 if    *)
(* there is none.  The loop does not look for an entry of size zero, and   *)
(* stays there for ever.                                                   *)
(***************************************************************************)
Forever == -1

ext2_search_dir(img, node, name) ==
  LET addr(n) == ext2_block_in_inode(img, node, n)
      end == Least({n \in 0 .. PTRS : \/ addr(n) = 0
                                      \/ img.dir[addr(n)].zero
                                      \/ Named(img, addr(n), name) # {}})
      at == Named(img, addr(end), name)
  IN  CASE addr(end) = 0 -> 0
        [] addr(end) # 0 /\ at # {} -> img.dir[addr(end)].entries[Least(at)].inode
        [] OTHER -> Forever

\* ext2_open_at() with a single name, which is all that the VFS asks for.
ext2_open_at(img, folder, name) ==
  IF ~img.ino[folder].isDir THEN 0 ELSE ext2_search_dir(img, img.ino[folder], name)

(***************************************************************************)
(* An image as mkfs and earlier calls leave it: the root is a directory,   *)
(* and a file does not use a block twice.                                  *)
(***************************************************************************)
BlocksDiffer(img) ==
  \A i \in Inode : \A n \in 0 .. PTRS - 1 : \A m \in 0 .. n - 1 :
    LET node == img.ino[i]
        b == ext2_block_in_inode(img, node, n)
    IN  n * BlockSize < node.size /\ b # 0 => ext2_block_in_inode(img, node, m) # b

IsImage(img) ==
  /\ img \in ImageType /\ img.ino[RootInode].isDir /\ BlocksDiffer(img)
  /\ Groups * img.inodes_in_group <= NumInodes

-----------------------------------------------------------------------------
\* How many blocks of a bitmap are read and written at a time: none at all when
\* the number of bits is a multiple of BlockSize below 8 * BlockSize.
ToRead(bits) ==
  (bits \div BlockSize) \div 8 + (IF bits % BlockSize = 0 THEN 0 ELSE 1)

InGroup(g, perGroup) == (g * perGroup) .. (g * perGroup + perGroup - 1)

\* The bit that ext2_alloc_inode() and ext2_alloc_blocks() find: the first one
\* that is clear in the groups whose descriptor says that something is free.
NoBit == -1

FirstClear(map, free, perGroup) ==
  LET clear == UNION {InGroup(g, perGroup) \ map : g \in {h \in 0 .. Groups - 1 : free[h] > 0}}
  IN  IF clear = {} THEN NoBit ELSE Least(clear)

=============================================================================
