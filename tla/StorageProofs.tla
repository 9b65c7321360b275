--------------------------- MODULE StorageProofs ---------------------------
(***************************************************************************)
(* Proofs about Storage.                                                   *)
(*                                                                         *)
(* The calls.  FileInv says of the image that it is typed and that no file *)
(* uses a block twice (ImageOK), and of the call in progress how far it is *)
(* (Progress), and what it has read or written so far (HasRead,            *)
(* HasWritten), or that it links an inode (NodOK).  It gives               *)
(* ListedIsFound, ReadIsContent and WriteIsPrefix.                         *)
(*                                                                         *)
(* Boot.  While no device has failed, the list of drives, from its end,    *)
(* has the file systems of the disks and partitions that have been         *)
(* searched, and of the drives that init_fs() has not seen yet together    *)
(* with the list of file systems it has made (BootFound).  It gives        *)
(* StorageOK.                                                              *)
(***************************************************************************)
EXTENDS Storage, NaturalsInduction, WellFoundedInduction, SequenceTheorems, TLAPS

\* Every set of numbers has a least one.
LEMMA LeastNat ==
  ASSUME NEW T, T \subseteq Nat, T # {}
  PROVE  \E x \in T : \A y \in T : x <= y
<1>1. IsWellFoundedOn(OpToRel(<, Nat), Nat)
  BY NatLessThanWellFounded
<1>2. PICK x \in T : \A y \in T : ~(<<y, x>> \in OpToRel(<, Nat))
  BY <1>1, WFMin
<1>3. ASSUME NEW y \in Nat, NEW z \in Nat, y < z PROVE <<y, z>> \in OpToRel(<, Nat)
  <2>1. <<y, z>> \in {ss \in Nat \X Nat : ss[1] < ss[2]}
    BY <1>3
  <2> QED
    BY <2>1 DEF OpToRel
<1>4. \A y \in T : ~(y < x)
  BY <1>2, <1>3
<1> QED
  BY <1>4

\* Least() finds it.
LEMMA LeastIs ==
  ASSUME NEW T, T \subseteq Nat, T # {}
  PROVE  Least(T) \in T /\ \A y \in T : Least(T) <= y
<1>1. \E x \in T : \A y \in T : x <= y
  BY LeastNat
<1> QED
  BY <1>1, Zenon DEF Least

-----------------------------------------------------------------------------
\* The sizes are positive.
LEMMA SizesAre ==
  /\ BlockSize \in Nat /\ BlockSize > 0 /\ NumBlocks \in Nat /\ NumBlocks > 0
  /\ DIRECT \in Nat /\ DIRECT > 0 /\ PTRS \in Nat /\ DIRECT < PTRS
  /\ RootInode \in Inode /\ 0 \in Block
BY Ext2Assumption DEF RootInode, Inode, Block

\* The byte at an offset in a block of a file.
Offset(b, o) == b * BlockSize + o

\* An offset is a number.
LEMMA OffsetNat ==
  ASSUME NEW b \in Nat, NEW o \in Nat
  PROVE  Offset(b, o) \in Nat
BY SizesAre DEF Offset

\* Its block and its place in the block.
LEMMA OffsetSplits ==
  ASSUME NEW n \in Nat
  PROVE  /\ n \div BlockSize \in Nat /\ n % BlockSize \in 0 .. BlockSize - 1
         /\ n = Offset(n \div BlockSize, n % BlockSize)
BY SizesAre DEF Offset

\* Quotient and remainder are unique.
LEMMA OffsetInjective ==
  ASSUME NEW b \in Nat, NEW c \in Nat, NEW o \in 0 .. BlockSize - 1, NEW p \in 0 .. BlockSize - 1,
         Offset(b, o) = Offset(c, p)
  PROVE  b = c /\ o = p
BY SizesAre DEF Offset

\* Every number is the offset of one place in one block.
LEMMA OffsetIs ==
  ASSUME NEW b \in Nat, NEW o \in 0 .. BlockSize - 1
  PROVE  Offset(b, o) \div BlockSize = b /\ Offset(b, o) % BlockSize = o
<1>1. PICK n : n = Offset(b, o)
  OBVIOUS
<1>2. n \in Nat
  BY <1>1, OffsetNat, SizesAre
<1>3. PICK c, p : c = n \div BlockSize /\ p = n % BlockSize
  OBVIOUS
<1>4. c \in Nat /\ p \in 0 .. BlockSize - 1 /\ n = Offset(c, p)
  BY <1>2, <1>3, OffsetSplits
<1>5. Offset(b, o) = Offset(c, p)
  BY <1>1, <1>4
<1>6. b = c /\ o = p
  BY <1>4, <1>5, OffsetInjective
<1> QED
  BY <1>1, <1>3, <1>6

\* A larger offset is in a later block, or behind in the same one.
LEMMA OffsetOrder ==
  ASSUME NEW b \in Nat, NEW c \in Nat, NEW o \in 0 .. BlockSize - 1, NEW p \in 0 .. BlockSize - 1,
         Offset(b, o) < Offset(c, p)
  PROVE  b < c \/ (b = c /\ o < p)
BY SizesAre DEF Offset

\* Some bytes further in the same block.
LEMMA OffsetAdd ==
  ASSUME NEW b \in Nat, NEW o \in Nat, NEW k \in Nat
  PROVE  /\ Offset(b, o + k) = Offset(b, o) + k
         /\ Offset(b, BlockSize) = Offset(b + 1, 0)
         /\ Offset(b, 0) <= Offset(b, o) /\ b * BlockSize = Offset(b, 0)
BY SizesAre DEF Offset

-----------------------------------------------------------------------------
(***************************************************************************)
(* Images.                                                                 *)
(***************************************************************************)
\* The block of an inode by the layout of ext2, as TrueBlock says it of img.
LayoutBlock(m, i, n) ==
  IF n < DIRECT THEN m.ino[i].direct[n] ELSE m.ptrs[m.ino[i].singly_indirect][n - DIRECT]

BlockOf(m, i, n) == ext2_block_in_inode(m, m.ino[i], n)

\* The types of the parts of an image.
LEMMA ImageFields ==
  ASSUME NEW m \in ImageType
  PROVE  /\ m.imap \in SUBSET (0 .. NumInodes - 1)
         /\ m.inodes_in_group \in Nat /\ m.inodes_in_group > 0
         /\ m.bmap \in SUBSET (0 .. Groups * BlocksPerGroup - 1)
         /\ m.data \in [Block -> [1 .. BlockSize -> Byte]]
         /\ m.ptrs \in [Block -> [0 .. PTRS - 1 -> Block]]
         /\ \A i \in Inode : /\ m.ino[i].size \in Nat
                             /\ m.ino[i].direct \in [0 .. DIRECT - 1 -> Block]
                             /\ m.ino[i].singly_indirect \in Block
BY DEF ImageType

\* Every address within reach is a block.
LEMMA BlocksAre ==
  ASSUME NEW m \in ImageType, NEW i \in Inode, NEW n \in Nat
  PROVE  /\ BlockOf(m, i, n) \in Block
         /\ n < PTRS => BlockOf(m, i, n) = LayoutBlock(m, i, n)
         /\ n >= PTRS => BlockOf(m, i, n) = 0
<1>1. CASE n < DIRECT
  BY <1>1, ImageFields, SizesAre DEF BlockOf, ext2_block_in_inode, LayoutBlock
<1>2. CASE n >= DIRECT /\ n < PTRS
  <2>1. n - DIRECT \in 0 .. PTRS - 1
    BY <1>2, SizesAre
  <2> QED
    BY <1>2, <2>1, ImageFields, SizesAre DEF BlockOf, ext2_block_in_inode, LayoutBlock
<1>3. CASE n >= PTRS
  BY <1>3, SizesAre DEF BlockOf, ext2_block_in_inode
<1> QED
  BY <1>1, <1>2, <1>3, SizesAre

\* A block that is found is the one of the layout.
LEMMA FoundBlock ==
  ASSUME NEW m \in ImageType, NEW i \in Inode, NEW n \in Nat, BlockOf(m, i, n) # 0
  PROVE  n < PTRS /\ LayoutBlock(m, i, n) = BlockOf(m, i, n)
BY BlocksAre, SizesAre

\* The blocks of a file differ.
LEMMA OtherBlock ==
  ASSUME NEW m \in ImageType, BlocksDiffer(m), NEW i \in Inode, NEW n \in Nat, NEW k \in Nat,
         BlockOf(m, i, n) # 0, Offset(n, 0) < m.ino[i].size, k < n
  PROVE  LayoutBlock(m, i, k) # BlockOf(m, i, n) /\ LayoutBlock(m, i, k) \in Block
<1>1. n < PTRS
  BY FoundBlock
<1>2. BlockOf(m, i, k) # BlockOf(m, i, n)
  BY <1>1, SizesAre, OffsetAdd DEF BlocksDiffer, BlockOf, Offset
<1> QED
  BY <1>1, <1>2, BlocksAre, SizesAre

\* A byte of a file, as Content says it of img.
ByteAt(m, i, n) ==
  m.data[LayoutBlock(m, i, n \div BlockSize)][(n % BlockSize) + 1]

FileCall ==
  [op : {"read", "write"}, at : {"inode", "loop", "return"}, ino : Inode, pos : Nat, off : Nat,
   bytes : Nat, block : Nat, done : Nat, out : Seq(Byte), ret : Int,
   buf : [1 .. BlockSize -> Byte], old : [Block -> [1 .. BlockSize -> Byte]]]

\* Where the loop is: the next byte is number pos + done, and all that is still
\* to do is within the file.
Progress(m, c) ==
  /\ c.at = "inode" => c.off = c.pos /\ c.done = 0
  /\ c.at = "loop" => /\ c.pos + c.done + c.bytes <= m.ino[c.ino].size
                      /\ c.off < BlockSize /\ (c.done > 0 => c.off = 0)
                      /\ c.bytes > 0 => Offset(c.block, c.off) = c.pos + c.done
  /\ c.done > 0 => c.pos + c.done <= m.ino[c.ino].size
  /\ c.at = "return" => c.ret <= 0 \/ c.ret = c.done

\* What has been read is what the file has.
HasRead(m, c) ==
  /\ Len(c.out) = c.done
  /\ \A k \in 1 .. c.done : c.out[k] = ByteAt(m, c.ino, c.pos + k - 1)

FirstBlock(c) == c.pos \div BlockSize

LastBlock(c) == IF c.bytes > 0 THEN c.block ELSE c.block - 1

Touched(m, c, b) ==
  \E n \in Nat : /\ FirstBlock(c) <= n /\ n <= LastBlock(c) /\ n * BlockSize < m.ino[c.ino].size
                 /\ b = LayoutBlock(m, c.ino, n)

\* What has been written, and what has been left alone.
HasWritten(m, c) ==
  /\ \A k \in 1 .. c.done : ByteAt(m, c.ino, c.pos + k - 1) = NewByte
  /\ \A b \in Block : m.data[b] = c.old[b] \/ Touched(m, c, b)
  /\ \A x \in 1 .. c.pos % BlockSize :
       m.data[LayoutBlock(m, c.ino, FirstBlock(c))][x] = c.old[LayoutBlock(m, c.ino, FirstBlock(c))][x]
  /\ c.at # "return" /\ c.done = 0 => m.data = c.old

-----------------------------------------------------------------------------
Copy(c) == IF BlockSize - c.off > c.bytes THEN c.bytes ELSE BlockSize - c.off

Turned(c, buf, out) ==
  [c EXCEPT !.bytes = @ - Copy(c), !.done = @ + Copy(c), !.off = 0,
            !.block = @ + 1, !.buf = buf, !.out = out]

InTurn(m, c) == c \in FileCall /\ Progress(m, c) /\ c.at = "loop" /\ c.bytes > 0

\* The types of the local variables of a read or a write.
LEMMA FileCallFields ==
  ASSUME NEW c \in FileCall
  PROVE  /\ c.op \in {"read", "write"} /\ c.at \in {"inode", "loop", "return"}
         /\ c.ino \in Inode /\ c.pos \in Nat /\ c.off \in Nat /\ c.bytes \in Nat
         /\ c.block \in Nat /\ c.done \in Nat /\ c.out \in Seq(Byte) /\ c.ret \in Int
         /\ c.buf \in [1 .. BlockSize -> Byte] /\ c.old \in [Block -> [1 .. BlockSize -> Byte]]
BY DEF FileCall

\* How much a turn copies.
LEMMA CopyIs ==
  ASSUME NEW m \in ImageType, NEW c, InTurn(m, c)
  PROVE  /\ Copy(c) \in Nat /\ 0 < Copy(c) /\ Copy(c) <= c.bytes
         /\ c.off + Copy(c) <= BlockSize
         /\ Copy(c) < c.bytes => c.off + Copy(c) = BlockSize
         /\ c.off \in 0 .. BlockSize - 1
BY FileCallFields, SizesAre DEF InTurn, Progress, Copy

\* What a turn does to the local variables.
LEMMA TurnedIs ==
  ASSUME NEW m \in ImageType, NEW c, InTurn(m, c),
         NEW buf \in [1 .. BlockSize -> Byte], NEW out \in Seq(Byte)
  PROVE  LET d == Turned(c, buf, out)
         IN  /\ d \in FileCall /\ d.op = c.op /\ d.at = c.at /\ d.ino = c.ino /\ d.pos = c.pos
             /\ d.off = 0 /\ d.bytes = c.bytes - Copy(c) /\ d.block = c.block + 1
             /\ d.done = c.done + Copy(c) /\ d.out = out /\ d.ret = c.ret /\ d.buf = buf
             /\ d.old = c.old
<1>1. PICK k : k = Copy(c)
  OBVIOUS
<1>2. PICK left, done, next : left = c.bytes - k /\ done = c.done + k /\ next = c.block + 1
  OBVIOUS
<1>3. c \in FileCall
  BY DEF InTurn
<1>4. left \in Nat /\ done \in Nat /\ next \in Nat
  <2>1. k \in Nat /\ k <= c.bytes
    BY <1>1, CopyIs
  <2>2. c.bytes \in Nat /\ c.done \in Nat /\ c.block \in Nat
    BY <1>3, FileCallFields
  <2>3. PICK b, d, n : b = c.bytes /\ d = c.done /\ n = c.block
    OBVIOUS
  <2>4. b - k \in Nat /\ d + k \in Nat /\ n + 1 \in Nat
    BY <2>1, <2>2, <2>3
  <2> QED
    BY <1>2, <2>3, <2>4
<1>5. PICK d : d = Turned(c, buf, out)
  OBVIOUS
<1>6. d = [c EXCEPT !.bytes = left, !.done = done, !.off = 0,
                    !.block = next, !.buf = buf, !.out = out]
  BY <1>1, <1>2, <1>3, <1>5 DEF Turned, FileCall
<1>7. d = [op |-> c.op, at |-> c.at, ino |-> c.ino, pos |-> c.pos, off |-> 0, bytes |-> left,
           block |-> next, done |-> done, out |-> out, ret |-> c.ret, buf |-> buf, old |-> c.old]
  BY <1>3, <1>6 DEF FileCall
<1>8. /\ d.op = c.op /\ d.at = c.at /\ d.ino = c.ino /\ d.pos = c.pos
      /\ d.off = 0 /\ d.bytes = left /\ d.block = next /\ d.done = done
      /\ d.out = out /\ d.ret = c.ret /\ d.buf = buf /\ d.old = c.old
  BY <1>7
<1>9. d \in FileCall
  BY <1>3, <1>4, <1>7, FileCallFields DEF FileCall
<1> QED
  BY <1>1, <1>2, <1>5, <1>8, <1>9

\* The loop is where it should be after the turn.
LEMMA TurnProgress ==
  ASSUME NEW m \in ImageType, NEW c, InTurn(m, c),
         NEW buf \in [1 .. BlockSize -> Byte], NEW out \in Seq(Byte),
         NEW m2 \in ImageType, m2.ino = m.ino
  PROVE  Progress(m2, Turned(c, buf, out))
<1>1. PICK d : d = Turned(c, buf, out)
  OBVIOUS
<1>2. PICK k : k = Copy(c)
  OBVIOUS
<1>3. /\ d.at = "loop" /\ d.ino = c.ino /\ d.pos = c.pos /\ d.off = 0
      /\ d.bytes = c.bytes - k /\ d.block = c.block + 1 /\ d.done = c.done + k
  BY <1>1, <1>2, TurnedIs DEF InTurn
<1>4. /\ k \in Nat /\ 0 < k /\ k <= c.bytes /\ (k < c.bytes => c.off + k = BlockSize)
  BY <1>2, CopyIs
<1>5. c.ino \in Inode /\ c.pos \in Nat /\ c.off \in Nat /\ c.bytes \in Nat /\ c.block \in Nat
      /\ c.done \in Nat
  BY FileCallFields DEF InTurn
<1>6. /\ c.pos + c.done + c.bytes <= m.ino[c.ino].size /\ Offset(c.block, c.off) = c.pos + c.done
  BY DEF InTurn, Progress
<1>7. m.ino[c.ino].size \in Nat
  BY <1>5, ImageFields
<1>8. c.pos + d.done <= m.ino[c.ino].size /\ c.pos + d.done + d.bytes <= m.ino[c.ino].size
  <2>1. PICK p, q, r : p = c.pos /\ q = c.done /\ r = c.bytes
    OBVIOUS
  <2>2. p \in Nat /\ q \in Nat /\ r \in Nat /\ k \in Nat /\ k <= r
    BY <1>4, <1>5, <2>1
  <2>3. p + (q + k) + (r - k) = p + q + r /\ p + (q + k) <= p + q + r
    BY <2>2
  <2>4. c.pos + d.done = p + (q + k) /\ c.pos + d.done + d.bytes = p + (q + k) + (r - k)
    BY <1>3, <2>1
  <2>5. PICK z : z = m.ino[c.ino].size
    OBVIOUS
  <2>6. z \in Nat /\ p + q + r <= z
    BY <1>6, <1>7, <2>1, <2>5
  <2>7. p + (q + k) <= z /\ p + (q + k) + (r - k) <= z
    BY <2>2, <2>3, <2>6
  <2> QED
    BY <2>4, <2>5, <2>7
<1>9. ASSUME d.bytes > 0 PROVE Offset(d.block, d.off) = c.pos + d.done
  <2>1. c.off + k = BlockSize
    BY <1>3, <1>4, <1>5, <1>9
  <2>2. Offset(c.block, c.off + k) = Offset(c.block, c.off) + k
    <3>1. PICK off, block : off = c.off /\ block = c.block
      OBVIOUS
    <3>2. k \in Nat /\ off \in Nat /\ block \in Nat
      BY <1>4, <1>5, <3>1
    <3>3. Offset(block, off + k) = Offset(block, off) + k
      BY <3>2, OffsetAdd
    <3> QED
      BY <3>1, <3>3
  <2>3. Offset(c.block, BlockSize) = Offset(c.block + 1, 0)
    BY <1>5, OffsetAdd, SizesAre
  <2> QED
    BY <1>3, <1>4, <1>5, <1>6, <2>1, <2>2, <2>3
<1>10. Progress(m2, d)
  BY <1>3, <1>8, <1>9, SizesAre DEF Progress
<1> QED
  BY <1>1, <1>10

-----------------------------------------------------------------------------
\* Where the bytes of a turn are.
LEMMA TurnBytes ==
  ASSUME NEW m \in ImageType, NEW c, InTurn(m, c), NEW j \in 1 .. Copy(c)
  PROVE  /\ (c.pos + c.done + j - 1) \div BlockSize = c.block
         /\ (c.pos + c.done + j - 1) % BlockSize = c.off + j - 1
<1>1. c.pos \in Nat /\ c.off \in Nat /\ c.block \in Nat /\ c.done \in Nat /\ j \in Nat /\ j > 0
  BY FileCallFields, CopyIs DEF InTurn
<1>2. c.off + (j - 1) \in 0 .. BlockSize - 1 /\ j - 1 \in Nat
  BY <1>1, CopyIs, SizesAre
<1>3. Offset(c.block, c.off + (j - 1)) = c.pos + c.done + (j - 1)
  <2>1. Offset(c.block, c.off) = c.pos + c.done
    BY DEF InTurn, Progress
  <2>2. Offset(c.block, c.off + (j - 1)) = Offset(c.block, c.off) + (j - 1)
    <3>1. PICK n, off, block : n = j - 1 /\ off = c.off /\ block = c.block
      OBVIOUS
    <3>2. n \in Nat /\ off \in Nat /\ block \in Nat
      BY <1>1, <1>2, <3>1
    <3>3. Offset(block, off + n) = Offset(block, off) + n
      BY <3>2, OffsetAdd
    <3> QED
      BY <3>1, <3>3
  <2> QED
    BY <2>1, <2>2
<1>4. PICK o : o = c.off + (j - 1)
  OBVIOUS
<1>5. Offset(c.block, o) \div BlockSize = c.block /\ Offset(c.block, o) % BlockSize = o
  BY <1>1, <1>2, <1>4, OffsetIs
<1>6. c.pos + c.done + j - 1 = c.pos + c.done + (j - 1) /\ c.off + j - 1 = c.off + (j - 1)
  BY <1>1
<1> QED
  BY <1>3, <1>4, <1>5, <1>6

\* The current block is within the file, and not before the first one; the
\* bytes of earlier turns are in earlier blocks.
LEMMA TurnBlock ==
  ASSUME NEW m \in ImageType, NEW c, InTurn(m, c)
  PROVE  /\ Offset(c.block, 0) < m.ino[c.ino].size
         /\ FirstBlock(c) \in Nat /\ FirstBlock(c) <= c.block
         /\ c.done = 0 => FirstBlock(c) = c.block /\ c.pos % BlockSize = c.off
         /\ c.done > 0 => FirstBlock(c) < c.block
         /\ \A k \in 1 .. c.done : /\ (c.pos + k - 1) \div BlockSize \in Nat
                                   /\ (c.pos + k - 1) \div BlockSize < c.block
<1>1. /\ c.ino \in Inode /\ c.pos \in Nat /\ c.off \in 0 .. BlockSize - 1 /\ c.block \in Nat
      /\ c.done \in Nat /\ c.bytes \in Nat /\ c.bytes > 0 /\ m.ino[c.ino].size \in Nat
  BY FileCallFields, CopyIs, ImageFields DEF InTurn
<1>2. /\ Offset(c.block, c.off) = c.pos + c.done /\ (c.done > 0 => c.off = 0)
      /\ c.pos + c.done + c.bytes <= m.ino[c.ino].size
  BY DEF InTurn, Progress
<1>3. Offset(c.block, 0) <= Offset(c.block, c.off) /\ Offset(c.block, 0) \in Nat
  <2>1. c.off \in Nat
    BY <1>1, SizesAre
  <2> QED
    BY <1>1, <2>1, OffsetAdd, OffsetNat
<1>4. ASSUME NEW n \in Nat, n < c.pos + c.done, c.done > 0
      PROVE  n \div BlockSize \in Nat /\ n \div BlockSize < c.block
  <2>1. PICK b, o : b = n \div BlockSize /\ o = n % BlockSize
    OBVIOUS
  <2>2. b \in Nat /\ o \in 0 .. BlockSize - 1 /\ n = Offset(b, o)
    BY <2>1, OffsetSplits
  <2>3. Offset(b, o) < Offset(c.block, 0)
    BY <1>2, <1>4, <2>2
  <2>4. b < c.block \/ (b = c.block /\ o < 0)
    BY <1>1, <2>2, <2>3, OffsetOrder, SizesAre
  <2> QED
    BY <2>1, <2>2, <2>4
<1>5. Offset(c.block, 0) < m.ino[c.ino].size
  BY <1>1, <1>2, <1>3
<1>6. ASSUME NEW k \in 1 .. c.done
      PROVE  /\ (c.pos + k - 1) \div BlockSize \in Nat /\ (c.pos + k - 1) \div BlockSize < c.block
  <2>1. c.pos + k - 1 \in Nat /\ c.pos + k - 1 < c.pos + c.done /\ c.done > 0
    BY <1>1, <1>6
  <2> QED
    BY <1>4, <2>1
<1>7. c.done > 0 => FirstBlock(c) \in Nat /\ FirstBlock(c) < c.block
  BY <1>1, <1>4 DEF FirstBlock
<1>8. ASSUME c.done = 0 PROVE FirstBlock(c) = c.block /\ c.pos % BlockSize = c.off
  <2>1. c.pos = Offset(c.block, c.off)
    BY <1>1, <1>2, <1>8
  <2> QED
    BY <1>1, <2>1, OffsetIs DEF FirstBlock
<1> QED
  BY <1>1, <1>5, <1>6, <1>7, <1>8

\* A function on 1 .. n is a sequence.
LEMMA FunctionIsSeq ==
  ASSUME NEW n \in Nat, NEW S, NEW f \in [1 .. n -> S]
  PROVE  f \in Seq(S) /\ Len(f) = n
OBVIOUS

\* What is in a sequence with one element more.
LEMMA OneMore ==
  ASSUME NEW S, NEW s \in Seq(S), NEW e \in S
  PROVE  /\ Append(s, e) \in Seq(S)
         /\ \A x \in DOMAIN Append(s, e) :
              Append(s, e)[x] = e \/ (x \in DOMAIN s /\ Append(s, e)[x] = s[x])
<1>1. Len(s) \in Nat /\ DOMAIN s = 1 .. Len(s)
  OBVIOUS
<1>2. Append(s, e) \in Seq(S) /\ DOMAIN Append(s, e) = 1 .. Len(s) + 1
  BY <1>1
<1>3. ASSUME NEW x \in 1 .. Len(s) + 1
      PROVE  Append(s, e)[x] = e \/ (x \in DOMAIN s /\ Append(s, e)[x] = s[x])
  <2>1. CASE x = Len(s) + 1
    BY <2>1
  <2>2. CASE x \in 1 .. Len(s)
    BY <1>1, <2>2
  <2> QED
    BY <1>1, <2>1, <2>2
<1> QED
  BY <1>2, <1>3

\* What a concatenation is.
LEMMA Appended ==
  ASSUME NEW S, NEW s \in Seq(S), NEW t \in Seq(S)
  PROVE  /\ s \o t \in Seq(S) /\ Len(s \o t) = Len(s) + Len(t)
         /\ \A i \in 1 .. Len(s) : (s \o t)[i] = s[i]
         /\ \A j \in 1 .. Len(t) : (s \o t)[Len(s) + j] = t[j]
<1>1. s \o t \in Seq(S) /\ Len(s \o t) = Len(s) + Len(t) /\ Len(s) \in Nat /\ Len(t) \in Nat
  OBVIOUS
<1>2. ASSUME NEW i \in 1 .. Len(s) PROVE (s \o t)[i] = s[i]
  BY <1>1
<1>3. ASSUME NEW j \in 1 .. Len(t) PROVE (s \o t)[Len(s) + j] = t[j]
  <2>1. PICK x : x = Len(s) + j
    OBVIOUS
  <2>2. x \in 1 .. Len(s) + Len(t) /\ ~(x <= Len(s)) /\ x - Len(s) = j
    BY <1>1, <2>1
  <2>3. (s \o t)[x] = t[x - Len(s)]
    BY <1>1, <2>2
  <2> QED
    BY <2>1, <2>2, <2>3
<1> QED
  BY <1>1, <1>2, <1>3

\* What is appended to the caller's buffer.
Got(m, c, a) == SubSeq(m.data[a], c.off + 1, c.off + Copy(c))

\* What a turn of ext2_read_file() copies out of a block.
LEMMA GotIs ==
  ASSUME NEW m \in ImageType, NEW c, InTurn(m, c), NEW a \in Block
  PROVE  /\ Got(m, c, a) \in Seq(Byte) /\ Len(Got(m, c, a)) = Copy(c)
         /\ \A j \in 1 .. Copy(c) : Got(m, c, a)[j] = m.data[a][c.off + j]
<1>1. PICK s : s = m.data[a]
  OBVIOUS
<1>2. s \in [1 .. BlockSize -> Byte]
  BY <1>1, ImageFields
<1>3. s \in Seq(Byte) /\ Len(s) = BlockSize
  BY <1>2, SizesAre, FunctionIsSeq
<1>4. PICK k, o : k = Copy(c) /\ o = c.off
  OBVIOUS
<1>5. k \in Nat /\ o \in Nat /\ k > 0 /\ o + k <= BlockSize
  BY <1>4, CopyIs, SizesAre
<1>6. PICK g : g = SubSeq(s, o + 1, o + k)
  OBVIOUS
<1>7. g \in Seq(Byte) /\ Len(g) = k
  BY <1>3, <1>5, <1>6, SizesAre
<1>8. \A j \in 1 .. k : g[j] = s[o + j]
  BY <1>3, <1>5, <1>6, SizesAre
<1>9. Got(m, c, a) = g
  BY <1>1, <1>4, <1>6 DEF Got
<1> QED
  BY <1>1, <1>4, <1>7, <1>8, <1>9

\* A turn of a read reads on.
LEMMA ReadTurnKeeps ==
  ASSUME NEW m \in ImageType, NEW c, InTurn(m, c), HasRead(m, c),
         NEW a, a = BlockOf(m, c.ino, c.block), a # 0
  PROVE  /\ m.data[a] \in [1 .. BlockSize -> Byte] /\ c.out \o Got(m, c, a) \in Seq(Byte)
         /\ HasRead(m, Turned(c, m.data[a], c.out \o Got(m, c, a)))
<1>1. /\ c.ino \in Inode /\ c.block \in Nat /\ c.out \in Seq(Byte) /\ c.done \in Nat
      /\ c.pos \in Nat
  BY FileCallFields DEF InTurn
<1>2. a \in Block /\ a = LayoutBlock(m, c.ino, c.block)
  BY <1>1, BlocksAre, FoundBlock
<1>3. m.data[a] \in [1 .. BlockSize -> Byte]
  BY <1>2, ImageFields
<1>4. PICK g, k : g = Got(m, c, a) /\ k = Copy(c)
  OBVIOUS
<1>5. /\ g \in Seq(Byte) /\ Len(g) = k /\ \A j \in 1 .. k : g[j] = m.data[a][c.off + j]
      /\ k \in Nat /\ c.off \in Nat
  BY <1>2, <1>4, GotIs, CopyIs, SizesAre
<1>6. PICK out : out = c.out \o g
  OBVIOUS
<1>7. Len(c.out) = c.done /\ \A j \in 1 .. c.done : c.out[j] = ByteAt(m, c.ino, c.pos + j - 1)
  BY DEF HasRead
<1>8. /\ out \in Seq(Byte) /\ Len(out) = c.done + k
      /\ \A x \in 1 .. c.done : out[x] = c.out[x]
      /\ \A j \in 1 .. k : out[c.done + j] = g[j]
  <2>1. /\ out \in Seq(Byte) /\ Len(out) = Len(c.out) + Len(g)
        /\ \A x \in 1 .. Len(c.out) : out[x] = c.out[x]
        /\ \A j \in 1 .. Len(g) : out[Len(c.out) + j] = g[j]
    <3>1. PICK q : q = c.out
      OBVIOUS
    <3>2. q \in Seq(Byte) /\ g \in Seq(Byte)
      BY <1>1, <1>5, <3>1
    <3>3. /\ q \o g \in Seq(Byte) /\ Len(q \o g) = Len(q) + Len(g)
          /\ \A x \in 1 .. Len(q) : (q \o g)[x] = q[x]
          /\ \A j \in 1 .. Len(g) : (q \o g)[Len(q) + j] = g[j]
      BY <3>2, Appended
    <3>4. out = q \o g
      BY <1>6, <3>1
    <3> QED
      BY <3>1, <3>3, <3>4
  <2> QED
    BY <1>5, <1>7, <2>1
<1>9. PICK d : d = Turned(c, m.data[a], out)
  OBVIOUS
<1>10. d.ino = c.ino /\ d.pos = c.pos /\ d.done = c.done + k /\ d.out = out
  BY <1>3, <1>4, <1>8, <1>9, TurnedIs
<1>11. ASSUME NEW x \in 1 .. c.done + k PROVE out[x] = ByteAt(m, c.ino, c.pos + x - 1)
  <2>1. CASE x <= c.done
    BY <1>1, <1>7, <1>8, <2>1
  <2>2. CASE x > c.done
    <3>1. PICK j : j = x - c.done
      OBVIOUS
    <3>2. j \in 1 .. k /\ x = c.done + j
      BY <1>1, <1>5, <2>2, <3>1
    <3>3. out[x] = g[j]
      BY <1>8, <3>2
    <3>4. /\ (c.pos + c.done + j - 1) \div BlockSize = c.block
          /\ (c.pos + c.done + j - 1) % BlockSize = c.off + j - 1
      BY <1>4, <3>2, TurnBytes
    <3>5. c.pos + x - 1 = c.pos + c.done + j - 1 /\ (c.off + j - 1) + 1 = c.off + j
      <4>1. PICK pos, done, off : pos = c.pos /\ done = c.done /\ off = c.off
        OBVIOUS
      <4>2. pos \in Nat /\ done \in Nat /\ off \in Nat /\ j \in Int /\ x = done + j
        BY <1>1, <1>5, <3>2, <4>1
      <4>3. pos + x - 1 = pos + done + j - 1 /\ (off + j - 1) + 1 = off + j
        BY <4>2
      <4> QED
        BY <4>1, <4>3
    <3>6. ByteAt(m, c.ino, c.pos + x - 1) = m.data[a][c.off + j]
      <4>1. PICK n : n = c.pos + x - 1
        OBVIOUS
      <4>2. n \div BlockSize = c.block /\ (n % BlockSize) + 1 = c.off + j
        BY <3>4, <3>5, <4>1
      <4>3. ByteAt(m, c.ino, c.pos + x - 1) = m.data[LayoutBlock(m, c.ino, n \div BlockSize)][(n % BlockSize) + 1]
        BY <4>1 DEF ByteAt
      <4> QED
        BY <1>2, <4>2, <4>3
    <3> QED
      BY <1>5, <3>2, <3>3, <3>6
  <2> QED
    BY <1>1, <1>5, <2>1, <2>2
<1>12. HasRead(m, d)
  BY <1>8, <1>10, <1>11 DEF HasRead
<1> QED
  BY <1>3, <1>4, <1>6, <1>8, <1>9, <1>12

-----------------------------------------------------------------------------
Stored(m, a, buf) == [m EXCEPT !.data[a] = buf]

\* A write stores to one block.
LEMMA StoredIs ==
  ASSUME NEW m \in ImageType, NEW a \in Block, NEW buf \in [1 .. BlockSize -> Byte]
  PROVE  LET m2 == Stored(m, a, buf)
         IN  /\ m2 \in ImageType /\ m2.ino = m.ino /\ m2.ptrs = m.ptrs /\ m2.dir = m.dir
             /\ m2.imap = m.imap /\ m2.bmap = m.bmap /\ m2.inodes_in_group = m.inodes_in_group
             /\ m2.data[a] = buf /\ \A b \in Block : b # a => m2.data[b] = m.data[b]
<1>1. PICK data : data = [m.data EXCEPT ![a] = buf]
  OBVIOUS
<1>2. data \in [Block -> [1 .. BlockSize -> Byte]]
  BY <1>1, ImageFields
<1>3. data[a] = buf /\ \A b \in Block : b # a => data[b] = m.data[b]
  BY <1>1, ImageFields
<1>4. Stored(m, a, buf) = [m EXCEPT !.data = data]
  BY <1>1 DEF Stored, ImageType
<1>5. Stored(m, a, buf) = [imap |-> m.imap, bmap |-> m.bmap, ifree |-> m.ifree, bfree |-> m.bfree,
                           ino |-> m.ino, data |-> data, ptrs |-> m.ptrs, dir |-> m.dir,
                           inodes_in_group |-> m.inodes_in_group]
  BY <1>4 DEF ImageType
<1>6. Stored(m, a, buf) \in ImageType
  <2>1. PICK a1, a2, a3, a4, a5, a6, a7, a8 :
          /\ a1 = m.imap /\ a2 = m.bmap /\ a3 = m.ifree /\ a4 = m.bfree /\ a5 = m.ino
          /\ a6 = m.ptrs /\ a7 = m.dir /\ a8 = m.inodes_in_group
    OBVIOUS
  <2>2. [imap |-> a1, bmap |-> a2, ifree |-> a3, bfree |-> a4, ino |-> a5, data |-> m.data,
         ptrs |-> a6, dir |-> a7, inodes_in_group |-> a8] \in ImageType
    BY <2>1 DEF ImageType
  <2>3. [imap |-> a1, bmap |-> a2, ifree |-> a3, bfree |-> a4, ino |-> a5, data |-> data,
         ptrs |-> a6, dir |-> a7, inodes_in_group |-> a8] \in ImageType
    BY <1>2, <2>2 DEF ImageType
  <2> QED
    BY <1>5, <2>1, <2>3
<1> QED
  BY <1>3, <1>5, <1>6

\* The buffer that a turn of a write stores.
Filled(m, c, a) ==
  [x \in 1 .. BlockSize |->
     IF x \in c.off + 1 .. c.off + Copy(c) THEN NewByte
     ELSE (IF c.off > 0 THEN m.data[a] ELSE c.buf)[x]]

\* What a turn of ext2_write_file() puts into its buffer.
LEMMA FilledIs ==
  ASSUME NEW m \in ImageType, NEW c, InTurn(m, c), NEW a \in Block
  PROVE  /\ Filled(m, c, a) \in [1 .. BlockSize -> Byte]
         /\ \A j \in 1 .. Copy(c) : Filled(m, c, a)[c.off + j] = NewByte
         /\ \A x \in 1 .. c.off : Filled(m, c, a)[x] = m.data[a][x]
<1>1. PICK k, o, base : /\ k = Copy(c) /\ o = c.off
                        /\ base = IF c.off > 0 THEN m.data[a] ELSE c.buf
  OBVIOUS
<1>2. k \in Nat /\ o \in Nat /\ o + k <= BlockSize
  BY <1>1, CopyIs, SizesAre
<1>3. m.data[a] \in [1 .. BlockSize -> Byte] /\ c.buf \in [1 .. BlockSize -> Byte]
  BY ImageFields, FileCallFields DEF InTurn
<1>4. base \in [1 .. BlockSize -> Byte] /\ (o > 0 => base = m.data[a])
  BY <1>1, <1>3
<1>5. NewByte \in Byte
  BY StorageAssumption
<1>6. PICK f : f = [x \in 1 .. BlockSize |-> IF x \in o + 1 .. o + k THEN NewByte ELSE base[x]]
  OBVIOUS
<1>7. Filled(m, c, a) = f
  BY <1>1, <1>6 DEF Filled
<1>8. f \in [1 .. BlockSize -> Byte]
  BY <1>4, <1>5, <1>6
<1>9. \A j \in 1 .. k : f[o + j] = NewByte
  BY <1>2, <1>6, SizesAre
<1>10. \A x \in 1 .. o : f[x] = m.data[a][x]
  BY <1>2, <1>4, <1>6, SizesAre
<1> QED
  BY <1>1, <1>7, <1>8, <1>9, <1>10

\* The layout does not depend on the data.
LEMMA SameLayout ==
  ASSUME NEW m, NEW m2, m2.ino = m.ino, m2.ptrs = m.ptrs
  PROVE  /\ \A i, n : LayoutBlock(m2, i, n) = LayoutBlock(m, i, n) /\ BlockOf(m2, i, n) = BlockOf(m, i, n)
         /\ BlocksDiffer(m) => BlocksDiffer(m2)
<1>1. \A i, n : LayoutBlock(m2, i, n) = LayoutBlock(m, i, n)
  BY DEF LayoutBlock
<1>2. \A i, n : ext2_block_in_inode(m2, m2.ino[i], n) = ext2_block_in_inode(m, m.ino[i], n)
  BY DEF ext2_block_in_inode
<1> QED
  BY <1>1, <1>2 DEF BlockOf, BlocksDiffer

TurnStored(m, c, m2) ==
  /\ m2 \in ImageType /\ m2.ino = m.ino /\ m2.ptrs = m.ptrs /\ m2.dir = m.dir
  /\ m2.inodes_in_group = m.inodes_in_group
  /\ \A k \in 1 .. c.done : ByteAt(m2, c.ino, c.pos + k - 1) = NewByte
  /\ \A j \in 1 .. Copy(c) : ByteAt(m2, c.ino, c.pos + c.done + j - 1) = NewByte
  /\ \A b \in Block : m2.data[b] = c.old[b] \/ Touched(m, c, b)
  /\ \A x \in 1 .. c.pos % BlockSize :
       m2.data[LayoutBlock(m, c.ino, FirstBlock(c))][x] = c.old[LayoutBlock(m, c.ino, FirstBlock(c))][x]

\* Storing the filled buffer adds the bytes of the turn, and touches nothing
\* before the offset, nor any other block.
LEMMA StoreKeeps ==
  ASSUME NEW m \in ImageType, NEW c, InTurn(m, c), BlocksDiffer(m), HasWritten(m, c),
         NEW a, a = BlockOf(m, c.ino, c.block), a # 0,
         NEW m2, m2 = Stored(m, a, Filled(m, c, a))
  PROVE  TurnStored(m, c, m2)
<1>1. /\ c.ino \in Inode /\ c.block \in Nat /\ c.done \in Nat /\ c.pos \in Nat /\ c.bytes > 0
  BY FileCallFields DEF InTurn
<1>2. a \in Block /\ a = LayoutBlock(m, c.ino, c.block)
  BY <1>1, BlocksAre, FoundBlock
<1>3. PICK buf : buf = Filled(m, c, a)
  OBVIOUS
<1>4. /\ buf \in [1 .. BlockSize -> Byte]
      /\ \A j \in 1 .. Copy(c) : buf[c.off + j] = NewByte
      /\ \A x \in 1 .. c.off : buf[x] = m.data[a][x]
  BY <1>2, <1>3, FilledIs
<1>5. /\ m2 \in ImageType /\ m2.ino = m.ino /\ m2.ptrs = m.ptrs /\ m2.dir = m.dir
      /\ m2.inodes_in_group = m.inodes_in_group
      /\ m2.data[a] = buf /\ \A b \in Block : b # a => m2.data[b] = m.data[b]
  BY <1>2, <1>3, <1>4, StoredIs
<1>6. \A i, n : LayoutBlock(m2, i, n) = LayoutBlock(m, i, n)
  BY <1>5, SameLayout
<1>7. /\ Offset(c.block, 0) < m.ino[c.ino].size
      /\ FirstBlock(c) \in Nat /\ FirstBlock(c) <= c.block
      /\ c.done = 0 => FirstBlock(c) = c.block /\ c.pos % BlockSize = c.off
      /\ c.done > 0 => FirstBlock(c) < c.block
  BY TurnBlock
<1>8. ASSUME NEW n \in Nat, n < c.block
      PROVE  LayoutBlock(m, c.ino, n) # a /\ LayoutBlock(m, c.ino, n) \in Block
             /\ m2.data[LayoutBlock(m, c.ino, n)] = m.data[LayoutBlock(m, c.ino, n)]
  <2>1. LayoutBlock(m, c.ino, n) # a /\ LayoutBlock(m, c.ino, n) \in Block
    BY <1>1, <1>7, <1>8, OtherBlock
  <2> QED
    BY <1>5, <2>1
<1>9. ASSUME NEW k \in 1 .. c.done PROVE ByteAt(m2, c.ino, c.pos + k - 1) = NewByte
  <2>1. PICK n : n = c.pos + k - 1
    OBVIOUS
  <2>2. n \div BlockSize \in Nat /\ n \div BlockSize < c.block
    BY <2>1, TurnBlock
  <2>3. ByteAt(m2, c.ino, n) = ByteAt(m, c.ino, n)
    BY <1>6, <1>8, <2>2 DEF ByteAt
  <2> QED
    BY <2>1, <2>3 DEF HasWritten
<1>10. ASSUME NEW j \in 1 .. Copy(c) PROVE ByteAt(m2, c.ino, c.pos + c.done + j - 1) = NewByte
  <2>1. PICK n : n = c.pos + c.done + j - 1
    OBVIOUS
  <2>2. n \div BlockSize = c.block /\ n % BlockSize = c.off + j - 1
    BY <2>1, TurnBytes
  <2>3. (n % BlockSize) + 1 = c.off + j
    <3>1. c.off \in Nat /\ j \in Nat
      BY CopyIs, SizesAre
    <3> QED
      BY <2>2, <3>1
  <2>4. ByteAt(m2, c.ino, n) = buf[c.off + j]
    BY <1>2, <1>5, <1>6, <2>2, <2>3 DEF ByteAt
  <2> QED
    BY <1>4, <2>1, <2>4
<1>11. ASSUME NEW b \in Block PROVE m2.data[b] = c.old[b] \/ Touched(m, c, b)
  <2>1. CASE b = a
    <3>1. c.block * BlockSize < m.ino[c.ino].size
      BY <1>1, <1>7, OffsetAdd
    <3>2. LastBlock(c) = c.block
      BY <1>1 DEF LastBlock
    <3> QED
      BY <1>1, <1>2, <1>7, <2>1, <3>1, <3>2 DEF Touched
  <2>2. CASE b # a
    BY <1>5, <2>2 DEF HasWritten
  <2> QED
    BY <2>1, <2>2
<1>12. ASSUME NEW x \in 1 .. c.pos % BlockSize
       PROVE  m2.data[LayoutBlock(m, c.ino, FirstBlock(c))][x] = c.old[LayoutBlock(m, c.ino, FirstBlock(c))][x]
  <2>1. CASE c.done = 0
    <3>1. LayoutBlock(m, c.ino, FirstBlock(c)) = a /\ x \in 1 .. c.off
      BY <1>2, <1>7, <2>1
    <3>2. m.data[a][x] = c.old[a][x]
      BY <3>1 DEF HasWritten
    <3> QED
      BY <1>4, <1>5, <3>1, <3>2
  <2>2. CASE c.done # 0
    <3>1. FirstBlock(c) < c.block
      BY <1>1, <1>7, <2>2
    <3>2. m2.data[LayoutBlock(m, c.ino, FirstBlock(c))] = m.data[LayoutBlock(m, c.ino, FirstBlock(c))]
      BY <1>7, <1>8, <3>1
    <3> QED
      BY <3>2 DEF HasWritten
  <2> QED
    BY <2>1, <2>2
<1> QED
  BY <1>5, <1>9, <1>10, <1>11, <1>12 DEF TurnStored

\* A turn of a write that succeeds.
LEMMA WriteTurnKeeps ==
  ASSUME NEW m \in ImageType, NEW c, InTurn(m, c), BlocksDiffer(m), HasWritten(m, c),
         NEW a, a = BlockOf(m, c.ino, c.block), a # 0,
         NEW m2, m2 = Stored(m, a, Filled(m, c, a))
  PROVE  HasWritten(m2, Turned(c, Filled(m, c, a), <<>>))
<1>1. /\ c.ino \in Inode /\ c.block \in Nat /\ c.done \in Nat /\ c.pos \in Nat /\ c.bytes \in Nat
      /\ c.at = "loop" /\ c.bytes > 0
  BY FileCallFields DEF InTurn
<1>2. a \in Block
  BY <1>1, BlocksAre
<1>3. PICK d, k : d = Turned(c, Filled(m, c, a), <<>>) /\ k = Copy(c)
  OBVIOUS
<1>4. /\ d.at = "loop" /\ d.ino = c.ino /\ d.pos = c.pos /\ d.bytes = c.bytes - k
      /\ d.block = c.block + 1 /\ d.done = c.done + k /\ d.old = c.old
  <2>1. PICK buf, out : buf = Filled(m, c, a) /\ out = <<>>
    OBVIOUS
  <2>2. buf \in [1 .. BlockSize -> Byte] /\ out \in Seq(Byte)
    BY <1>2, <2>1, FilledIs
  <2>3. d = Turned(c, buf, out)
    BY <1>3, <2>1
  <2> QED
    BY <1>1, <1>3, <2>2, <2>3, TurnedIs
<1>5. k \in Nat /\ 0 < k /\ k <= c.bytes
  BY <1>3, CopyIs
<1>6. /\ m2 \in ImageType /\ m2.ino = m.ino /\ m2.ptrs = m.ptrs
      /\ \A x \in 1 .. c.done : ByteAt(m2, c.ino, c.pos + x - 1) = NewByte
      /\ \A j \in 1 .. k : ByteAt(m2, c.ino, c.pos + c.done + j - 1) = NewByte
      /\ \A b \in Block : m2.data[b] = c.old[b] \/ Touched(m, c, b)
      /\ \A x \in 1 .. c.pos % BlockSize :
           m2.data[LayoutBlock(m, c.ino, FirstBlock(c))][x] = c.old[LayoutBlock(m, c.ino, FirstBlock(c))][x]
  <2>1. TurnStored(m, c, m2)
    BY StoreKeeps
  <2> QED
    BY <1>3, <2>1 DEF TurnStored
<1>7. \A i, n : LayoutBlock(m2, i, n) = LayoutBlock(m, i, n)
  BY <1>6, SameLayout
<1>8. FirstBlock(d) = FirstBlock(c)
  BY <1>4 DEF FirstBlock
<1>9. ASSUME NEW x \in 1 .. d.done PROVE ByteAt(m2, d.ino, d.pos + x - 1) = NewByte
  <2>1. CASE x <= c.done
    BY <1>1, <1>4, <1>6, <2>1
  <2>2. CASE x > c.done
    <3>1. PICK j : j = x - c.done
      OBVIOUS
    <3>2. j \in 1 .. k /\ c.pos + x - 1 = c.pos + c.done + j - 1
      BY <1>1, <1>4, <1>5, <2>2, <3>1
    <3> QED
      BY <1>4, <1>6, <3>2
  <2> QED
    BY <1>1, <1>4, <1>5, <2>1, <2>2
<1>10. ASSUME NEW b \in Block PROVE m2.data[b] = d.old[b] \/ Touched(m2, d, b)
  <2>1. CASE Touched(m, c, b)
    <3>1. PICK n \in Nat : /\ FirstBlock(c) <= n /\ n <= LastBlock(c) /\ n * BlockSize < m.ino[c.ino].size
                           /\ b = LayoutBlock(m, c.ino, n)
      BY <2>1 DEF Touched
    <3>2. n <= c.block /\ c.block <= LastBlock(d)
      BY <1>1, <1>4, <1>5, <3>1 DEF LastBlock
    <3>3. n <= LastBlock(d)
      BY <1>1, <1>4, <1>5, <3>2 DEF LastBlock
    <3> QED
      BY <1>4, <1>6, <1>7, <1>8, <3>1, <3>3 DEF Touched
  <2>2. CASE ~Touched(m, c, b)
    BY <1>4, <1>6, <2>2
  <2> QED
    BY <2>1, <2>2
<1>11. \A x \in 1 .. d.pos % BlockSize :
         m2.data[LayoutBlock(m2, d.ino, FirstBlock(d))][x] = d.old[LayoutBlock(m2, d.ino, FirstBlock(d))][x]
  BY <1>4, <1>6, <1>7, <1>8
<1>12. d.done # 0
  BY <1>1, <1>4, <1>5
<1>13. HasWritten(m2, d)
  BY <1>9, <1>10, <1>11, <1>12 DEF HasWritten
<1> QED
  BY <1>3, <1>13

-----------------------------------------------------------------------------
Ended(c, value) == [c EXCEPT !.at = "return", !.ret = value]

\* A call that returns.
LEMMA EndedIs ==
  ASSUME NEW c \in FileCall, NEW v \in Int
  PROVE  LET d == Ended(c, v)
         IN  /\ d \in FileCall /\ d.op = c.op /\ d.at = "return" /\ d.ino = c.ino /\ d.pos = c.pos
             /\ d.bytes = c.bytes /\ d.block = c.block /\ d.done = c.done /\ d.out = c.out
             /\ d.ret = v /\ d.old = c.old
<1>1. PICK d : d = Ended(c, v)
  OBVIOUS
<1>2. d = [op |-> c.op, at |-> "return", ino |-> c.ino, pos |-> c.pos, off |-> c.off,
           bytes |-> c.bytes, block |-> c.block, done |-> c.done, out |-> c.out, ret |-> v,
           buf |-> c.buf, old |-> c.old]
  BY <1>1 DEF Ended, FileCall
<1>3. /\ d.op = c.op /\ d.at = "return" /\ d.ino = c.ino /\ d.pos = c.pos
      /\ d.bytes = c.bytes /\ d.block = c.block /\ d.done = c.done /\ d.out = c.out
      /\ d.ret = v /\ d.old = c.old
  BY <1>2
<1>4. d \in FileCall
  BY <1>2, FileCallFields DEF FileCall
<1> QED
  BY <1>1, <1>3, <1>4

\* It keeps what it has done, be it read or written.
LEMMA EndKeeps ==
  ASSUME NEW m \in ImageType, NEW c \in FileCall, Progress(m, c), NEW v \in Int,
         v <= 0 \/ v = c.done
  PROVE  /\ Ended(c, v) \in FileCall /\ Progress(m, Ended(c, v))
         /\ HasRead(m, c) => HasRead(m, Ended(c, v))
         /\ HasWritten(m, c) => HasWritten(m, Ended(c, v))
<1>1. PICK d : d = Ended(c, v)
  OBVIOUS
<1>2. /\ d \in FileCall /\ d.op = c.op /\ d.at = "return" /\ d.ino = c.ino /\ d.pos = c.pos
      /\ d.bytes = c.bytes /\ d.block = c.block /\ d.done = c.done /\ d.out = c.out
      /\ d.ret = v /\ d.old = c.old
  BY <1>1, EndedIs
<1>3. Progress(m, d)
  BY <1>2 DEF Progress
<1>4. HasRead(m, c) => HasRead(m, d)
  BY <1>2 DEF HasRead
<1>5. FirstBlock(d) = FirstBlock(c) /\ LastBlock(d) = LastBlock(c)
  BY <1>2 DEF FirstBlock, LastBlock
<1>6. \A b : Touched(m, c, b) => Touched(m, d, b)
  BY <1>2, <1>5 DEF Touched
<1>7. HasWritten(m, c) => HasWritten(m, d)
  BY <1>2, <1>5, <1>6 DEF HasWritten
<1> QED
  BY <1>1, <1>2, <1>3, <1>4, <1>7

\* A store that may have had its effect although the device reports an error.
LEMMA FailedStoreKeeps ==
  ASSUME NEW m \in ImageType, NEW c, InTurn(m, c), BlocksDiffer(m), HasWritten(m, c),
         NEW a, a = BlockOf(m, c.ino, c.block), a # 0,
         NEW m2, m2 = Stored(m, a, Filled(m, c, a)), NEW v \in Int
  PROVE  HasWritten(m2, Ended(c, v))
<1>1. PICK d : d = Ended(c, v)
  OBVIOUS
<1>2. /\ d \in FileCall /\ d.op = c.op /\ d.at = "return" /\ d.ino = c.ino /\ d.pos = c.pos
      /\ d.bytes = c.bytes /\ d.block = c.block /\ d.done = c.done /\ d.old = c.old
  BY <1>1, EndedIs DEF InTurn
<1>3. /\ m2 \in ImageType /\ m2.ino = m.ino /\ m2.ptrs = m.ptrs
      /\ \A k \in 1 .. c.done : ByteAt(m2, c.ino, c.pos + k - 1) = NewByte
      /\ \A b \in Block : m2.data[b] = c.old[b] \/ Touched(m, c, b)
      /\ \A x \in 1 .. c.pos % BlockSize :
           m2.data[LayoutBlock(m, c.ino, FirstBlock(c))][x] = c.old[LayoutBlock(m, c.ino, FirstBlock(c))][x]
  <2>1. TurnStored(m, c, m2)
    BY StoreKeeps
  <2> QED
    BY <2>1 DEF TurnStored
<1>4. \A i, n : LayoutBlock(m2, i, n) = LayoutBlock(m, i, n)
  BY <1>3, SameLayout
<1>5. FirstBlock(d) = FirstBlock(c) /\ LastBlock(d) = LastBlock(c)
  BY <1>2 DEF FirstBlock, LastBlock
<1>6. \A b : Touched(m, c, b) => Touched(m2, d, b)
  BY <1>2, <1>3, <1>4, <1>5 DEF Touched
<1>7. HasWritten(m2, d)
  BY <1>2, <1>3, <1>4, <1>5, <1>6 DEF HasWritten
<1> QED
  BY <1>1, <1>7

(***************************************************************************)
(* Directories.                                                            *)
(***************************************************************************)
\* The numbers at which the loop over the blocks of a directory may end.
Ends(m, i) ==
  {n \in 0 .. PTRS : BlockOf(m, i, n) = 0 \/ (n > 0 /\ m.dir[BlockOf(m, i, n - 1)].zero)}

\* The end of the loop, and what is before it.
LEMMA EndIs ==
  ASSUME NEW m \in ImageType, NEW i \in Inode
  PROVE  /\ Least(Ends(m, i)) \in 0 .. PTRS
         /\ Least(Ends(m, i)) \in Ends(m, i)
         /\ \A n \in Nat : n < Least(Ends(m, i)) =>
              BlockOf(m, i, n) # 0 /\ (n > 0 => ~m.dir[BlockOf(m, i, n - 1)].zero)
<1>1. Ends(m, i) \subseteq Nat /\ Ends(m, i) \subseteq 0 .. PTRS
  BY SizesAre DEF Ends
<1>2. PTRS \in Ends(m, i)
  BY BlocksAre, SizesAre DEF Ends
<1>3. Least(Ends(m, i)) \in Ends(m, i) /\ \A y \in Ends(m, i) : Least(Ends(m, i)) <= y
  BY <1>1, <1>2, LeastIs
<1>4. PICK z : z = Least(Ends(m, i))
  OBVIOUS
<1>5. z \in 0 .. PTRS /\ \A y \in Ends(m, i) : z <= y
  BY <1>1, <1>3, <1>4
<1>6. ASSUME NEW n \in Nat, n < z
      PROVE  BlockOf(m, i, n) # 0 /\ (n > 0 => ~m.dir[BlockOf(m, i, n - 1)].zero)
  <2>1. n \in 0 .. PTRS /\ ~(z <= n)
    BY <1>5, <1>6, SizesAre
  <2>2. n \notin Ends(m, i)
    BY <1>5, <2>1
  <2> QED
    BY <2>1, <2>2 DEF Ends
<1> QED
  BY <1>3, <1>4, <1>5, <1>6

\* An entry of a block.
InBlock(m, b, e) == \E x \in DOMAIN m.dir[b].entries : e = m.dir[b].entries[x]

\* An entry is listed if it is in a block before the end.
LEMMA ListedIs ==
  ASSUME NEW m, NEW i, NEW e
  PROVE  e \in Listed(m, i) <=>
           \E n \in 0 .. Least(Ends(m, i)) - 1 : InBlock(m, BlockOf(m, i, n), e)
<1>1. ListedBlocks(m, m.ino[i]) = {BlockOf(m, i, n) : n \in 0 .. Least(Ends(m, i)) - 1}
  BY Zenon DEF ListedBlocks, BlockOf, Ends
<1>2. PICK L : L = ListedBlocks(m, m.ino[i])
  OBVIOUS
<1>3. e \in Listed(m, i) <=> \E b \in L : e \in Range(m.dir[b].entries)
  BY <1>2 DEF Listed
<1>4. \A b : e \in Range(m.dir[b].entries) <=> InBlock(m, b, e)
  BY Zenon DEF Range, InBlock
<1> QED
  BY <1>1, <1>2, <1>3, <1>4

\* What is listed depends on the root's inode, the indirect blocks and the
\* directory blocks.
LEMMA SameListed ==
  ASSUME NEW m, NEW m2, NEW i, m2.ino[i] = m.ino[i], m2.ptrs = m.ptrs, m2.dir = m.dir
  PROVE  Listed(m2, i) = Listed(m, i)
<1>1. ListedBlocks(m2, m2.ino[i]) = ListedBlocks(m, m.ino[i])
  BY Zenon DEF ListedBlocks, ext2_block_in_inode
<1> QED
  BY <1>1, Zenon DEF Listed

\* A search finds the inode of a name that is listed once.
LEMMA SearchFinds ==
  ASSUME NEW m \in ImageType, NEW i \in Inode, NEW e \in Listed(m, i),
         \A f \in Listed(m, i) : f.name = e.name => f = e
  PROVE  ext2_search_dir(m, m.ino[i], e.name) = e.inode
<1>1. PICK z : z = Least(Ends(m, i))
  OBVIOUS
<1>2. /\ z \in 0 .. PTRS
      /\ \A n \in Nat : n < z => BlockOf(m, i, n) # 0 /\ (n > 0 => ~m.dir[BlockOf(m, i, n - 1)].zero)
  BY <1>1, EndIs
<1>3. PICK k \in 0 .. z - 1 : InBlock(m, BlockOf(m, i, k), e)
  BY <1>1, ListedIs
<1>4. PICK T : T = {n \in 0 .. PTRS : \/ BlockOf(m, i, n) = 0
                                      \/ m.dir[BlockOf(m, i, n)].zero
                                      \/ Named(m, BlockOf(m, i, n), e.name) # {}}
  OBVIOUS
<1>5. k \in Nat /\ k < z /\ k \in 0 .. PTRS /\ z \in Nat
  BY <1>2, SizesAre
<1>6. k \in T
  <2>1. Named(m, BlockOf(m, i, k), e.name) # {}
    BY <1>3 DEF InBlock, Named
  <2> QED
    BY <1>4, <1>5, <2>1
<1>7. PICK n : n = Least(T)
  OBVIOUS
<1>8. n \in T /\ n \in Nat /\ n <= k
  <2>1. T \subseteq Nat
    BY <1>4, SizesAre
  <2> QED
    BY <1>6, <1>7, <2>1, LeastIs
<1>9. PICK b, at : b = BlockOf(m, i, n) /\ at = Named(m, b, e.name)
  OBVIOUS
<1>10. b # 0
  BY <1>2, <1>5, <1>8, <1>9
<1>11. at # {}
  <2>1. CASE n = k
    BY <1>3, <1>9, <2>1 DEF InBlock, Named
  <2>2. CASE n < k
    <3>1. n + 1 \in Nat /\ n + 1 < z /\ n + 1 > 0 /\ (n + 1) - 1 = n
      BY <1>5, <1>8, <2>2
    <3>2. ~m.dir[BlockOf(m, i, (n + 1) - 1)].zero
      BY <1>2, <3>1
    <3>3. ~m.dir[b].zero
      BY <1>9, <3>1, <3>2
    <3> QED
      BY <1>4, <1>8, <1>9, <1>10, <3>3
  <2> QED
    BY <1>5, <1>8, <2>1, <2>2
<1>12. ext2_search_dir(m, m.ino[i], e.name) =
         CASE b = 0 -> 0
           [] b # 0 /\ at # {} -> m.dir[b].entries[Least(at)].inode
           [] OTHER -> Forever
  BY <1>4, <1>7, <1>9, Zenon DEF ext2_search_dir, BlockOf
<1>13. ext2_search_dir(m, m.ino[i], e.name) = m.dir[b].entries[Least(at)].inode
  BY <1>10, <1>11, <1>12
<1>14. b \in Block
  BY <1>8, <1>9, BlocksAre
<1>15. at \subseteq Nat
  <2>1. m.dir[b].entries \in Seq([name : STRING, inode : Inode, type : EntryType])
    BY <1>14 DEF ImageType
  <2> QED
    BY <1>9, <2>1 DEF Named
<1>16. Least(at) \in at
  BY <1>11, <1>15, LeastIs
<1>17. PICK f : f = m.dir[b].entries[Least(at)]
  OBVIOUS
<1>18. InBlock(m, b, f) /\ f.name = e.name
  BY <1>9, <1>16, <1>17 DEF InBlock, Named
<1>19. f \in Listed(m, i)
  <2>1. n \in 0 .. z - 1
    BY <1>5, <1>8
  <2> QED
    BY <1>1, <1>9, <1>18, <2>1, ListedIs
<1>20. f = e
  BY <1>18, <1>19
<1> QED
  BY <1>13, <1>17, <1>20

\* What holds of the image at all times: it is a consistent file system, unless
\* the root itself has been overwritten, and is then empty.
ImageOK(m) ==
  /\ m \in ImageType /\ BlocksDiffer(m) /\ Groups * m.inodes_in_group <= NumInodes
  /\ m.ino[RootInode].isDir \/ BlockOf(m, RootInode, 0) = 0

\* A change of data or of bitmaps does no harm.
LEMMA SameTree ==
  ASSUME NEW m, ImageOK(m), NEW m2 \in ImageType,
         m2.ino = m.ino, m2.ptrs = m.ptrs, m2.dir = m.dir,
         m2.inodes_in_group = m.inodes_in_group
  PROVE  ImageOK(m2)
<1>2. BlocksDiffer(m2)
  BY SameLayout DEF ImageOK
<1>3. BlockOf(m2, RootInode, 0) = BlockOf(m, RootInode, 0)
  BY SameLayout
<1> QED
  BY <1>2, <1>3 DEF ImageOK

-----------------------------------------------------------------------------
\* The bit that is found, if any, is in the bitmap.
LEMMA FirstClearIs ==
  ASSUME NEW map, NEW free, NEW per \in Nat, per > 0
  PROVE  FirstClear(map, free, per) = NoBit \/ FirstClear(map, free, per) \in 0 .. Groups * per - 1
<1>1. PICK G : G = {h \in 0 .. Groups - 1 : free[h] > 0}
  OBVIOUS
<1>2. PICK C : C = UNION {InGroup(g, per) \ map : g \in G}
  OBVIOUS
<1>3. FirstClear(map, free, per) = IF C = {} THEN NoBit ELSE Least(C)
  BY <1>1, <1>2, Zenon DEF FirstClear
<1>4. ASSUME NEW g \in G, NEW b \in InGroup(g, per) PROVE b \in 0 .. Groups * per - 1
  <2>1. g \in Nat /\ g + 1 <= Groups /\ Groups \in Nat
    BY <1>1, Ext2Assumption
  <2>2. PICK q, r : q = g * per /\ r = Groups * per
    OBVIOUS
  <2>3. q \in Nat /\ r \in Nat /\ q + per <= r
    <3>1. PICK s : s = Groups - g - 1
      OBVIOUS
    <3>2. s \in Nat /\ Groups = g + 1 + s
      BY <2>1, <3>1
    <3>3. (g + 1 + s) * per = g * per + per + s * per /\ s * per \in Nat /\ g * per \in Nat
      BY <2>1, <3>2
    <3> QED
      BY <2>2, <3>2, <3>3
  <2>4. b \in q .. q + per - 1
    BY <1>4, <2>2 DEF InGroup
  <2>5. b \in 0 .. r - 1
    BY <2>3, <2>4
  <2> QED
    BY <2>2, <2>5
<1>5. C \subseteq 0 .. Groups * per - 1
  BY <1>2, <1>4
<1>6. C \subseteq Nat
  BY <1>5, Ext2Assumption
<1>7. C # {} => Least(C) \in C
  BY <1>6, LeastIs
<1> QED
  BY <1>3, <1>5, <1>7

\* A set bit.
WithInodeBit(m, b) == [m EXCEPT !.imap = @ \cup {b}]

WithBlockBit(m, b) == [m EXCEPT !.bmap = @ \cup {b}]

WithInode(m, i, node) == [m EXCEPT !.ino[i] = node]

WithEntry(m, b, e) == [m EXCEPT !.dir[b].entries = Append(@, e)]

\* The fields of an image, put together.
LEMMA ImageIs ==
  ASSUME NEW m \in ImageType
  PROVE  /\ m = [imap |-> m.imap, inodes_in_group |-> m.inodes_in_group, bmap |-> m.bmap, ifree |-> m.ifree, bfree |-> m.bfree,
                 ino |-> m.ino, data |-> m.data, ptrs |-> m.ptrs, dir |-> m.dir]
BY DEF ImageType

\* Setting a bit in a bitmap does not touch a file.
LEMMA BitsKeep ==
  ASSUME NEW m, ImageOK(m)
  PROVE  /\ \A b \in 0 .. NumInodes - 1 : ImageOK(WithInodeBit(m, b))
         /\ \A b \in 0 .. Groups * BlocksPerGroup - 1 : ImageOK(WithBlockBit(m, b))
<1>0. m \in ImageType
  BY DEF ImageOK
<1>1. ASSUME NEW b \in 0 .. NumInodes - 1
      PROVE  ImageOK(WithInodeBit(m, b))
  <2>1. PICK map : map = m.imap \cup {b}
    OBVIOUS
  <2>2. map \in SUBSET (0 .. NumInodes - 1)
    BY <1>0, <2>1, ImageFields
  <2>3. PICK m2 : m2 = WithInodeBit(m, b)
    OBVIOUS
  <2>4. m2 = [m EXCEPT !.imap = map]
    BY <1>0, <2>1, <2>3 DEF WithInodeBit, ImageType
  <2>5. /\ m2 \in ImageType /\ m2.ino = m.ino /\ m2.ptrs = m.ptrs /\ m2.dir = m.dir
        /\ m2.inodes_in_group = m.inodes_in_group
    BY <1>0, <2>2, <2>4 DEF ImageType
  <2> QED
    BY <2>3, <2>5, SameTree
<1>2. ASSUME NEW b \in 0 .. Groups * BlocksPerGroup - 1
      PROVE  ImageOK(WithBlockBit(m, b))
  <2>1. PICK map : map = m.bmap \cup {b}
    OBVIOUS
  <2>2. map \in SUBSET (0 .. Groups * BlocksPerGroup - 1)
    BY <1>0, <2>1, ImageFields
  <2>3. PICK m2 : m2 = WithBlockBit(m, b)
    OBVIOUS
  <2>4. m2 = [m EXCEPT !.bmap = map]
    BY <1>0, <2>1, <2>3 DEF WithBlockBit, ImageType
  <2>5. /\ m2 \in ImageType /\ m2.ino = m.ino /\ m2.ptrs = m.ptrs /\ m2.dir = m.dir
        /\ m2.inodes_in_group = m.inodes_in_group
    BY <1>0, <2>2, <2>4 DEF ImageType
  <2> QED
    BY <2>3, <2>5, SameTree
<1> QED
  BY <1>1, <1>2

-----------------------------------------------------------------------------
\* The new inode has no blocks.
LEMMA InodeKeeps ==
  ASSUME NEW m, ImageOK(m), NEW i \in Inode
  PROVE  ImageOK(WithInode(m, i, NewInode))
<1>0. m \in ImageType
  BY DEF ImageOK
<1>1. PICK node : node = NewInode
  OBVIOUS
<1>2. /\ node \in [isDir : BOOLEAN, size : Nat, direct : [0 .. DIRECT - 1 -> Block],
                   singly_indirect : Block]
      /\ node.size = 0 /\ node.direct[0] = 0
  BY <1>1, SizesAre DEF NewInode
<1>3. PICK ino : ino = [m.ino EXCEPT ![i] = node]
  OBVIOUS
<1>4. m.ino \in [Inode -> [isDir : BOOLEAN, size : Nat, direct : [0 .. DIRECT - 1 -> Block],
                           singly_indirect : Block]]
  BY <1>0 DEF ImageType
<1>5. /\ ino \in [Inode -> [isDir : BOOLEAN, size : Nat, direct : [0 .. DIRECT - 1 -> Block],
                            singly_indirect : Block]]
      /\ ino[i] = node /\ \A j \in Inode : j # i => ino[j] = m.ino[j]
  BY <1>2, <1>3, <1>4
<1>6. PICK m2 : m2 = WithInode(m, i, NewInode)
  OBVIOUS
<1>7. m2 = [m EXCEPT !.ino = ino]
  BY <1>0, <1>1, <1>3, <1>6 DEF WithInode, ImageType
<1>8. /\ m2.ino = ino /\ m2.ptrs = m.ptrs /\ m2.dir = m.dir
      /\ m2.inodes_in_group = m.inodes_in_group
  BY <1>0, <1>7 DEF ImageType
<1>9. m2 \in ImageType
  BY <1>0, <1>5, <1>7 DEF ImageType
<1>10. \A j \in Inode : j # i => m2.ino[j] = m.ino[j]
  BY <1>5, <1>8
<1>11. BlocksDiffer(m2)
  <2> SUFFICES ASSUME NEW j \in Inode, NEW n \in 0 .. PTRS - 1, NEW k \in 0 .. n - 1,
                      n * BlockSize < m2.ino[j].size,
                      ext2_block_in_inode(m2, m2.ino[j], n) # 0
               PROVE  ext2_block_in_inode(m2, m2.ino[j], k) # ext2_block_in_inode(m2, m2.ino[j], n)
    BY Zenon DEF BlocksDiffer
  <2>1. j # i
    <3>1. n * BlockSize \in Nat
      BY SizesAre
    <3> QED
      BY <1>2, <1>5, <1>8, <3>1
  <2>2. \A x : ext2_block_in_inode(m2, m2.ino[j], x) = ext2_block_in_inode(m, m.ino[j], x)
    BY <1>8, <1>10, <2>1 DEF ext2_block_in_inode
  <2>3. BlocksDiffer(m) /\ m2.ino[j] = m.ino[j]
    BY <1>10, <2>1 DEF ImageOK
  <2> QED
    BY <2>2, <2>3 DEF BlocksDiffer
<1>12. CASE i # RootInode
  <2>1. m2.ino[RootInode] = m.ino[RootInode]
    BY <1>10, <1>12, SizesAre
  <2>3. BlockOf(m2, RootInode, 0) = BlockOf(m, RootInode, 0)
    BY <1>8, <2>1 DEF BlockOf, ext2_block_in_inode
  <2> QED
    BY <1>6, <1>8, <1>9, <1>11, <2>1, <2>3 DEF ImageOK
<1>13. CASE i = RootInode
  <2>1. BlockOf(m2, RootInode, 0) = 0
    BY <1>2, <1>5, <1>8, <1>13, SizesAre DEF BlockOf, ext2_block_in_inode
  <2> QED
    BY <1>6, <1>8, <1>9, <1>11, <2>1 DEF ImageOK
<1> QED
  BY <1>12, <1>13

\* An entry may be linked.
LEMMA LinkKeeps ==
  ASSUME NEW m, ImageOK(m), NEW b \in Block,
         NEW e \in [name : STRING, inode : Inode, type : EntryType]
  PROVE  ImageOK(WithEntry(m, b, e))
<1>0. m \in ImageType
  BY DEF ImageOK
<1>1. PICK D : D = [entries : Seq([name : STRING, inode : Inode, type : EntryType]), zero : BOOLEAN]
  OBVIOUS
<1>2. m.dir \in [Block -> D]
  BY <1>0, <1>1 DEF ImageType
<1>3. PICK s : s = Append(m.dir[b].entries, e)
  OBVIOUS
<1>4. m.dir[b].entries \in Seq([name : STRING, inode : Inode, type : EntryType]) /\ m.dir[b] \in D
      /\ m.dir[b].zero \in BOOLEAN
  BY <1>1, <1>2
<1>5. /\ s \in Seq([name : STRING, inode : Inode, type : EntryType])
      /\ \A x \in DOMAIN s : s[x] = e \/ (x \in DOMAIN m.dir[b].entries /\ s[x] = m.dir[b].entries[x])
  <2>1. PICK E, t : E = [name : STRING, inode : Inode, type : EntryType] /\ t = m.dir[b].entries
    OBVIOUS
  <2>2. e \in E /\ t \in Seq(E)
    BY <1>4, <2>1
  <2>3. /\ Append(t, e) \in Seq(E)
        /\ \A x \in DOMAIN Append(t, e) :
             Append(t, e)[x] = e \/ (x \in DOMAIN t /\ Append(t, e)[x] = t[x])
    BY <2>2, OneMore
  <2> QED
    BY <1>3, <2>1, <2>3, Zenon
<1>6. PICK d : d = [m.dir[b] EXCEPT !.entries = s]
  OBVIOUS
<1>7. d \in D /\ d.zero = m.dir[b].zero /\ d.entries = s
  BY <1>1, <1>4, <1>5, <1>6
<1>8. PICK dir : dir = [m.dir EXCEPT ![b] = d]
  OBVIOUS
<1>9. dir \in [Block -> D] /\ dir[b] = d /\ \A c \in Block : c # b => dir[c] = m.dir[c]
  BY <1>2, <1>7, <1>8
<1>10. PICK m2 : m2 = WithEntry(m, b, e)
  OBVIOUS
<1>11. m2 = [m EXCEPT !.dir = dir]
  <2>1. m2 = [m EXCEPT !.dir[b].entries = s]
    BY <1>3, <1>10 DEF WithEntry
  <2> QED
    BY <1>0, <1>2, <1>6, <1>8, <2>1 DEF ImageType
<1>12. /\ m2.ino = m.ino /\ m2.ptrs = m.ptrs /\ m2.dir = dir
       /\ m2.inodes_in_group = m.inodes_in_group
  BY <1>0, <1>11 DEF ImageType
<1>13. m2 \in ImageType
  BY <1>0, <1>1, <1>9, <1>11 DEF ImageType
<1>14. BlocksDiffer(m2) /\ \A i, n : BlockOf(m2, i, n) = BlockOf(m, i, n)
  BY <1>12, SameLayout DEF ImageOK
<1>19. m2.ino[RootInode].isDir \/ BlockOf(m2, RootInode, 0) = 0
  BY <1>12, <1>14 DEF ImageOK
<1> QED
  BY <1>10, <1>12, <1>13, <1>14, <1>19 DEF ImageOK

\* Where the root has no block, nothing is listed.
LEMMA ListedInRoot ==
  ASSUME NEW m, ImageOK(m), NEW e \in Listed(m, RootInode)
  PROVE  m.ino[RootInode].isDir
<1>1. PICK n \in 0 .. Least(Ends(m, RootInode)) - 1 : InBlock(m, BlockOf(m, RootInode, n), e)
  BY ListedIs
<1>2. m \in ImageType /\ RootInode \in Inode
  BY SizesAre DEF ImageOK
<1>3. PICK z : z = Least(Ends(m, RootInode))
  OBVIOUS
<1>4. z \in 0 .. PTRS /\ (0 < z => BlockOf(m, RootInode, 0) # 0)
  BY <1>2, <1>3, EndIs
<1>5. 0 < z
  BY <1>1, <1>3, <1>4, SizesAre
<1> QED
  BY <1>4, <1>5 DEF ImageOK

\* A listed file is an entry of the directory, but for the name if that is overrun.
LEMMA FilesAreListed ==
  ASSUME NEW m, NEW i, NEW e \in ext2_list_files(m, i)
  PROVE  \E f \in Listed(m, i) : e = f \/ e = [f EXCEPT !.name = Overrun]
<1>1. PICK L : L = ListedBlocks(m, m.ino[i])
  OBVIOUS
<1>2. PICK b \in L : e \in FilesIn(m.dir[b].entries)
  BY <1>1 DEF ext2_list_files
<1>3. PICK x \in DOMAIN m.dir[b].entries : e = NamedAsListed(m.dir[b].entries, x)
  BY <1>2 DEF FilesIn
<1>4. PICK f : f = m.dir[b].entries[x]
  OBVIOUS
<1>5. f \in Range(m.dir[b].entries)
  BY <1>3, <1>4, Zenon DEF Range
<1>6. f \in Listed(m, i)
  BY <1>1, <1>2, <1>5 DEF Listed
<1> QED
  BY <1>3, <1>4, <1>6 DEF NamedAsListed

\* The entries of the root directory.
LEMMA EntriesAre ==
  ASSUME NEW m, ImageOK(m), NEW e \in Listed(m, RootInode)
  PROVE  e \in [name : STRING, inode : Inode, type : EntryType]
<1>2. PICK n \in 0 .. Least(Ends(m, RootInode)) - 1 : InBlock(m, BlockOf(m, RootInode, n), e)
  BY ListedIs
<1>3. m \in ImageType /\ RootInode \in Inode
  BY SizesAre DEF ImageOK
<1>4. PICK b : b = BlockOf(m, RootInode, n)
  OBVIOUS
<1>5. b \in Block
  BY <1>3, <1>4, BlocksAre, EndIs, SizesAre
<1>6. m.dir[b].entries \in Seq([name : STRING, inode : Inode, type : EntryType])
  BY <1>3, <1>5 DEF ImageType
<1>7. PICK x \in DOMAIN m.dir[b].entries : e = m.dir[b].entries[x]
  BY <1>2, <1>4 DEF InBlock
<1>8. PICK E, s : E = [name : STRING, inode : Inode, type : EntryType] /\ s = m.dir[b].entries
  OBVIOUS
<1>9. s \in Seq(E) /\ x \in DOMAIN s
  BY <1>6, <1>7, <1>8
<1>10. s[x] \in E
  BY <1>9
<1> QED
  BY <1>7, <1>8, <1>10

\* Every listed name that is neither overrun nor there twice is found.
LEMMA ListedAreFound ==
  ASSUME ImageOK(img)
  PROVE  ListedIsFound
<1>1. ASSUME NEW e \in Listed(img, RootInode), e.name \notin Doubled
      PROVE  ext2_open_at(img, RootInode, e.name) = e.inode
  <2>1. img.ino[RootInode].isDir
    BY ListedInRoot
  <2>2. \A f \in Listed(img, RootInode) : f.name = e.name => f = e
    BY <1>1 DEF Doubled
  <2>3. ext2_search_dir(img, img.ino[RootInode], e.name) = e.inode
    BY <2>2, SearchFinds, SizesAre DEF ImageOK
  <2> QED
    BY <2>1, <2>3 DEF ext2_open_at
<1>2. ASSUME NEW e \in ext2_list_files(img, RootInode), e.name # Overrun
      PROVE  e \in Listed(img, RootInode)
  <2>1. PICK f \in Listed(img, RootInode) : e = f \/ e = [f EXCEPT !.name = Overrun]
    BY FilesAreListed
  <2>2. f \in [name : STRING, inode : Inode, type : EntryType]
    BY EntriesAre
  <2>3. [f EXCEPT !.name = Overrun].name = Overrun
    BY <2>2
  <2> QED
    BY <1>2, <2>1, <2>3
<1>3. \A e \in ext2_list_folders(img, RootInode) : e \in Listed(img, RootInode)
  BY DEF ext2_list_folders
<1> QED
  BY <1>1, <1>2, <1>3 DEF ListedIsFound

NodCall ==
  [op : {"mknod"}, at : {"entry", "ialloc", "balloc", "inode", "link", "return"},
   past : BOOLEAN, num : 0 .. NumInodes - 1, ret : Int]

\* A file has an inode when it is linked.
NodOK(m, c) ==
  /\ c \in NodCall
  /\ c.at = "link" => c.num # 0

FileOK(m, c) ==
  /\ c \in FileCall /\ Progress(m, c)
  /\ c.op = "read" => HasRead(m, c)
  /\ c.op = "write" => HasWritten(m, c)

\* The inductive invariant of the calls.
FileInv == ImageOK(img) /\ (call = Idle \/ FileOK(img, call) \/ NodOK(img, call))

\* Which call it is.
LEMMA WhichCall ==
  ASSUME FileInv
  PROVE  /\ call.op \in {"read", "write"} => FileOK(img, call)
         /\ call.op = "mknod" => NodOK(img, call)
         /\ img \in ImageType
BY DEF FileInv, FileOK, NodOK, Idle, FileCall, NodCall, ImageOK

-----------------------------------------------------------------------------
\* In the beginning.
LEMMA FileInit == Init => FileInv
<1> SUFFICES ASSUME Init PROVE FileInv
  OBVIOUS
<1>1. IsImage(img) /\ call = Idle
  BY StorageAssumption DEF Init
<1> QED
  BY <1>1 DEF FileInv, ImageOK, IsImage

\* Boot does not touch the image.
LEMMA FileSame ==
  ASSUME FileInv, img' = img, call' = call
  PROVE  FileInv'
BY DEF FileInv

\* A call that is over.
LEMMA FileReturned ==
  ASSUME FileInv, Returned
  PROVE  FileInv'
<1>1. img' = img /\ call' = Idle /\ Idle' = Idle
  BY DEF Returned, Idle
<1> QED
  BY <1>1 DEF FileInv

\* The inodes of files that can be opened are inodes.
LEMMA FilesAreInodes ==
  ASSUME ImageOK(img), NEW i \in File
  PROVE  i \in Inode
<1>1. PICK e \in ext2_list_files(img, RootInode) : i = e.inode
  BY DEF File
<1>2. PICK f \in Listed(img, RootInode) : e = f \/ e = [f EXCEPT !.name = Overrun]
  BY FilesAreListed
<1>3. f \in [name : STRING, inode : Inode, type : EntryType]
  BY EntriesAre
<1>4. e.inode = f.inode
  BY <1>2, <1>3
<1> QED
  BY <1>1, <1>3, <1>4

\* A read or a write begins.
LEMMA FileBegins ==
  ASSUME FileInv, NEW op \in {"read", "write"}, NEW i \in File, NEW x \in Extent,
         Begin(Transfers(op, i, x))
  PROVE  FileInv'
<1>1. img \in ImageType /\ ImageOK(img) /\ img' = img /\ call' = Transfers(op, i, x)
  BY DEF FileInv, ImageOK, Begin
<1>2. i \in Inode
  BY <1>1, FilesAreInodes
<1>3. x[1] \in Nat /\ x[2] \in Nat /\ Garbage \in Byte
  BY StorageAssumption
<1>4. img.data \in [Block -> [1 .. BlockSize -> Byte]]
  BY <1>1, ImageFields
<1>5. PICK p, q, buf, old : /\ p = x[1] /\ q = x[2] /\ old = img.data
                            /\ buf = [k \in 1 .. BlockSize |-> Garbage]
  OBVIOUS
<1>6. p \in Nat /\ q \in Nat /\ buf \in [1 .. BlockSize -> Byte] /\ old \in [Block -> [1 .. BlockSize -> Byte]]
  BY <1>3, <1>4, <1>5
<1>7. PICK c : c = [op |-> op, at |-> "inode", ino |-> i, pos |-> p, off |-> p, bytes |-> q,
                    block |-> 0, done |-> 0, out |-> <<>>, ret |-> 0, buf |-> buf, old |-> old]
  OBVIOUS
<1>8. call' = c
  BY <1>1, <1>5, <1>7 DEF Transfers
<1>9. c \in FileCall
  BY <1>2, <1>6, <1>7 DEF FileCall
<1>10. /\ c.at = "inode" /\ c.done = 0 /\ c.off = c.pos /\ c.out = <<>> /\ c.old = img.data
       /\ c.pos \in Nat
  BY <1>5, <1>6, <1>7
<1>11. Progress(img, c)
  BY <1>10 DEF Progress
<1>12. HasRead(img, c)
  BY <1>10 DEF HasRead
<1>13. HasWritten(img, c)
  BY <1>10 DEF HasWritten
<1>14. FileOK(img, c)
  BY <1>9, <1>11, <1>12, <1>13 DEF FileOK
<1> QED
  BY <1>1, <1>8, <1>14 DEF FileInv

-----------------------------------------------------------------------------
\* A call that ends leaves its work.
LEMMA FileEnds ==
  ASSUME FileInv, call.op \in {"read", "write"}, NEW v \in Int, v <= 0 \/ v = call.done,
         call' = Ended(call, v), img' = img
  PROVE  FileInv'
<1>1. FileOK(img, call) /\ img \in ImageType /\ ImageOK(img)
  BY WhichCall DEF FileInv
<1>2. /\ Ended(call, v) \in FileCall /\ Progress(img, Ended(call, v))
      /\ HasRead(img, call) => HasRead(img, Ended(call, v))
      /\ HasWritten(img, call) => HasWritten(img, Ended(call, v))
  BY <1>1, EndKeeps DEF FileOK
<1>3. Ended(call, v).op = call.op
  BY <1>1, EndedIs DEF FileOK
<1>4. FileOK(img, Ended(call, v))
  BY <1>1, <1>2, <1>3 DEF FileOK
<1> QED
  BY <1>1, <1>4 DEF FileInv

\* The beginning of a read or a write: the inode, and the check of the size.
LEMMA FileLoadsInode ==
  ASSUME FileInv, LoadInode
  PROVE  FileInv'
<1>1. PICK o : IF ~Good(o) \/ call.off + call.bytes > img.ino[call.ino].size THEN Return(-1)
               ELSE call' = [call EXCEPT !.at = "loop", !.block = call.off \div BlockSize,
                                         !.off = call.off % BlockSize]
  BY DEF LoadInode
<1>2. call.op \in {"read", "write"} /\ call.at = "inode" /\ img' = img
  BY DEF LoadInode
<1>3. CASE Return(-1)
  <2>1. call' = Ended(call, -1)
    BY <1>3 DEF Return, Ended
  <2> QED
    BY <1>2, <2>1, FileEnds
<1>4. CASE /\ ~(call.off + call.bytes > img.ino[call.ino].size)
           /\ call' = [call EXCEPT !.at = "loop", !.block = call.off \div BlockSize,
                                   !.off = call.off % BlockSize]
  <2>1. FileOK(img, call) /\ img \in ImageType /\ ImageOK(img)
    BY <1>2, WhichCall DEF FileInv
  <2>2. PICK c : c = call
    OBVIOUS
  <2>3. /\ c \in FileCall /\ c.ino \in Inode /\ c.pos \in Nat /\ c.off \in Nat /\ c.bytes \in Nat
        /\ c.off = c.pos /\ c.done = 0 /\ img.ino[c.ino].size \in Nat
    BY <1>2, <2>1, <2>2, FileCallFields, ImageFields DEF FileOK, Progress
  <2>4. PICK b, o2 : b = c.off \div BlockSize /\ o2 = c.off % BlockSize
    OBVIOUS
  <2>5. b \in Nat /\ o2 \in 0 .. BlockSize - 1 /\ c.off = Offset(b, o2)
    BY <2>3, <2>4, OffsetSplits
  <2>6. o2 \in Nat /\ o2 < BlockSize
    BY <2>5, SizesAre
  <2>7. PICK d : d = [c EXCEPT !.at = "loop", !.block = b, !.off = o2]
    OBVIOUS
  <2>8. call' = d
    BY <1>4, <2>2, <2>4, <2>7
  <2>9. d = [op |-> c.op, at |-> "loop", ino |-> c.ino, pos |-> c.pos, off |-> o2,
             bytes |-> c.bytes, block |-> b, done |-> c.done, out |-> c.out, ret |-> c.ret,
             buf |-> c.buf, old |-> c.old]
    BY <2>3, <2>7 DEF FileCall
  <2>10. /\ d.op = c.op /\ d.at = "loop" /\ d.ino = c.ino /\ d.pos = c.pos /\ d.off = o2
         /\ d.bytes = c.bytes /\ d.block = b /\ d.done = 0 /\ d.out = c.out /\ d.old = c.old
    BY <2>3, <2>9
  <2>11. d \in FileCall
    BY <2>3, <2>5, <2>6, <2>9, FileCallFields DEF FileCall
  <2>12. c.pos + 0 + c.bytes <= img.ino[c.ino].size
    BY <1>4, <2>2, <2>3
  <2>13. Progress(img, d)
    <3>1. d.pos + d.done + d.bytes <= img.ino[d.ino].size
      BY <2>10, <2>12
    <3>2. Offset(d.block, d.off) = d.pos + d.done
      <4>1. c.pos \in Nat /\ d.pos = c.pos /\ d.done = 0
        BY <2>3, <2>10
      <4>2. d.pos + d.done = c.pos
        BY <4>1
      <4>3. Offset(d.block, d.off) = c.pos
        BY <2>3, <2>5, <2>10
      <4> QED
        BY <4>2, <4>3
    <3>3. d.at = "loop" /\ d.off < BlockSize /\ ~(d.done > 0)
      BY <2>6, <2>10
    <3> QED
      BY <3>1, <3>2, <3>3 DEF Progress
  <2>14. HasRead(img, c) => HasRead(img, d)
    BY <2>3, <2>10 DEF HasRead
  <2>15. ASSUME HasWritten(img, c) PROVE HasWritten(img, d)
    <3>1. img.data = d.old
      BY <1>2, <2>2, <2>3, <2>10, <2>15 DEF HasWritten
    <3> QED
      BY <2>10, <3>1 DEF HasWritten
  <2>16. FileOK(img, d)
    BY <2>1, <2>2, <2>10, <2>11, <2>13, <2>14, <2>15 DEF FileOK
  <2> QED
    BY <1>2, <2>1, <2>8, <2>16 DEF FileInv
<1> QED
  BY <1>1, <1>3, <1>4

\* In a turn, the model's names.
LEMMA TurnNames ==
  /\ Address = BlockOf(img, call.ino, call.block) /\ ToCopy = Copy(call)
  /\ \A buf, out : Advance(buf, out) <=> call' = Turned(call, buf, out)
  /\ FilledBuf(call.buf) = Filled(img, call, Address)
  /\ \A v : Return(v) <=> call' = Ended(call, v)
<1>1. Address = BlockOf(img, call.ino, call.block)
  BY DEF Address, BlockOf
<1>2. ToCopy = Copy(call)
  BY DEF ToCopy, Copy
<1>3. \A buf, out : Advance(buf, out) <=> call' = Turned(call, buf, out)
  BY <1>2, Zenon DEF Advance, Turned
<1>4. FilledBuf(call.buf) = Filled(img, call, Address)
  BY <1>2 DEF FilledBuf, Filled
<1>5. \A v : Return(v) <=> call' = Ended(call, v)
  BY DEF Return, Ended
<1> QED
  BY <1>1, <1>2, <1>3, <1>4, <1>5

\* A turn of the loop of ext2_read_file().
LEMMA FileReadTurn ==
  ASSUME FileInv, ReadTurn
  PROVE  FileInv'
<1>1. call.op = "read" /\ call.at = "loop" /\ call.bytes > 0 /\ img' = img
  BY DEF ReadTurn, At
<1>2. FileOK(img, call) /\ img \in ImageType /\ ImageOK(img)
  BY <1>1, WhichCall DEF FileInv
<1>3. PICK a : a = Address
  OBVIOUS
<1>4. \/ Return(-1)
      \/ a # 0 /\ Advance(img.data[a], call.out \o SubSeq(img.data[a], call.off + 1, call.off + ToCopy))
  BY <1>3 DEF ReadTurn
<1>5. CASE Return(-1)
  BY <1>1, <1>5, FileEnds, TurnNames
<1>6. CASE a # 0 /\ Advance(img.data[a], call.out \o SubSeq(img.data[a], call.off + 1, call.off + ToCopy))
  <2>1. PICK c : c = call
    OBVIOUS
  <2>2. InTurn(img, c) /\ HasRead(img, c)
    BY <1>1, <1>2, <2>1 DEF InTurn, FileOK
  <2>3. a = BlockOf(img, c.ino, c.block)
    BY <1>3, <2>1, TurnNames
  <2>4. PICK buf, out : buf = img.data[a] /\ out = c.out \o Got(img, c, a)
    OBVIOUS
  <2>5. call' = Turned(c, buf, out)
    BY <1>6, <2>1, <2>4, TurnNames DEF Got
  <2>6. /\ buf \in [1 .. BlockSize -> Byte] /\ out \in Seq(Byte)
        /\ HasRead(img, Turned(c, buf, out))
    BY <1>2, <1>6, <2>2, <2>3, <2>4, ReadTurnKeeps
  <2>7. Progress(img, Turned(c, buf, out))
    BY <1>2, <2>2, <2>6, TurnProgress
  <2>8. Turned(c, buf, out) \in FileCall /\ Turned(c, buf, out).op = "read"
    BY <1>1, <1>2, <2>1, <2>2, <2>6, TurnedIs
  <2>9. FileOK(img, Turned(c, buf, out))
    BY <2>6, <2>7, <2>8 DEF FileOK
  <2> QED
    BY <1>1, <1>2, <2>5, <2>9 DEF FileInv
<1> QED
  BY <1>4, <1>5, <1>6

\* A turn of the loop of ext2_write_file(), good, failed or ended early.
LEMMA FileWriteTurn ==
  ASSUME FileInv, WriteTurn
  PROVE  FileInv'
<1>1. call.op = "write" /\ call.at = "loop" /\ call.bytes > 0
  BY DEF WriteTurn, At
<1>2. FileOK(img, call) /\ img \in ImageType /\ ImageOK(img)
  BY <1>1, WhichCall DEF FileInv
<1>3. PICK a : a = Address
  OBVIOUS
<1>4. PICK c : c = call
  OBVIOUS
<1>5. InTurn(img, c) /\ HasWritten(img, c) /\ BlocksDiffer(img) /\ c.done \in Nat
  BY <1>1, <1>2, <1>4, FileCallFields DEF InTurn, FileOK, ImageOK
<1>6. a = BlockOf(img, c.ino, c.block)
  BY <1>3, <1>4, TurnNames
<1>7. FilledBuf(call.buf) = Filled(img, c, a)
  BY <1>3, <1>4, TurnNames
<1>8. PICK m2 : m2 = Stored(img, a, Filled(img, c, a))
  OBVIOUS
<1>9. [img EXCEPT !.data[Address] = FilledBuf(call.buf)] = m2
  BY <1>3, <1>7, <1>8 DEF Stored
<1>10. \/ Return(call.done) /\ img' = img
       \/ Return(-1) /\ img' = img
       \/ a # 0 /\ Return(-1) /\ img' = m2
       \/ a # 0 /\ img' = m2 /\ Advance(FilledBuf(call.buf), <<>>)
  BY <1>3, <1>9 DEF WriteTurn
<1>11. CASE (Return(call.done) \/ Return(-1)) /\ img' = img
  BY <1>1, <1>4, <1>5, <1>11, FileEnds, TurnNames
<1>12. ASSUME a # 0 PROVE ImageOK(m2) /\ m2 \in ImageType /\ m2.ino = img.ino
  <2>1. TurnStored(img, c, m2)
    BY <1>2, <1>5, <1>6, <1>8, <1>12, StoreKeeps
  <2>2. /\ m2 \in ImageType /\ m2.ino = img.ino /\ m2.ptrs = img.ptrs /\ m2.dir = img.dir
        /\ m2.inodes_in_group = img.inodes_in_group
    BY <2>1 DEF TurnStored
  <2> QED
    BY <1>2, <2>2, SameTree
<1>13. CASE a # 0 /\ Return(-1) /\ img' = m2
  <2>1. call' = Ended(c, -1)
    BY <1>4, <1>13, TurnNames
  <2>2. HasWritten(m2, Ended(c, -1))
    BY <1>2, <1>5, <1>6, <1>8, <1>13, FailedStoreKeeps
  <2>3. c \in FileCall /\ Progress(img, c)
    BY <1>2, <1>4 DEF FileOK
  <2>4. Ended(c, -1) \in FileCall /\ Progress(img, Ended(c, -1))
    BY <1>2, <2>3, EndKeeps
  <2>5. Progress(m2, Ended(c, -1))
    BY <1>12, <1>13, <2>4 DEF Progress
  <2>6. Ended(c, -1).op = "write"
    BY <1>1, <1>4, <2>3, EndedIs
  <2>7. FileOK(m2, Ended(c, -1))
    BY <2>2, <2>4, <2>5, <2>6 DEF FileOK
  <2> QED
    BY <1>12, <1>13, <2>1, <2>7 DEF FileInv
<1>14. CASE a # 0 /\ img' = m2 /\ Advance(FilledBuf(call.buf), <<>>)
  <2>1. PICK buf, out : buf = Filled(img, c, a) /\ out = <<>>
    OBVIOUS
  <2>2. call' = Turned(c, buf, out)
    BY <1>4, <1>7, <1>14, <2>1, TurnNames
  <2>3. HasWritten(m2, Turned(c, buf, out))
    <3>1. HasWritten(m2, Turned(c, Filled(img, c, a), <<>>))
      BY <1>2, <1>5, <1>6, <1>8, <1>14, WriteTurnKeeps
    <3> QED
      BY <2>1, <3>1
  <2>4. a \in Block
    BY <1>2, <1>5, <1>6, BlocksAre, FileCallFields DEF InTurn
  <2>5. buf \in [1 .. BlockSize -> Byte] /\ out \in Seq(Byte)
    BY <1>2, <1>5, <2>1, <2>4, FilledIs
  <2>6. Progress(m2, Turned(c, buf, out))
    BY <1>2, <1>5, <1>12, <1>14, <2>5, TurnProgress
  <2>7. Turned(c, buf, out) \in FileCall /\ Turned(c, buf, out).op = "write"
    BY <1>1, <1>2, <1>4, <1>5, <2>5, TurnedIs
  <2>8. FileOK(m2, Turned(c, buf, out))
    BY <2>3, <2>6, <2>7 DEF FileOK
  <2> QED
    BY <1>12, <1>14, <2>2, <2>8 DEF FileInv
<1> QED
  BY <1>10, <1>11, <1>13, <1>14

\* The end of both loops.
LEMMA FileTransferDone ==
  ASSUME FileInv, TransferDone
  PROVE  FileInv'
<1>1. call.op \in {"read", "write"} /\ img' = img /\ call' = Ended(call, call.done)
  BY TurnNames DEF TransferDone
<1>2. call.done \in Int
  BY <1>1, WhichCall, FileCallFields DEF FileOK
<1> QED
  BY <1>1, <1>2, FileEnds

-----------------------------------------------------------------------------
\* The types of the local variables of ext2_mknod().
LEMMA NodFields ==
  ASSUME NEW c \in NodCall
  PROVE  /\ c.op = "mknod" /\ c.at \in {"entry", "ialloc", "balloc", "inode", "link", "return"}
         /\ c.past \in BOOLEAN /\ c.num \in 0 .. NumInodes - 1 /\ c.ret \in Int
         /\ c = [op |-> "mknod", at |-> c.at, past |-> c.past, num |-> c.num, ret |-> c.ret]
BY DEF NodCall

\* A step of ext2_mknod() that does not link the entry.
LEMMA NodSteps ==
  ASSUME ImageOK(img'), NEW c \in NodCall, call' = c, c.at \notin {"return", "link"}
  PROVE  FileInv'
BY DEF FileInv, NodOK

\* It returns.
LEMMA NodEnds ==
  ASSUME FileInv, call.op = "mknod", Return(0), ImageOK(img')
  PROVE  FileInv'
<1>1. PICK c : c = call
  OBVIOUS
<1>2. c \in NodCall
  BY <1>1, WhichCall DEF NodOK
<1>3. call' = [c EXCEPT !.at = "return", !.ret = 0]
  BY <1>1 DEF Return
<1>4. call' = [op |-> "mknod", at |-> "return", past |-> c.past, num |-> c.num, ret |-> 0]
  BY <1>2, <1>3, NodFields DEF NodCall
<1>5. call' \in NodCall /\ call'.at = "return"
  BY <1>2, <1>4, NodFields DEF NodCall
<1> QED
  BY <1>5 DEF FileInv, NodOK

\* ext2_mknod() begins with a name that is not listed.
LEMMA NodBegins ==
  ASSUME FileInv, ext2_mknod
  PROVE  FileInv'
<1>1. PICK c : c = [op |-> "mknod", at |-> "entry", past |-> FALSE, num |-> 0, ret |-> 0]
  OBVIOUS
<1>2. call' = c /\ img' = img
  BY <1>1 DEF ext2_mknod, Begin
<1>3. 0 \in 0 .. NumInodes - 1
  BY Ext2Assumption
<1>4. c \in NodCall /\ c.at = "entry"
  BY <1>1, <1>3 DEF NodCall
<1>5. ImageOK(img')
  BY <1>2 DEF FileInv
<1> QED
  BY <1>2, <1>4, <1>5, NodSteps

\* The search for the end of the directory.
LEMMA NodFindsEntry ==
  ASSUME FileInv, FindEntry
  PROVE  FileInv'
<1>1. call.op = "mknod" /\ call.at = "entry" /\ img' = img
  BY DEF FindEntry, At
<1>2. NodOK(img, call) /\ ImageOK(img')
  BY <1>1, WhichCall DEF FileInv
<1>3. \/ Return(0)
      \/ call' = [call EXCEPT !.at = "ialloc", !.past = ~img.dir[DirBlock].zero]
  BY DEF FindEntry
<1>4. CASE Return(0)
  BY <1>1, <1>2, <1>4, NodEnds
<1>5. CASE call' = [call EXCEPT !.at = "ialloc", !.past = ~img.dir[DirBlock].zero]
  <2>1. PICK c, past : c = call /\ past = ~img.dir[DirBlock].zero
    OBVIOUS
  <2>2. past \in BOOLEAN
    BY <2>1
  <2>3. c \in NodCall
    BY <1>2, <2>1 DEF NodOK
  <2>4. PICK d : d = [c EXCEPT !.at = "ialloc", !.past = past]
    OBVIOUS
  <2>5. d \in NodCall /\ d.at = "ialloc"
    BY <2>2, <2>3, <2>4 DEF NodCall
  <2>6. call' = d
    BY <1>5, <2>1, <2>4
  <2> QED
    BY <1>2, <2>5, <2>6, NodSteps
<1> QED
  BY <1>3, <1>4, <1>5

\* ext2_alloc_inode(): the number is that of an inode, or 0.
LEMMA NodAllocsInode ==
  ASSUME FileInv, ext2_alloc_inode
  PROVE  FileInv'
<1>1. PICK bit : bit = FirstClear(img.imap, img.ifree, img.inodes_in_group)
  OBVIOUS
<1>2. call.op = "mknod" /\ call.at = "ialloc"
  BY DEF ext2_alloc_inode, At
<1>3. \/ /\ bit # NoBit /\ call' = [call EXCEPT !.at = "balloc", !.num = bit]
         /\ img' = WithInodeBit(img, bit) \/ img' = img
      \/ call' = [call EXCEPT !.at = "balloc", !.num = 0] /\ img' = img
  BY <1>1 DEF ext2_alloc_inode, WithInodeBit
<1>4. NodOK(img, call) /\ ImageOK(img)
  BY <1>2, WhichCall DEF FileInv
<1>5. bit # NoBit => bit \in 0 .. NumInodes - 1
  <2>1. PICK per, all : per = img.inodes_in_group /\ all = Groups * per
    OBVIOUS
  <2>2. per \in Nat /\ per > 0 /\ all <= NumInodes
    BY <1>4, <2>1, ImageFields DEF ImageOK
  <2>3. all \in Nat /\ NumInodes \in Nat
    BY <2>1, <2>2, Ext2Assumption
  <2>4. bit = NoBit \/ bit \in 0 .. all - 1
    BY <1>1, <2>1, <2>2, FirstClearIs
  <2> QED
    BY <2>2, <2>3, <2>4
<1>6. ImageOK(img')
  <2>1. CASE img' = img
    BY <1>4, <2>1
  <2>2. CASE bit # NoBit /\ img' = WithInodeBit(img, bit)
    BY <1>4, <1>5, <2>2, BitsKeep
  <2> QED
    BY <1>3, <2>1, <2>2
<1>7. PICK num \in 0 .. NumInodes - 1 : call' = [call EXCEPT !.at = "balloc", !.num = num]
  <2>1. PICK max : max = NumInodes - 1
    OBVIOUS
  <2>2. 0 \in 0 .. max
    BY <2>1, Ext2Assumption
  <2>3. CASE call' = [call EXCEPT !.at = "balloc", !.num = 0]
    BY <2>1, <2>2, <2>3
  <2>4. CASE bit # NoBit /\ call' = [call EXCEPT !.at = "balloc", !.num = bit]
    BY <1>5, <2>4
  <2> QED
    BY <1>3, <2>3, <2>4
<1>8. PICK c, d : c = call /\ d = [c EXCEPT !.at = "balloc", !.num = num]
  OBVIOUS
<1>9. d \in NodCall /\ d.at = "balloc"
  BY <1>4, <1>8 DEF NodCall, NodOK
<1> QED
  BY <1>6, <1>7, <1>8, <1>9, NodSteps

\* ext2_alloc_blocks().
LEMMA NodAllocsBlock ==
  ASSUME FileInv, ext2_alloc_blocks
  PROVE  FileInv'
<1>1. PICK bit : bit = FirstClear(img.bmap, img.bfree, BlocksPerGroup)
  OBVIOUS
<1>2. call.op = "mknod" /\ call.at = "balloc" /\ call' = [call EXCEPT !.at = "inode"]
  BY DEF ext2_alloc_blocks, At
<1>3. (bit # NoBit /\ img' = WithBlockBit(img, bit)) \/ img' = img
  BY <1>1 DEF ext2_alloc_blocks, WithBlockBit
<1>4. NodOK(img, call) /\ ImageOK(img)
  BY <1>2, WhichCall DEF FileInv
<1>5. bit # NoBit => bit \in 0 .. Groups * BlocksPerGroup - 1
  BY <1>1, FirstClearIs, Ext2Assumption
<1>6. ImageOK(img')
  <2>1. CASE img' = img
    BY <1>4, <2>1
  <2>2. CASE bit # NoBit /\ img' = WithBlockBit(img, bit)
    BY <1>4, <1>5, <2>2, BitsKeep
  <2> QED
    BY <1>3, <2>1, <2>2
<1>7. PICK c, d : c = call /\ d = [c EXCEPT !.at = "inode"]
  OBVIOUS
<1>8. d \in NodCall /\ d.at = "inode"
  BY <1>4, <1>7 DEF NodCall, NodOK
<1> QED
  BY <1>2, <1>6, <1>7, <1>8, NodSteps

\* The new inode is stored, over that of a file if the bitmap says so.
LEMMA NodWritesInode ==
  ASSUME FileInv, ext2_write_inode
  PROVE  FileInv'
<1>1. call.op = "mknod" /\ call.at = "inode"
  BY DEF ext2_write_inode, At
<1>2. NodOK(img, call) /\ ImageOK(img) /\ call.num \in 0 .. NumInodes - 1
  BY <1>1, WhichCall, NodFields DEF FileInv, NodOK
<1>3. \/ Return(0) /\ img' = img
      \/ call.num # 0 /\ Return(0) /\ img' = WithInode(img, call.num, NewInode)
      \/ /\ call.num # 0 /\ call' = [call EXCEPT !.at = "link"]
         /\ img' = WithInode(img, call.num, NewInode)
  BY DEF ext2_write_inode, WithInode
<1>4. call.num # 0 => call.num \in Inode
  BY <1>2, Ext2Assumption DEF Inode
<1>5. ImageOK(img')
  <2>1. CASE img' = img
    BY <1>2, <2>1
  <2>2. CASE call.num # 0 /\ img' = WithInode(img, call.num, NewInode)
    BY <1>2, <1>4, <2>2, InodeKeeps
  <2> QED
    BY <1>3, <2>1, <2>2
<1>6. CASE Return(0)
  BY <1>1, <1>5, <1>6, NodEnds
<1>7. CASE call.num # 0 /\ call' = [call EXCEPT !.at = "link"]
  <2>1. PICK c, d : c = call /\ d = [c EXCEPT !.at = "link"]
    OBVIOUS
  <2>2. d \in NodCall /\ d.at = "link" /\ d.num # 0
    BY <1>2, <1>7, <2>1 DEF NodCall, NodOK
  <2>4. call' = d
    BY <1>7, <2>1
  <2>5. NodOK(img', d)
    BY <2>2 DEF NodOK
  <2> QED
    BY <1>5, <2>4, <2>5 DEF FileInv
<1> QED
  BY <1>3, <1>6, <1>7

\* The new entry is stored.
LEMMA NodLinks ==
  ASSUME FileInv, LinkEntry
  PROVE  FileInv'
<1>1. call.op = "mknod" /\ call.at = "link" /\ Return(0)
  BY DEF LinkEntry, At
<1>2. NodOK(img, call) /\ ImageOK(img) /\ call.num \in 0 .. NumInodes - 1
  BY <1>1, WhichCall, NodFields DEF FileInv, NodOK
<1>3. PICK e : e = [name |-> NewName, inode |-> call.num, type |-> "file"]
  OBVIOUS
<1>4. img' = img \/ img' = WithEntry(img, DirBlock, e)
  BY <1>3 DEF LinkEntry, WithEntry
<1>5. e \in [name : STRING, inode : Inode, type : EntryType] /\ e.name = NewName
  <2>1. call.num \in Inode /\ NewName \in STRING
    BY <1>1, <1>2, Ext2Assumption, StorageAssumption DEF Inode, NodOK
  <2>2. PICK num, name : num = call.num /\ name = NewName
    OBVIOUS
  <2>3. num \in Inode /\ name \in STRING
    BY <2>1, <2>2
  <2>4. e = [name |-> name, inode |-> num, type |-> "file"]
    BY <1>3, <2>2
  <2>5. e \in [name : STRING, inode : Inode, type : EntryType]
    BY <2>3, <2>4 DEF EntryType
  <2>6. e.name = name
    BY <2>4
  <2> QED
    BY <2>2, <2>5, <2>6
<1>7. DirBlock \in Block
  <2>1. img.ino[RootInode].direct \in [0 .. DIRECT - 1 -> Block]
    BY <1>2, ImageFields, SizesAre DEF ImageOK
  <2> QED
    BY <2>1, SizesAre DEF DirBlock
<1>8. ImageOK(img')
  BY <1>2, <1>4, <1>5, <1>7, LinkKeeps
<1> QED
  BY <1>1, <1>8, NodEnds

-----------------------------------------------------------------------------
\* Every step keeps the invariant.
LEMMA FileNext ==
  ASSUME FileInv, [Next]_vars
  PROVE  FileInv'
<1>1. CASE Booting
  BY <1>1, FileSame DEF Booting
<1>2. CASE \E i \in File, x \in Extent : ext2_read_file(i, x) \/ ext2_write_file(i, x)
  <2>1. PICK i \in File, x \in Extent : ext2_read_file(i, x) \/ ext2_write_file(i, x)
    BY <1>2
  <2>2. CASE ext2_read_file(i, x)
    BY <2>2, FileBegins DEF ext2_read_file
  <2>3. CASE ext2_write_file(i, x)
    BY <2>3, FileBegins DEF ext2_write_file
  <2> QED
    BY <2>1, <2>2, <2>3
<1>3. CASE ext2_mknod
  BY <1>3, NodBegins
<1>4. CASE CallStep
  <2>1. CASE LoadInode
    BY <2>1, FileLoadsInode
  <2>2. CASE ReadTurn
    BY <2>2, FileReadTurn
  <2>3. CASE WriteTurn
    BY <2>3, FileWriteTurn
  <2>4. CASE TransferDone
    BY <2>4, FileTransferDone
  <2>5. CASE Returned
    BY <2>5, FileReturned
  <2>6. CASE FindEntry
    BY <2>6, NodFindsEntry
  <2>7. CASE ext2_alloc_inode
    BY <2>7, NodAllocsInode
  <2>8. CASE ext2_alloc_blocks
    BY <2>8, NodAllocsBlock
  <2>9. CASE ext2_write_inode
    BY <2>9, NodWritesInode
  <2>10. CASE LinkEntry
    BY <2>10, NodLinks
  <2> QED
    BY <1>4, <2>1, <2>2, <2>3, <2>4, <2>5, <2>6, <2>7, <2>8, <2>9, <2>10 DEF CallStep
<1>5. CASE UNCHANGED vars
  BY <1>5, FileSame DEF vars
<1> QED
  BY <1>1, <1>2, <1>3, <1>4, <1>5 DEF Next

\* The files and the directory stay consistent, at every step of every call.
THEOREM FilesStayConsistent == Spec => []FileInv
<1>1. Init => FileInv
  BY FileInit
<1>2. FileInv /\ [Next]_vars => FileInv'
  BY FileNext
<1> QED
  BY <1>1, <1>2, PTL DEF Spec

\* For every image: each name in the listing of the root directory is found by a
\* search, in the inode of the listing, also while a file is created and after
\* it, except a file's name that list.c:65 reads past its end and a name that two
\* entries have.
THEOREM NamesAreFound == Spec => []ListedIsFound
<1>1. FileInv => ListedIsFound
  BY ListedAreFound DEF FileInv
<1> QED
  BY <1>1, FilesStayConsistent, PTL

\* The bytes of a file, by both definitions.
LEMMA ContentIs ==
  ASSUME NEW i, NEW k \in 1 .. img.ino[i].size, img.ino[i].size \in Nat
  PROVE  Content(i)[k] = ByteAt(img, i, k - 1) /\ Content(i)[k] = ByteAt(img, i, k - 1)
<1>1. Content(i)[k] = img.data[TrueBlock(img.ino[i], (k - 1) \div BlockSize)][((k - 1) % BlockSize) + 1]
  BY DEF Content
<1>2. \A n : TrueBlock(img.ino[i], n) = LayoutBlock(img, i, n)
  BY DEF TrueBlock, LayoutBlock
<1> QED
  BY <1>1, <1>2 DEF ByteAt

\* The content of a file is a sequence of bytes as long as the file.
LEMMA ContentType ==
  ASSUME img \in ImageType, NEW i \in Inode
  PROVE  /\ DOMAIN Content(i) = 1 .. img.ino[i].size /\ img.ino[i].size \in Nat
         /\ \A k \in 1 .. img.ino[i].size : Content(i)[k] = ByteAt(img, i, k - 1)
<1>1. img.ino[i].size \in Nat
  BY ImageFields
<1>2. DOMAIN Content(i) = 1 .. img.ino[i].size
  BY DEF Content
<1> QED
  BY <1>1, <1>2, ContentIs

\* A part of a function on 1 .. n, taken from the values at its places.
LEMMA PartIs ==
  ASSUME NEW f, NEW pos \in Nat, NEW len \in Nat, NEW S, NEW out \in Seq(S), Len(out) = len,
         \A k \in 1 .. len : out[k] = f[pos + k]
  PROVE  out = SubSeq(f, pos + 1, pos + len)
<1>1. SubSeq(f, pos + 1, pos + len) = [k \in 1 .. len |-> f[pos + k]]
  <2>1. SubSeq(f, pos + 1, pos + len) = [k \in 1 .. (1 + (pos + len) - (pos + 1)) |-> f[k + (pos + 1) - 1]]
    BY DEF SubSeq
  <2> QED
    BY <2>1
<1>2. out = [k \in 1 .. len |-> out[k]]
  OBVIOUS
<1> QED
  BY <1>1, <1>2

\* A read that succeeds has returned the bytes of the file.
THEOREM ReadsAreContent == Spec => []ReadIsContent
<1>1. FileInv => ReadIsContent
  <2> SUFFICES ASSUME FileInv, call.op = "read", call.at = "return", call.ret > 0
               PROVE  call.out = SubSeq(Content(call.ino), call.pos + 1, call.pos + call.ret)
    BY DEF ReadIsContent
  <2>1. call \in FileCall /\ Progress(img, call) /\ HasRead(img, call) /\ img \in ImageType
    BY WhichCall DEF FileOK
  <2>2. PICK i, pos, done, out, f :
          i = call.ino /\ pos = call.pos /\ done = call.done /\ out = call.out /\ f = Content(call.ino)
    OBVIOUS
  <2>3. i \in Inode /\ pos \in Nat /\ done \in Nat /\ out \in Seq(Byte) /\ call.ret \in Int
    BY <2>1, <2>2, FileCallFields
  <2>4. call.ret = done /\ done > 0
    BY <2>1, <2>2, <2>3 DEF Progress
  <2>5. pos + done <= img.ino[i].size /\ img.ino[i].size \in Nat
    BY <2>1, <2>2, <2>3, <2>4, ImageFields DEF Progress
  <2>6. Len(out) = done /\ \A k \in 1 .. done : out[k] = ByteAt(img, i, pos + k - 1)
    BY <2>1, <2>2 DEF HasRead
  <2>7. ASSUME NEW k \in 1 .. done PROVE out[k] = f[pos + k]
    <3>1. pos + k \in 1 .. img.ino[i].size
      BY <2>3, <2>5
    <3>2. out[k] = ByteAt(img, i, (pos + k) - 1)
      <4>1. pos + (k - 1) = (pos + k) - 1
        BY <2>3
      <4>2. out[k] = ByteAt(img, i, pos + (k - 1))
        BY <2>6
      <4> QED
        BY <4>1, <4>2
    <3>3. Content(i)[pos + k] = ByteAt(img, i, (pos + k) - 1)
      BY <2>1, <2>3, <3>1, ContentType
    <3> QED
      BY <2>2, <3>2, <3>3
  <2>8. out = SubSeq(f, pos + 1, pos + done)
    BY <2>3, <2>6, <2>7, PartIs
  <2> QED
    BY <2>2, <2>4, <2>8
<1> QED
  BY <1>1, FilesStayConsistent, PTL

\* At every moment of a write, what it has done is in the file and nothing else
\* has changed.
THEOREM WritesArePrefixes == Spec => []WriteIsPrefix
<1>1. FileInv => WriteIsPrefix
  <2> SUFFICES ASSUME FileInv, call.op = "write" PROVE WriteIsPrefix
    BY DEF WriteIsPrefix
  <2>1. call \in FileCall /\ Progress(img, call) /\ HasWritten(img, call) /\ img \in ImageType
    BY WhichCall DEF FileOK
  <2>2. PICK i, c : i = call.ino /\ c = call
    OBVIOUS
  <2>3. i \in Inode /\ c.pos \in Nat /\ c.done \in Nat /\ c.bytes \in Nat /\ c.block \in Nat
    BY <2>1, <2>2, FileCallFields
  <2>4. \A n : TrueBlock(img.ino[i], n) = LayoutBlock(img, i, n)
    BY DEF TrueBlock, LayoutBlock
  <2>5. ASSUME NEW k \in c.pos + 1 .. c.pos + c.done PROVE Content(i)[k] = NewByte
    <3>1. k - c.pos \in 1 .. c.done /\ c.done > 0
      BY <2>3
    <3>2. c.pos + c.done <= img.ino[i].size /\ img.ino[i].size \in Nat
      BY <2>1, <2>2, <2>3, <3>1, ImageFields DEF Progress
    <3>3. k \in 1 .. img.ino[i].size /\ c.pos + (k - c.pos) - 1 = k - 1
      BY <2>3, <3>2
    <3>4. ByteAt(img, i, c.pos + (k - c.pos) - 1) = NewByte
      BY <2>1, <2>2, <3>1 DEF HasWritten
    <3> QED
      BY <2>1, <2>3, <3>3, <3>4, ContentType
  <2>6. PICK first, last : first = FirstBlock(c) /\ last = LastBlock(c)
    OBVIOUS
  <2>7. first \in Nat /\ last \in Int
    BY <2>3, <2>6, SizesAre DEF FirstBlock, LastBlock
  <2>8. PICK T : T = {TrueBlock(img.ino[i], n) : n \in {m \in first .. last : m * BlockSize < img.ino[i].size}}
    OBVIOUS
  <2>9. ASSUME NEW b \in Block \ T PROVE img.data[b] = c.old[b]
    <3>1. SUFFICES ~Touched(img, c, b)
      BY <2>1, <2>2 DEF HasWritten
    <3>2. ASSUME NEW n \in Nat, first <= n, n <= last, n * BlockSize < img.ino[i].size,
                 b = LayoutBlock(img, i, n)
          PROVE  FALSE
      <4>1. n \in first .. last
        BY <2>7, <3>2
      <4>2. TrueBlock(img.ino[i], n) \in T
        BY <2>8, <3>2, <4>1
      <4> QED
        BY <2>4, <3>2, <4>2
    <3> QED
      BY <2>2, <2>6, <3>2 DEF Touched
  <2>10. ASSUME NEW x \in 1 .. c.pos % BlockSize
         PROVE  img.data[TrueBlock(img.ino[i], first)][x] = c.old[TrueBlock(img.ino[i], first)][x]
    <3>1. LayoutBlock(img, i, first) = TrueBlock(img.ino[i], first)
      BY <2>4
    <3> QED
      BY <2>1, <2>2, <2>6, <3>1 DEF HasWritten
  <2>11. first = call.pos \div BlockSize /\ last = IF call.bytes > 0 THEN call.block ELSE call.block - 1
    BY <2>2, <2>6 DEF FirstBlock, LastBlock
  <2>12. T = {TrueBlock(img.ino[call.ino], n) :
                n \in {m \in (call.pos \div BlockSize) .. (IF call.bytes > 0 THEN call.block ELSE call.block - 1) :
                       m * BlockSize < img.ino[call.ino].size}}
    BY <2>2, <2>8, <2>11, Zenon
  <2>13. /\ \A k \in call.pos + 1 .. call.pos + call.done : Content(call.ino)[k] = NewByte
         /\ \A b \in Block \ T : img.data[b] = call.old[b]
         /\ \A x \in 1 .. call.pos % BlockSize :
              img.data[TrueBlock(img.ino[call.ino], call.pos \div BlockSize)][x]
                = call.old[TrueBlock(img.ino[call.ino], call.pos \div BlockSize)][x]
    <3>1. \A k \in call.pos + 1 .. call.pos + call.done : Content(call.ino)[k] = NewByte
      BY <2>2, <2>5, Zenon
    <3>2. \A b \in Block \ T : img.data[b] = call.old[b]
      BY <2>2, <2>9, Zenon
    <3>3. \A x \in 1 .. call.pos % BlockSize :
            img.data[TrueBlock(img.ino[call.ino], call.pos \div BlockSize)][x]
              = call.old[TrueBlock(img.ino[call.ino], call.pos \div BlockSize)][x]
      BY <2>2, <2>10, <2>11, Zenon
    <3> QED
      BY <3>1, <3>2, <3>3
  <2> QED
    BY <2>12, <2>13, Zenon DEF WriteIsPrefix
<1> QED
  BY <1>1, FilesStayConsistent, PTL

-----------------------------------------------------------------------------
(***************************************************************************)
(* q is F[1] \o ... \o F[n].                                               *)
(***************************************************************************)
Place == [dev : Nat, start : Nat]

IsFlat(w, F, n) ==
  /\ w \in [0 .. n -> Seq(Place)]
  /\ w[0] = <<>>
  /\ \A k \in 1 .. n : w[k] = w[k - 1] \o F[k]

Flat(F, n, q) == \E w : IsFlat(w, F, n) /\ w[n] = q

\* Of nothing.
LEMMA FlatNone ==
  ASSUME NEW F
  PROVE  Flat(F, 0, <<>>)
<1>1. PICK w : w = [k \in 0 .. 0 |-> <<>>]
  OBVIOUS
<1>2. IsFlat(w, F, 0) /\ w[0] = <<>>
  BY <1>1 DEF IsFlat
<1> QED
  BY <1>2 DEF Flat

\* What it is a sequence of.
LEMMA FlatType ==
  ASSUME NEW F, NEW n \in Nat, NEW q, Flat(F, n, q)
  PROVE  q \in Seq(Place)
BY DEF Flat, IsFlat

\* Of one more.
LEMMA FlatMore ==
  ASSUME NEW F, NEW G, NEW n \in Nat, NEW q, Flat(F, n, q),
         \A k \in 1 .. n : G[k] = F[k], G[n + 1] \in Seq(Place)
  PROVE  Flat(G, n + 1, q \o G[n + 1])
<1>1. PICK w : IsFlat(w, F, n) /\ w[n] = q
  BY DEF Flat
<1>2. PICK r : r = q \o G[n + 1]
  OBVIOUS
<1>3. q \in Seq(Place) /\ r \in Seq(Place)
  <2>1. q \in Seq(Place)
    BY <1>1 DEF IsFlat
  <2>2. PICK t : t = G[n + 1]
    OBVIOUS
  <2>3. t \in Seq(Place)
    BY <2>2
  <2> QED
    BY <1>2, <2>1, <2>2, <2>3
<1>4. PICK v : v = [k \in 0 .. n + 1 |-> IF k = n + 1 THEN r ELSE w[k]]
  OBVIOUS
<1>5. v \in [0 .. n + 1 -> Seq(Place)]
  <2>1. ASSUME NEW k \in 0 .. n + 1 PROVE (IF k = n + 1 THEN r ELSE w[k]) \in Seq(Place)
    BY <1>1, <1>3 DEF IsFlat
  <2> QED
    BY <1>4, <2>1
<1>6. v[n + 1] = r /\ \A k \in 0 .. n : v[k] = w[k]
  BY <1>4
<1>7. v[0] = <<>>
  BY <1>1, <1>6 DEF IsFlat
<1>8. ASSUME NEW k \in 1 .. n + 1 PROVE v[k] = v[k - 1] \o G[k]
  <2>1. CASE k = n + 1
    <3>1. k - 1 = n /\ n \in 0 .. n
      BY <2>1
    <3>2. v[k - 1] = q
      BY <1>1, <1>6, <3>1
    <3> QED
      BY <1>2, <1>6, <2>1, <3>2
  <2>2. CASE k # n + 1
    <3>1. k \in 1 .. n /\ k \in 0 .. n /\ k - 1 \in 0 .. n
      BY <2>2
    <3>2. w[k] = w[k - 1] \o F[k]
      BY <1>1, <3>1 DEF IsFlat
    <3>3. v[k] = w[k] /\ v[k - 1] = w[k - 1] /\ G[k] = F[k]
      BY <1>6, <3>1
    <3> QED
      BY <3>2, <3>3
  <2> QED
    BY <2>1, <2>2
<1>9. IsFlat(v, G, n + 1)
  BY <1>5, <1>7, <1>8 DEF IsFlat
<1> QED
  BY <1>2, <1>6, <1>9 DEF Flat

\* Without the last.
FlatBefore(F, n, q) == \E p : Flat(F, n - 1, p) /\ q = p \o F[n]

\* Of one less.
LEMMA FlatLess ==
  ASSUME NEW F, NEW n \in Nat, NEW q, n > 0, Flat(F, n, q)
  PROVE  FlatBefore(F, n, q)
<1>1. PICK w : IsFlat(w, F, n) /\ w[n] = q
  BY DEF Flat
<1>2. PICK v : v = [k \in 0 .. n - 1 |-> w[k]]
  OBVIOUS
<1>3. v \in [0 .. n - 1 -> Seq(Place)]
  BY <1>1, <1>2 DEF IsFlat
<1>4. \A k \in 0 .. n - 1 : v[k] = w[k]
  BY <1>2
<1>5. v[0] = <<>>
  BY <1>1, <1>4 DEF IsFlat
<1>6. ASSUME NEW k \in 1 .. n - 1 PROVE v[k] = v[k - 1] \o F[k]
  <2>1. k \in 0 .. n - 1 /\ k - 1 \in 0 .. n - 1 /\ k \in 1 .. n
    OBVIOUS
  <2>2. w[k] = w[k - 1] \o F[k]
    BY <1>1, <2>1 DEF IsFlat
  <2> QED
    BY <1>4, <2>1, <2>2
<1>7. IsFlat(v, F, n - 1)
  BY <1>3, <1>5, <1>6 DEF IsFlat
<1>8. w[n] = w[n - 1] \o F[n]
  <2>1. n \in 1 .. n
    OBVIOUS
  <2> QED
    BY <1>1, <2>1 DEF IsFlat
<1>9. v[n - 1] = w[n - 1]
  BY <1>4
<1> QED
  BY <1>1, <1>7, <1>8, <1>9 DEF Flat, FlatBefore

\* What FlattenSeq() returns.
LEMMA FlattenIs ==
  ASSUME NEW F, NEW n \in Nat, F \in [1 .. n -> Seq(Place)], NEW q, Flat(F, n, q)
  PROVE  FlattenSeq(F) = q
<1>1. PICK w : IsFlat(w, F, n) /\ w[n] = q
  BY DEF Flat
<1>2. Len(F) = n
  BY FunctionIsSeq
<1>3. CASE n = 0
  <2>1. F = <<>>
    BY <1>3
  <2>2. q = <<>>
    BY <1>1, <1>3 DEF IsFlat
  <2> QED
    BY <1>2, <1>3, <2>1, <2>2 DEF FlattenSeq
<1>4. CASE n > 0
  <2>1. PICK u : u = [i \in 1 .. n |-> w[i]]
    OBVIOUS
  <2>2. \A i \in 1 .. n : u[i] = IF i = 1 THEN F[i] ELSE u[i - 1] \o F[i]
    <3>1. SUFFICES ASSUME NEW i \in 1 .. n PROVE u[i] = IF i = 1 THEN F[i] ELSE u[i - 1] \o F[i]
      OBVIOUS
    <3>2. u[i] = w[i] /\ w[i] = w[i - 1] \o F[i]
      BY <1>1, <2>1 DEF IsFlat
    <3>3. CASE i = 1
      <4>1. w[0] = <<>>
        BY <1>1 DEF IsFlat
      <4>2. PICK t : t = F[i]
        OBVIOUS
      <4>3. t \in Seq(Place)
        BY <4>2
      <4>4. <<>> \o t = t
        BY <4>3
      <4> QED
        BY <3>2, <3>3, <4>1, <4>2, <4>4
    <3>4. CASE i # 1
      BY <2>1, <3>2, <3>4
    <3> QED
      BY <3>3, <3>4
  <2>3. u = [i \in 1 .. n |-> IF i = 1 THEN F[i] ELSE u[i - 1] \o F[i]]
    BY <2>1, <2>2
  <2>4. PICK f : f = CHOOSE g : g = [i \in 1 .. Len(F) |-> IF i = 1 THEN F[i] ELSE g[i - 1] \o F[i]]
    OBVIOUS
  <2>5. f = [i \in 1 .. n |-> IF i = 1 THEN F[i] ELSE f[i - 1] \o F[i]]
    BY <1>2, <2>3, <2>4, Zenon
  <2>7. \A i \in 1 .. n : f[i] = IF i = 1 THEN F[i] ELSE f[i - 1] \o F[i]
    BY <2>5
  <2>8. f[n] = u[n]
    <3>1. SUFFICES ASSUME f[n] # u[n] PROVE FALSE
      OBVIOUS
    <3>2. PICK T : T = {j \in 1 .. n : f[j] # u[j]}
      OBVIOUS
    <3>3. T \subseteq Nat /\ T # {}
      BY <1>4, <3>1, <3>2
    <3>4. PICK j \in T : \A i \in T : j <= i
      BY <3>3, LeastNat
    <3>5. j \in 1 .. n /\ f[j] # u[j]
      BY <3>2, <3>4
    <3>6. CASE j = 1
      BY <2>2, <2>7, <3>5, <3>6
    <3>7. CASE j # 1
      <4>1. j - 1 \in 1 .. n /\ j - 1 \notin T
        BY <3>4, <3>5, <3>7
      <4>2. f[j - 1] = u[j - 1]
        BY <3>2, <4>1
      <4> QED
        BY <2>2, <2>7, <3>5, <3>7, <4>2
    <3> QED
      BY <3>6, <3>7
  <2>9. FlattenSeq(F) = f[n]
    <3>1. Len(F) # 0
      BY <1>2, <1>4
    <3>2. FlattenSeq(F) = f[Len(F)]
      BY <2>4, <3>1, Zenon DEF FlattenSeq
    <3> QED
      BY <1>2, <3>2
  <2>10. u[n] = q
    BY <1>1, <1>4, <2>1
  <2> QED
    BY <2>8, <2>9, <2>10
<1> QED
  BY <1>3, <1>4

GoodDisk == {d \in Disk : IsDisk(d)}

PlaceOf(m, n) == m[((n - 1) \div 4) + 1][((n - 1) % 4) + 1]

\* The first n places of a machine, searched.
IsSearch(h, m, n) ==
  h = [k \in 0 .. n |-> IF k = 0 THEN <<>> ELSE
                        IF PlaceOf(m, k) = None THEN h[k - 1] ELSE Append(h[k - 1], PlaceOf(m, k))]

\* What is in a place.
LEMMA PlaceIs ==
  ASSUME NEW m \in Machine, NEW n \in 1 .. 4 * Len(m)
  PROVE  PlaceOf(m, n) # None => PlaceOf(m, n) \in GoodDisk
<1>1. m \in Seq([1 .. 4 -> Disk \cup {None}])
  BY DrivesAssumption
<1>2. PICK len : len = Len(m)
  OBVIOUS
<1>3. len \in Nat /\ DOMAIN m = 1 .. len
  BY <1>1, <1>2
<1>4. PICK b, s : b = ((n - 1) \div 4) + 1 /\ s = ((n - 1) % 4) + 1
  OBVIOUS
<1>5. b \in 1 .. len /\ s \in 1 .. 4
  BY <1>2, <1>3, <1>4
<1>6. m[b] \in [1 .. 4 -> Disk \cup {None}]
  BY <1>1, <1>2, <1>5
<1>7. m[b][s] # None => IsDisk(m[b][s])
  BY <1>3, <1>5, DrivesAssumption
<1>8. m[b][s] \in Disk \cup {None}
  BY <1>5, <1>6
<1>9. PlaceOf(m, n) = m[b][s]
  BY <1>4 DEF PlaceOf
<1> QED
  BY <1>7, <1>8, <1>9 DEF GoodDisk

\* The search exists.
LEMMA SearchExists ==
  ASSUME NEW m \in Machine, NEW n \in Nat
  PROVE  \E h : IsSearch(h, m, n)
<1> SUFFICES ASSUME ~ \E h : IsSearch(h, m, n) PROVE FALSE
  OBVIOUS
<1>1. PICK T : T = {k \in Nat : ~ \E h : IsSearch(h, m, k)}
  OBVIOUS
<1>2. T \subseteq Nat /\ T # {}
  BY <1>1
<1>3. PICK k \in T : \A j \in T : k <= j
  BY <1>2, LeastNat
<1>4. k \in Nat /\ ~ \E h : IsSearch(h, m, k)
  BY <1>1, <1>3
<1>5. CASE k = 0
  <2>1. PICK h : h = [j \in 0 .. 0 |-> <<>>]
    OBVIOUS
  <2>2. h = [j \in 0 .. 0 |-> IF j = 0 THEN <<>> ELSE
                              IF PlaceOf(m, j) = None THEN h[j - 1] ELSE Append(h[j - 1], PlaceOf(m, j))]
    BY <2>1
  <2> QED
    BY <1>4, <1>5, <2>2 DEF IsSearch
<1>6. CASE k # 0
  <2>1. k - 1 \in Nat /\ k - 1 \notin T
    BY <1>3, <1>4, <1>6
  <2>2. PICK h : IsSearch(h, m, k - 1)
    BY <1>1, <2>1
  <2>3. PICK last : last = IF PlaceOf(m, k) = None THEN h[k - 1] ELSE Append(h[k - 1], PlaceOf(m, k))
    OBVIOUS
  <2>4. PICK g : g = [j \in 0 .. k |-> IF j = k THEN last ELSE h[j]]
    OBVIOUS
  <2>5. \A j \in 0 .. k - 1 : h[j] = IF j = 0 THEN <<>> ELSE
                 IF PlaceOf(m, j) = None THEN h[j - 1] ELSE Append(h[j - 1], PlaceOf(m, j))
    BY <2>2 DEF IsSearch
  <2>6. g[k] = last /\ \A j \in 0 .. k - 1 : g[j] = h[j]
    BY <1>4, <2>4
  <2>7. ASSUME NEW j \in 0 .. k
        PROVE  g[j] = IF j = 0 THEN <<>> ELSE
                 IF PlaceOf(m, j) = None THEN g[j - 1] ELSE Append(g[j - 1], PlaceOf(m, j))
    <3>1. CASE j = k
      <4>1. k - 1 \in 0 .. k - 1
        BY <2>1
      <4>2. g[k - 1] = h[k - 1]
        BY <2>6, <4>1
      <4> QED
        BY <1>6, <2>3, <2>6, <3>1, <4>2
    <3>2. CASE j # k
      <4>1. j \in 0 .. k - 1
        BY <1>4, <3>2
      <4>2. CASE j = 0
        BY <2>5, <2>6, <4>1, <4>2
      <4>3. CASE j # 0
        <5>1. j - 1 \in 0 .. k - 1
          BY <1>4, <4>1, <4>3
        <5>2. g[j] = h[j] /\ g[j - 1] = h[j - 1]
          BY <2>6, <4>1, <5>1
        <5> QED
          BY <2>5, <4>1, <4>3, <5>2
      <4> QED
        BY <4>2, <4>3
    <3> QED
      BY <3>1, <3>2
  <2>8. g = [j \in 0 .. k |-> IF j = 0 THEN <<>> ELSE
                 IF PlaceOf(m, j) = None THEN g[j - 1] ELSE Append(g[j - 1], PlaceOf(m, j))]
    BY <2>4, <2>7
  <2> QED
    BY <1>4, <2>8 DEF IsSearch
<1> QED
  BY <1>5, <1>6

\* What it finds.
LEMMA SearchFindsDisks ==
  ASSUME NEW m \in Machine, NEW h, IsSearch(h, m, 4 * Len(m)), NEW n \in 0 .. 4 * Len(m)
  PROVE  h[n] \in Seq(GoodDisk)
<1> SUFFICES ASSUME h[n] \notin Seq(GoodDisk) PROVE FALSE
  OBVIOUS
<1>1. PICK max : max = 4 * Len(m)
  OBVIOUS
<1>2. PICK T : T = {k \in 0 .. max : h[k] \notin Seq(GoodDisk)}
  OBVIOUS
<1>3. T \subseteq Nat /\ T # {}
  BY <1>1, <1>2
<1>4. PICK k \in T : \A j \in T : k <= j
  BY <1>3, LeastNat
<1>5. k \in 0 .. max /\ h[k] \notin Seq(GoodDisk)
  BY <1>2, <1>4
<1>6. h[k] = IF k = 0 THEN <<>> ELSE
             IF PlaceOf(m, k) = None THEN h[k - 1] ELSE Append(h[k - 1], PlaceOf(m, k))
  BY <1>1, <1>5 DEF IsSearch
<1>7. CASE k = 0
  BY <1>5, <1>6, <1>7
<1>8. CASE k # 0
  <2>1. k - 1 \in 0 .. max /\ k - 1 \notin T /\ k \in 1 .. 4 * Len(m)
    BY <1>1, <1>4, <1>5, <1>8
  <2>2. PICK s, p : s = h[k - 1] /\ p = PlaceOf(m, k)
    OBVIOUS
  <2>3. s \in Seq(GoodDisk)
    BY <1>2, <2>1, <2>2
  <2>4. p # None => p \in GoodDisk
    BY <2>1, <2>2, PlaceIs
  <2>5. p # None => Append(s, p) \in Seq(GoodDisk)
    BY <2>3, <2>4
  <2> QED
    BY <1>5, <1>6, <1>8, <2>2, <2>3, <2>5
<1> QED
  BY <1>7, <1>8

\* The IDE driver finds disks.
LEMMA IdeIsDisks ==
  ASSUME NEW m \in Machine
  PROVE  ide_refresh_disks(m) \in Seq(GoodDisk)
<1>1. Len(m) \in Nat
  BY DrivesAssumption
<1>2. PICK max : max = 4 * Len(m)
  OBVIOUS
<1>3. max \in Nat
  BY <1>1, <1>2
<1>4. PICK f : f = CHOOSE h : IsSearch(h, m, max)
  OBVIOUS
<1>5. IsSearch(f, m, max)
  <2>1. \E h : IsSearch(h, m, max)
    BY <1>3, SearchExists
  <2> QED
    BY <1>4, <2>1, Zenon
<1>6. f[max] \in Seq(GoodDisk)
  <2>1. max \in 0 .. max
    BY <1>3
  <2> QED
    BY <1>2, <1>5, <2>1, SearchFindsDisks
<1>7. ide_refresh_disks(m) = f[max]
  BY <1>2, <1>4, Zenon DEF ide_refresh_disks, IsSearch, PlaceOf
<1> QED
  BY <1>6, <1>7

\* IsValid, Partitions and FsOn of the disks in a list.
Valid(ide, d) ==
  /\ d.start <= SectorCount(ide[d.dev]) /\ d.count <= SectorCount(ide[d.dev])
  /\ d.count # 0 /\ d.start + d.count <= SectorCount(ide[d.dev])

EntryFits(ide, i, e) ==
  LET entry == MbrEntry(ide[i], e)
  IN  entry.used => Valid(ide, Drive(i, entry.start, entry.count, ""))

PartOf(ide, i, e) ==
  IF /\ ide[i].mbr[e].used /\ \A f \in 1 .. e : EntryFits(ide, i, f)
     /\ MbrEntry(ide[i], e).start \in ide[i].fs \ ide[i].bad
  THEN <<[dev |-> i, start |-> MbrEntry(ide[i], e).start]>> ELSE <<>>

Parts(ide, i, e) ==
  CASE e = 0 -> <<>>
    [] e = 1 -> PartOf(ide, i, 1)
    [] e = 2 -> PartOf(ide, i, 1) \o PartOf(ide, i, 2)
    [] e = 3 -> PartOf(ide, i, 1) \o PartOf(ide, i, 2) \o PartOf(ide, i, 3)
    [] OTHER -> PartOf(ide, i, 1) \o PartOf(ide, i, 2) \o PartOf(ide, i, 3) \o PartOf(ide, i, 4)

Whole(ide, i) == IF 0 \in ide[i].bad THEN <<>> ELSE <<[dev |-> i, start |-> 0]>>

FsOf(ide, i) ==
  IF ide[i].lba48 = 0 \/ ide[i].gpt THEN <<>>
  ELSE IF 0 \in ide[i].fs THEN Whole(ide, i) ELSE Parts(ide, i, 4)

DiskFs(ide) == [i \in 1 .. Len(ide) |-> FsOf(ide, i)]

IdeOK(ide) == ide \in Seq(GoodDisk)

\* The types of the parts of a disk, and what it has room for.
LEMMA DiskFields ==
  ASSUME NEW ide, IdeOK(ide), NEW i \in 1 .. Len(ide)
  PROVE  /\ ide[i].lba28 \in Nat /\ ide[i].lba48 \in Nat
         /\ ide[i].gpt \in BOOLEAN /\ ide[i].fs \subseteq Nat /\ ide[i].bad \subseteq Nat
         /\ ide[i].lba48 # 0 => ide[i].lba48 > 2 /\ \A s \in ide[i].fs : s + 2 < ide[i].lba48
         /\ SectorCount(ide[i]) > 2 /\ SectorCount(ide[i]) \in Nat
         /\ \A e \in 1 .. 4 : MbrEntry(ide[i], e).start \in Nat /\ MbrEntry(ide[i], e).count \in Nat
         /\ Word \in Nat /\ SectorCount(ide[i]) + 3 < Word
<1>1. PICK d : d = ide[i]
  OBVIOUS
<1>2. d \in GoodDisk
  BY <1>1 DEF IdeOK
<1>3. d \in Disk /\ IsDisk(d)
  BY <1>2 DEF GoodDisk
<1>4. /\ d.lba28 \in Nat /\ d.lba48 \in Nat /\ d.gpt \in BOOLEAN /\ d.fs \subseteq Nat /\ d.bad \subseteq Nat
      /\ d.mbr \in [1 .. 4 -> [used : BOOLEAN, start : 0 .. 2 * SignBit - 1,
                                count : 0 .. 2 * SignBit - 1]]
  BY <1>3 DEF Disk
<1>5. SectorCount(d) > 2 /\ \A s \in d.fs : s + 2 < SectorCount(d)
  BY <1>3 DEF IsDisk
<1>6. SectorCount(d) \in Nat /\ (d.lba48 # 0 => SectorCount(d) = d.lba48)
  BY <1>4 DEF SectorCount
<1>7. SignBit \in Nat /\ SignBit > 0 /\ Word \in Nat /\ 2 * SignBit <= Word
  BY DrivesAssumption
<1>8. ASSUME NEW x \in 0 .. 2 * SignBit - 1 PROVE Widened(x) \in Nat
  BY <1>7, <1>8 DEF Widened
<1>9. ASSUME NEW e \in 1 .. 4
      PROVE  MbrEntry(d, e).start \in Nat /\ MbrEntry(d, e).count \in Nat
  <2>1. d.mbr[e].start \in 0 .. 2 * SignBit - 1 /\ d.mbr[e].count \in 0 .. 2 * SignBit - 1
    BY <1>4
  <2> QED
    BY <1>8, <2>1 DEF MbrEntry
<1>10. SectorCount(d) + 3 < Word
  <2>1. 2 * SectorCount(d) < Word - SignBit
    BY <1>3 DEF IsDisk
  <2> QED
    BY <1>5, <1>6, <1>7, <2>1
<1> QED
  BY <1>1, <1>4, <1>5, <1>6, <1>7, <1>9, <1>10

\* A list of one place.
LEMMA PlaceType ==
  ASSUME NEW i \in Nat, NEW s \in Nat
  PROVE  <<[dev |-> i, start |-> s]>> \in Seq(Place)
<1>1. PICK p : p = [dev |-> i, start |-> s]
  OBVIOUS
<1>2. p \in Place
  BY <1>1 DEF Place
<1>3. <<p>> \in Seq(Place)
  BY <1>2
<1> QED
  BY <1>1, <1>3

\* What a partition adds is a list of places.
LEMMA PartType ==
  ASSUME NEW ide, IdeOK(ide), NEW i \in 1 .. Len(ide), NEW e \in 1 .. 4
  PROVE  PartOf(ide, i, e) \in Seq(Place)
<1>1. MbrEntry(ide[i], e).start \in Nat
  BY DiskFields
<1>2. i \in Nat
  OBVIOUS
<1>3. <<[dev |-> i, start |-> MbrEntry(ide[i], e).start]>> \in Seq(Place)
  BY <1>1, <1>2, PlaceType
<1>4. <<>> \in Seq(Place)
  OBVIOUS
<1> QED
  BY <1>3, <1>4, Zenon DEF PartOf

\* One more partition.
LEMMA PartsMore ==
  ASSUME NEW ide, IdeOK(ide), NEW i \in 1 .. Len(ide), NEW e \in 1 .. 4
  PROVE  /\ Parts(ide, i, e) = Parts(ide, i, e - 1) \o PartOf(ide, i, e)
         /\ Parts(ide, i, e) \in Seq(Place) /\ Parts(ide, i, e - 1) \in Seq(Place)
<1>1. PICK a, b, c, d : /\ a = PartOf(ide, i, 1) /\ b = PartOf(ide, i, 2)
                        /\ c = PartOf(ide, i, 3) /\ d = PartOf(ide, i, 4)
  OBVIOUS
<1>2. a \in Seq(Place) /\ b \in Seq(Place) /\ c \in Seq(Place) /\ d \in Seq(Place)
  BY <1>1, PartType
<1>3. <<>> \o a = a
  BY <1>2
<1>4. a \o b \in Seq(Place)
  BY <1>2
<1>5. a \o b \o c \in Seq(Place)
  BY <1>2, <1>4
<1>6. a \o b \o c \o d \in Seq(Place)
  BY <1>2, <1>5
<1>7. /\ Parts(ide, i, 0) = <<>> /\ Parts(ide, i, 1) = a /\ Parts(ide, i, 2) = a \o b
      /\ Parts(ide, i, 3) = a \o b \o c /\ Parts(ide, i, 4) = a \o b \o c \o d
  BY <1>1 DEF Parts
<1>8. <<>> \in Seq(Place)
  OBVIOUS
<1>9. CASE e = 1
  <2>1. e - 1 = 0
    BY <1>9
  <2> QED
    BY <1>1, <1>2, <1>3, <1>7, <1>8, <1>9, <2>1, Zenon
<1>10. CASE e = 2
  <2>1. e - 1 = 1
    BY <1>10
  <2> QED
    BY <1>1, <1>2, <1>4, <1>7, <1>10, <2>1, Zenon
<1>11. CASE e = 3
  <2>1. e - 1 = 2
    BY <1>11
  <2> QED
    BY <1>1, <1>4, <1>5, <1>7, <1>11, <2>1, Zenon
<1>12. CASE e = 4
  <2>1. e - 1 = 3
    BY <1>12
  <2> QED
    BY <1>1, <1>5, <1>6, <1>7, <1>12, <2>1, Zenon
<1>13. e = 1 \/ e = 2 \/ e = 3 \/ e = 4
  OBVIOUS
<1> QED
  BY <1>9, <1>10, <1>11, <1>12, <1>13, Zenon

\* Behind an invalid partition there is none.
LEMMA PartsEnd ==
  ASSUME NEW ide, IdeOK(ide), NEW i \in 1 .. Len(ide), NEW e \in 1 .. 4, ~EntryFits(ide, i, e)
  PROVE  Parts(ide, i, 4) = Parts(ide, i, e - 1)
<1>1. ASSUME NEW f \in 1 .. 4, f >= e PROVE PartOf(ide, i, f) = <<>>
  <2>1. e \in 1 .. f
    BY <1>1
  <2> QED
    BY <2>1 DEF PartOf
<1>2. ASSUME NEW f \in 1 .. 4, f >= e PROVE Parts(ide, i, f) = Parts(ide, i, f - 1)
  <2>1. PICK s : s = Parts(ide, i, f - 1)
    OBVIOUS
  <2>2. s \in Seq(Place)
    BY <2>1, PartsMore
  <2>3. s \o <<>> = s
    BY <2>2
  <2>4. PartOf(ide, i, f) = <<>>
    BY <1>1, <1>2
  <2>5. Parts(ide, i, f) = s \o PartOf(ide, i, f)
    BY <2>1, PartsMore
  <2> QED
    BY <2>1, <2>3, <2>4, <2>5
<1>3. Parts(ide, i, 4) = Parts(ide, i, 3)
  BY <1>2
<1>4. e <= 3 => Parts(ide, i, 3) = Parts(ide, i, 2)
  BY <1>2
<1>5. e <= 2 => Parts(ide, i, 2) = Parts(ide, i, 1)
  BY <1>2
<1>6. e <= 1 => Parts(ide, i, 1) = Parts(ide, i, 0)
  BY <1>2
<1>7. CASE e = 1
  BY <1>3, <1>4, <1>5, <1>6, <1>7
<1>8. CASE e = 2
  BY <1>3, <1>4, <1>5, <1>8
<1>9. CASE e = 3
  BY <1>3, <1>4, <1>9
<1>10. CASE e = 4
  BY <1>3, <1>10
<1> QED
  BY <1>7, <1>8, <1>9, <1>10

\* What a disk has is a list of places.
LEMMA FsOfType ==
  ASSUME NEW ide, IdeOK(ide), NEW i \in 1 .. Len(ide)
  PROVE  FsOf(ide, i) \in Seq(Place)
<1>1. Parts(ide, i, 4) \in Seq(Place)
  BY PartsMore
<1>2. <<[dev |-> i, start |-> 0]>> \in Seq(Place)
  BY PlaceType
<1>3. <<>> \in Seq(Place)
  OBVIOUS
<1> QED
  BY <1>1, <1>2, <1>3, Zenon DEF FsOf, Whole

\* What the disks have, disk by disk.
LEMMA DiskFsIs ==
  ASSUME NEW ide, IdeOK(ide)
  PROVE  /\ DiskFs(ide) \in [1 .. Len(ide) -> Seq(Place)] /\ Len(ide) \in Nat
         /\ \A i \in 1 .. Len(ide) : DiskFs(ide)[i] = FsOf(ide, i)
<1>1. Len(ide) \in Nat
  BY DEF IdeOK
<1>2. \A i \in 1 .. Len(ide) : FsOf(ide, i) \in Seq(Place)
  BY FsOfType
<1>3. DiskFs(ide) \in [1 .. Len(ide) -> Seq(Place)]
  BY <1>2, Zenon DEF DiskFs
<1> QED
  BY <1>1, <1>3 DEF DiskFs

\* FsOn says the same of the machine's disks.
LEMMA FsOnIs ==
  ASSUME NEW i
  PROVE  FsOn(i) = FsOf(Ide, i)
<1>1. ASSUME NEW d PROVE IsValid(d) = Valid(Ide, d)
  BY DEF IsValid, Valid
<1>2. ASSUME NEW e \in 1 .. 4
      PROVE  e \in Partitions(i) <=> (Ide[i].mbr[e].used /\ \A f \in 1 .. e : EntryFits(Ide, i, f))
  <2>1. ASSUME NEW f \in 1 .. 4
        PROVE  EntryFits(Ide, i, f)
                 <=> (Ide[i].mbr[f].used
                        => IsValid(Drive(i, MbrEntry(Ide[i], f).start, MbrEntry(Ide[i], f).count, "")))
    <3>1. MbrEntry(Ide[i], f).used = Ide[i].mbr[f].used
      BY DEF MbrEntry
    <3> QED
      BY <1>1, <3>1 DEF EntryFits
  <2>2. \A f \in 1 .. e : f \in 1 .. 4
    OBVIOUS
  <2> QED
    BY <2>1, <2>2, Zenon DEF Partitions
<1>3. ASSUME NEW e \in 1 .. 4
      PROVE  PartOf(Ide, i, e) = IF e \in Partitions(i) /\ MbrEntry(Ide[i], e).start \in Ide[i].fs \ Ide[i].bad
                                 THEN <<[dev |-> i, start |-> MbrEntry(Ide[i], e).start]>> ELSE <<>>
  BY <1>2 DEF PartOf
<1>4. Parts(Ide, i, 4) = PartOf(Ide, i, 1) \o PartOf(Ide, i, 2) \o PartOf(Ide, i, 3) \o PartOf(Ide, i, 4)
  BY DEF Parts
<1> DEFINE part(e) == IF e \in Partitions(i) /\ MbrEntry(Ide[i], e).start \in Ide[i].fs \ Ide[i].bad
                      THEN <<[dev |-> i, start |-> MbrEntry(Ide[i], e).start]>> ELSE <<>>
<1>5. FsOn(i) = IF Ide[i].lba48 = 0 \/ Ide[i].gpt THEN <<>>
                ELSE IF 0 \in Ide[i].fs THEN Whole(Ide, i)
                ELSE part(1) \o part(2) \o part(3) \o part(4)
  BY Zenon DEF FsOn, Whole
<1>6. part(1) = PartOf(Ide, i, 1) /\ part(2) = PartOf(Ide, i, 2)
  BY <1>3
<1>7. part(3) = PartOf(Ide, i, 3) /\ part(4) = PartOf(Ide, i, 4)
  BY <1>3
<1> HIDE DEF part
<1> QED
  BY <1>4, <1>5, <1>6, <1>7 DEF FsOf

TheTypes == {DRIVE_TYPE_RAW, DRIVE_TYPE_MBR, DRIVE_TYPE_GPT, DRIVE_TYPE_FS}

DriveType(ide) == [dev : 1 .. Len(ide), start : Nat, count : Nat, type : TheTypes]

\* A drive with a file system is where there is one.
DrivesOK(ide, ds) ==
  /\ ds \in Seq(DriveType(ide))
  /\ \A k \in 1 .. Len(ds) :
       ds[k].type = DRIVE_TYPE_FS => ds[k].start \in ide[ds[k].dev].fs /\ ide[ds[k].dev].lba48 # 0

\* What register_fs() adds for a drive.
Piece(ide, d) ==
  IF d.type = DRIVE_TYPE_FS /\ d.start \in ide[d.dev].fs \ ide[d.dev].bad
  THEN <<[dev |-> d.dev, start |-> d.start]>> ELSE <<>>

Pieces(ide, ds) == [k \in 1 .. Len(ds) |-> Piece(ide, ds[(Len(ds) - k) + 1])]

\* The file systems on the drives of a list, from its end.
Listing(ide, ds, q) == Flat(Pieces(ide, ds), Len(ds), q)

\* The outcomes of a transfer of a sector, if the device does not fail.
LEMMA OutcomeIs ==
  ASSUME NEW ide, IdeOK(ide), NEW i \in 1 .. Len(ide), NEW start \in Nat, NEW lba \in 0 .. 2,
         start <= SectorCount(ide[i]), NEW o \in drive_sectors(ide[i], start, lba, 1), o # "error"
  PROVE  /\ ide[i].lba48 < start + lba + 1 => o = "refused"
         /\ ~(ide[i].lba48 < start + lba + 1) => o = "ok"
<1>1. PICK n, all : n = ide[i].lba48 /\ all = SectorCount(ide[i])
  OBVIOUS
<1>2. n \in Nat /\ all \in Nat /\ all > 2 /\ all + 3 < Word /\ Word \in Nat
  BY <1>1, DiskFields
<1>3. ~(lba + 1 > all) /\ 1 # 0
  BY <1>2
<1>4. o \in ide_pio(ide[i], Plus(start, lba), 1)
  BY <1>1, <1>3 DEF drive_sectors
<1>5. Plus(Plus(start, lba), 1) = start + lba + 1
  <2>1. start + lba < Word /\ (start + lba) + 1 < Word
    BY <1>1, <1>2
  <2>2. Plus(start, lba) = start + lba
    BY <2>1 DEF Plus
  <2> QED
    BY <2>1, <2>2 DEF Plus
<1> QED
  BY <1>1, <1>4, <1>5 DEF ide_pio

\* What check_drive() says of a sector of the disk, if the device does not fail.
LEMMA CheckIs ==
  ASSUME NEW ide, IdeOK(ide), NEW i \in 1 .. Len(ide), NEW start \in Nat,
         start <= SectorCount(ide[i]),
         NEW c \in check_drive(ide[i], start), c.last # "error"
  PROVE  /\ c.type \in TheTypes
         /\ c.type = DRIVE_TYPE_FS => start \in ide[i].fs /\ ide[i].lba48 # 0
         /\ ide[i].lba48 = 0 => c.type = DRIVE_TYPE_RAW
         /\ ide[i].lba48 # 0 /\ ide[i].gpt /\ start = 0 => c.type = DRIVE_TYPE_GPT
         /\ ide[i].lba48 # 0 /\ ~ide[i].gpt => (c.type = DRIVE_TYPE_FS <=> start \in ide[i].fs)
         /\ ide[i].lba48 # 0 /\ ~ide[i].gpt /\ start = 0 /\ 0 \notin ide[i].fs => c.type = DRIVE_TYPE_MBR
<1>1. PICK n, all : n = ide[i].lba48 /\ all = SectorCount(ide[i])
  OBVIOUS
<1>2. /\ n \in Nat /\ all \in Nat /\ all > 2 /\ all + 3 < Word /\ Word \in Nat
      /\ n # 0 => n > 2 /\ \A s \in ide[i].fs : s + 2 < n
  BY <1>1, DiskFields
<1>3. PICK first, second : /\ first = drive_sectors(ide[i], start, 1, 1)
                           /\ second = drive_sectors(ide[i], start, 2, 1)
  OBVIOUS
<1>4. \A o \in first : o # "error" => /\ n < start + 1 + 1 => o = "refused"
                                      /\ ~(n < start + 1 + 1) => o = "ok"
  <2>1. 1 \in 0 .. 2
    OBVIOUS
  <2> QED
    BY <1>1, <1>3, <2>1, OutcomeIs
<1>5. \A o \in second : o # "error" => /\ n < start + 2 + 1 => o = "refused"
                                       /\ ~(n < start + 2 + 1) => o = "ok"
  <2>1. 2 \in 0 .. 2
    OBVIOUS
  <2> QED
    BY <1>1, <1>3, <2>1, OutcomeIs
<1>6. "ok" \in first <=> ~(n < start + 1 + 1)
  <2>1. ~(1 + 1 > all)
    BY <1>2
  <2>2. first = ide_pio(ide[i], Plus(start, 1), 1)
    BY <1>1, <1>3, <2>1 DEF drive_sectors
  <2>3. Plus(Plus(start, 1), 1) = start + 1 + 1
    <3>1. start + 1 < Word /\ (start + 1) + 1 < Word
      BY <1>1, <1>2
    <3>2. Plus(start, 1) = start + 1
      BY <3>1 DEF Plus
    <3> QED
      BY <3>1, <3>2 DEF Plus
  <2> QED
    BY <1>1, <2>2, <2>3 DEF ide_pio
<1>7. \/ \E o \in first : o # "ok" /\ c = [type |-> DRIVE_TYPE_RAW, last |-> o]
      \/ "ok" \in first /\ ide[i].gpt /\ start = 0 /\ c = [type |-> DRIVE_TYPE_GPT, last |-> "ok"]
      \/ /\ "ok" \in first /\ ~(ide[i].gpt /\ start = 0)
         /\ \E o \in second :
              c = [type |-> IF o = "ok" /\ start \in ide[i].fs THEN DRIVE_TYPE_FS ELSE DRIVE_TYPE_MBR,
                   last |-> o]
  BY <1>3 DEF check_drive
<1>8. CASE \E o \in first : o # "ok" /\ c = [type |-> DRIVE_TYPE_RAW, last |-> o]
  <2>1. PICK o \in first : o # "ok" /\ c = [type |-> DRIVE_TYPE_RAW, last |-> o]
    BY <1>8
  <2>2. c.type = DRIVE_TYPE_RAW /\ c.last = o
    BY <2>1
  <2>3. n < start + 1 + 1
    BY <1>4, <2>1, <2>2
  <2>4. n # 0 => start # 0 /\ start \notin ide[i].fs
    BY <1>2, <2>3
  <2> QED
    BY <1>1, <2>2, <2>4 DEF TheTypes, DRIVE_TYPE_RAW, DRIVE_TYPE_MBR, DRIVE_TYPE_GPT, DRIVE_TYPE_FS
<1>9. CASE "ok" \in first /\ ide[i].gpt /\ start = 0 /\ c = [type |-> DRIVE_TYPE_GPT, last |-> "ok"]
  <2>1. c.type = DRIVE_TYPE_GPT
    BY <1>9
  <2>2. n # 0
    BY <1>2, <1>6, <1>9
  <2> QED
    BY <1>1, <1>9, <2>1, <2>2 DEF TheTypes, DRIVE_TYPE_RAW, DRIVE_TYPE_MBR, DRIVE_TYPE_GPT, DRIVE_TYPE_FS
<1>10. CASE /\ "ok" \in first /\ ~(ide[i].gpt /\ start = 0)
            /\ \E o \in second :
                 c = [type |-> IF o = "ok" /\ start \in ide[i].fs THEN DRIVE_TYPE_FS ELSE DRIVE_TYPE_MBR,
                      last |-> o]
  <2>1. PICK o \in second :
          c = [type |-> IF o = "ok" /\ start \in ide[i].fs THEN DRIVE_TYPE_FS ELSE DRIVE_TYPE_MBR, last |-> o]
    BY <1>10
  <2>2. c.type = (IF o = "ok" /\ start \in ide[i].fs THEN DRIVE_TYPE_FS ELSE DRIVE_TYPE_MBR) /\ c.last = o
    BY <2>1
  <2>3. n # 0
    BY <1>2, <1>6, <1>10
  <2>4. start \in ide[i].fs => o = "ok"
    <3>1. start \in ide[i].fs => ~(n < start + 2 + 1)
      BY <1>2, <2>3
    <3> QED
      BY <1>5, <2>2, <3>1
  <2>5. c.type = IF start \in ide[i].fs THEN DRIVE_TYPE_FS ELSE DRIVE_TYPE_MBR
    BY <2>2, <2>4
  <2> QED
    BY <1>1, <1>10, <2>3, <2>5 DEF TheTypes, DRIVE_TYPE_RAW, DRIVE_TYPE_MBR, DRIVE_TYPE_GPT, DRIVE_TYPE_FS
<1> QED
  BY <1>7, <1>8, <1>9, <1>10

\* What a drive adds is a list of places.
LEMMA PieceType ==
  ASSUME NEW ide, IdeOK(ide), NEW d \in DriveType(ide)
  PROVE  Piece(ide, d) \in Seq(Place)
<1>1. d.dev \in Nat /\ d.start \in Nat
  BY DEF DriveType
<1>2. <<[dev |-> d.dev, start |-> d.start]>> \in Seq(Place)
  BY <1>1, PlaceType
<1>3. <<>> \in Seq(Place)
  OBVIOUS
<1> QED
  BY <1>2, <1>3, Zenon DEF Piece

\* One more drive at the front.
LEMMA Prepended ==
  ASSUME NEW S, NEW s \in Seq(S), NEW d \in S
  PROVE  /\ <<d>> \o s \in Seq(S) /\ Len(<<d>> \o s) = Len(s) + 1 /\ (<<d>> \o s)[1] = d
         /\ \A k \in 1 .. Len(s) : (<<d>> \o s)[k + 1] = s[k]
OBVIOUS

\* register_drive() puts a drive at the front, and what it adds to the end.
LEMMA ListingMore ==
  ASSUME NEW ide, IdeOK(ide), NEW ds, DrivesOK(ide, ds), NEW q, Listing(ide, ds, q),
         NEW d \in DriveType(ide),
         d.type = DRIVE_TYPE_FS => d.start \in ide[d.dev].fs /\ ide[d.dev].lba48 # 0
  PROVE  /\ DrivesOK(ide, <<d>> \o ds)
         /\ Listing(ide, <<d>> \o ds, q \o Piece(ide, d))
<1>1. PICK es, n : es = <<d>> \o ds /\ n = Len(ds)
  OBVIOUS
<1>2. /\ ds \in Seq(DriveType(ide)) /\ n \in Nat
      /\ es \in Seq(DriveType(ide)) /\ Len(es) = n + 1 /\ es[1] = d
      /\ \A k \in 1 .. n : es[k + 1] = ds[k]
  BY <1>1, Prepended DEF DrivesOK
<1>3. DrivesOK(ide, es)
  <2>1. ASSUME NEW k \in 1 .. Len(es), es[k].type = DRIVE_TYPE_FS
        PROVE  es[k].start \in ide[es[k].dev].fs /\ ide[es[k].dev].lba48 # 0
    <3>1. CASE k = 1
      BY <1>2, <2>1, <3>1
    <3>2. CASE k # 1
      <4>1. PICK j : j = k - 1
        OBVIOUS
      <4>2. j \in 1 .. n /\ k = j + 1
        BY <1>2, <3>2, <4>1
      <4>3. es[k] = ds[j]
        BY <1>2, <4>2
      <4> QED
        BY <1>1, <2>1, <4>2, <4>3 DEF DrivesOK
    <3> QED
      BY <3>1, <3>2
  <2> QED
    BY <1>2, <2>1 DEF DrivesOK
<1>4. PICK F, G : F = Pieces(ide, ds) /\ G = Pieces(ide, es)
  OBVIOUS
<1>5. ASSUME NEW k \in 1 .. n PROVE G[k] = F[k]
  <2>1. k \in 1 .. Len(es) /\ (Len(es) - k) + 1 = ((n - k) + 1) + 1 /\ (n - k) + 1 \in 1 .. n
    BY <1>2
  <2>2. es[(Len(es) - k) + 1] = ds[(n - k) + 1]
    BY <1>2, <2>1
  <2>3. G[k] = Piece(ide, es[(Len(es) - k) + 1])
    BY <1>4, <2>1 DEF Pieces
  <2>4. F[k] = Piece(ide, ds[(n - k) + 1])
    BY <1>1, <1>4 DEF Pieces
  <2> QED
    BY <2>2, <2>3, <2>4
<1>6. G[n + 1] = Piece(ide, d)
  <2>1. n + 1 \in 1 .. Len(es) /\ (Len(es) - (n + 1)) + 1 = 1
    BY <1>2
  <2>2. G[n + 1] = Piece(ide, es[(Len(es) - (n + 1)) + 1])
    BY <1>4, <2>1 DEF Pieces
  <2> QED
    BY <1>2, <2>1, <2>2
<1>7. G[n + 1] \in Seq(Place)
  BY <1>6, PieceType
<1>8. Flat(F, n, q)
  BY <1>1, <1>4 DEF Listing
<1>9. Flat(G, n + 1, q \o G[n + 1])
  BY <1>2, <1>5, <1>7, <1>8, FlatMore
<1>10. Listing(ide, es, q \o Piece(ide, d))
  BY <1>2, <1>4, <1>6, <1>9 DEF Listing
<1> QED
  BY <1>1, <1>3, <1>10

Places(fs) == [x \in DOMAIN fs |-> [dev |-> fs[x].dev, start |-> fs[x].start]]

\* The first n disks have been searched, and the list of drives has what is there.
Scanned(ide, ds, n) == \E q : Flat(DiskFs(ide), n, q) /\ Listing(ide, ds, q)

\* A disk that may have partitions.
Plain(ide, i) == ide[i].lba48 # 0 /\ ~ide[i].gpt /\ 0 \notin ide[i].fs

\* So have the disks before i and the entries before e of disk i.
PartScanned(ide, ds, i, e) ==
  /\ \A f \in 1 .. e - 1 : EntryFits(ide, i, f)
  /\ \E q : Flat(DiskFs(ide), i - 1, q) /\ Listing(ide, ds, q \o Parts(ide, i, e - 1))

\* Only the disk itself is still missing.
WholeDrive(ide, i, type) == Drive(i, 0, SectorCount(ide[i]), type)

WholeScanned(ide, ds, i, type) ==
  /\ type = DRIVE_TYPE_FS => 0 \in ide[i].fs /\ ide[i].lba48 # 0
  /\ \E q, r : /\ Flat(DiskFs(ide), i - 1, q) /\ Listing(ide, ds, r)
               /\ r \o Piece(ide, WholeDrive(ide, i, type)) = q \o FsOf(ide, i)

\* The drives before i have been registered: what is found is behind what the
\* others have.
FsScanned(ide, ds, fs, i) ==
  /\ fs \in Seq(DriveType(ide)) /\ i \in 1 .. Len(ds) + 1
  /\ \E q : /\ Flat(Pieces(ide, ds), Len(ds) - (i - 1), q)
            /\ Flat(DiskFs(ide), Len(ide), q \o Places(fs))

\* The types of drives differ.
LEMMA TypesDiffer ==
  /\ DRIVE_TYPE_RAW # DRIVE_TYPE_FS /\ DRIVE_TYPE_MBR # DRIVE_TYPE_FS /\ DRIVE_TYPE_GPT # DRIVE_TYPE_FS
  /\ DRIVE_TYPE_RAW # DRIVE_TYPE_MBR /\ DRIVE_TYPE_GPT # DRIVE_TYPE_MBR
BY DEF DRIVE_TYPE_RAW, DRIVE_TYPE_MBR, DRIVE_TYPE_GPT, DRIVE_TYPE_FS

\* The parts of a drive.
LEMMA DriveFields ==
  ASSUME NEW i, NEW start, NEW count, NEW type
  PROVE  /\ Drive(i, start, count, type).dev = i /\ Drive(i, start, count, type).start = start
         /\ Drive(i, start, count, type).count = count /\ Drive(i, start, count, type).type = type
BY DEF Drive

\* Its type.
LEMMA DriveIsType ==
  ASSUME NEW ide, NEW i \in 1 .. Len(ide), NEW start \in Nat, NEW count \in Nat, NEW type \in TheTypes
  PROVE  Drive(i, start, count, type) \in DriveType(ide)
BY DEF Drive, DriveType

\* A drive without a file system adds nothing.
LEMMA NoPiece ==
  ASSUME NEW ide, NEW d, d.type # DRIVE_TYPE_FS
  PROVE  Piece(ide, d) = <<>>
BY DEF Piece

\* In the beginning.
LEMMA NothingScanned ==
  ASSUME NEW ide
  PROVE  Scanned(ide, <<>>, 0) /\ DrivesOK(ide, <<>>)
<1>1. Len(<<>>) = 0
  OBVIOUS
<1>2. Flat(DiskFs(ide), 0, <<>>) /\ Flat(Pieces(ide, <<>>), 0, <<>>)
  BY FlatNone
<1>3. Listing(ide, <<>>, <<>>)
  BY <1>1, <1>2 DEF Listing
<1>4. <<>> \in Seq(DriveType(ide))
  OBVIOUS
<1> QED
  BY <1>1, <1>2, <1>3, <1>4 DEF Scanned, DrivesOK

\* What is on the disk?
LEMMA DiskScanned ==
  ASSUME NEW ide, IdeOK(ide), NEW ds, NEW i \in 1 .. Len(ide), Scanned(ide, ds, i - 1),
         NEW c \in check_drive(ide[i], 0), c.last # "error"
  PROVE  /\ c.type = DRIVE_TYPE_MBR => Plain(ide, i)
         /\ c.type # DRIVE_TYPE_MBR => WholeScanned(ide, ds, i, c.type)
<1>1. /\ c.type \in TheTypes
      /\ c.type = DRIVE_TYPE_FS => 0 \in ide[i].fs /\ ide[i].lba48 # 0
      /\ ide[i].lba48 = 0 => c.type = DRIVE_TYPE_RAW
      /\ ide[i].lba48 # 0 /\ ide[i].gpt => c.type = DRIVE_TYPE_GPT
      /\ ide[i].lba48 # 0 /\ ~ide[i].gpt => (c.type = DRIVE_TYPE_FS <=> 0 \in ide[i].fs)
      /\ ide[i].lba48 # 0 /\ ~ide[i].gpt /\ 0 \notin ide[i].fs => c.type = DRIVE_TYPE_MBR
  <2>1. 0 \in Nat /\ 0 <= SectorCount(ide[i])
    BY DiskFields
  <2> QED
    BY <2>1, CheckIs
<1>2. c.type = DRIVE_TYPE_MBR => Plain(ide, i)
  BY <1>1, TypesDiffer DEF Plain
<1>3. ASSUME c.type # DRIVE_TYPE_MBR PROVE Piece(ide, WholeDrive(ide, i, c.type)) = FsOf(ide, i)
  <2>1. PICK d : d = WholeDrive(ide, i, c.type)
    OBVIOUS
  <2>2. d.dev = i /\ d.start = 0 /\ d.type = c.type
    BY <2>1, DriveFields DEF WholeDrive
  <2>3. CASE ide[i].lba48 = 0 \/ ide[i].gpt
    <3>1. FsOf(ide, i) = <<>>
      BY <2>3 DEF FsOf
    <3>2. c.type # DRIVE_TYPE_FS
      BY <1>1, <2>3, TypesDiffer
    <3> QED
      BY <2>1, <2>2, <3>1, <3>2, NoPiece
  <2>4. CASE ~(ide[i].lba48 = 0 \/ ide[i].gpt)
    <3>1. c.type = DRIVE_TYPE_FS /\ 0 \in ide[i].fs
      BY <1>1, <1>3, <2>4
    <3>2. FsOf(ide, i) = Whole(ide, i)
      BY <2>4, <3>1 DEF FsOf
    <3>3. Piece(ide, d) = Whole(ide, i)
      BY <2>2, <3>1 DEF Piece, Whole
    <3> QED
      BY <2>1, <3>2, <3>3
  <2> QED
    BY <2>3, <2>4
<1>4. ASSUME c.type # DRIVE_TYPE_MBR PROVE WholeScanned(ide, ds, i, c.type)
  <2>1. PICK q : Flat(DiskFs(ide), i - 1, q) /\ Listing(ide, ds, q)
    BY DEF Scanned
  <2>2. q \o Piece(ide, WholeDrive(ide, i, c.type)) = q \o FsOf(ide, i)
    BY <1>3, <1>4
  <2> QED
    BY <1>1, <2>1, <2>2 DEF WholeScanned
<1> QED
  BY <1>2, <1>4

\* No entry of the MBR yet.
LEMMA NoPartScanned ==
  ASSUME NEW ide, NEW ds, NEW i \in Nat, i > 0, Scanned(ide, ds, i - 1)
  PROVE  PartScanned(ide, ds, i, 1)
<1>1. PICK q : Flat(DiskFs(ide), i - 1, q) /\ Listing(ide, ds, q)
  BY DEF Scanned
<1>2. q \in Seq(Place)
  <2>1. i - 1 \in Nat
    OBVIOUS
  <2> QED
    BY <1>1, <2>1, FlatType
<1>3. q \o <<>> = q
  BY <1>2
<1>4. 1 - 1 = 0 /\ 1 .. 1 - 1 = {}
  OBVIOUS
<1>5. Parts(ide, i, 0) = <<>>
  BY DEF Parts
<1>6. q \o Parts(ide, i, 1 - 1) = q
  BY <1>3, <1>4, <1>5
<1> QED
  BY <1>1, <1>4, <1>6 DEF PartScanned

\* Concatenation of lists of places.
LEMMA ThreeParts ==
  ASSUME NEW s \in Seq(Place), NEW t \in Seq(Place), NEW u \in Seq(Place)
  PROVE  (s \o t) \o u = s \o (t \o u)
BY ConcatAssociative

\* Their type.
LEMMA TwoParts ==
  ASSUME NEW s \in Seq(Place), NEW t \in Seq(Place)
  PROVE  s \o t \in Seq(Place)
OBVIOUS

\* The parts of PartScanned.
LEMMA PartScannedIs ==
  ASSUME NEW ide, IdeOK(ide), NEW ds, NEW i \in 1 .. Len(ide), NEW e \in 1 .. 4,
         PartScanned(ide, ds, i, e)
  PROVE  \E q \in Seq(Place) : /\ Flat(DiskFs(ide), i - 1, q)
                               /\ Listing(ide, ds, q \o Parts(ide, i, e - 1))
                               /\ q \o Parts(ide, i, e) = (q \o Parts(ide, i, e - 1)) \o PartOf(ide, i, e)
                               /\ q \o Parts(ide, i, e - 1) \in Seq(Place)
<1>1. PICK q : Flat(DiskFs(ide), i - 1, q) /\ Listing(ide, ds, q \o Parts(ide, i, e - 1))
  BY DEF PartScanned
<1>2. i - 1 \in Nat
  OBVIOUS
<1>3. q \in Seq(Place)
  BY <1>1, <1>2, FlatType
<1>4. PICK p, r : p = Parts(ide, i, e - 1) /\ r = PartOf(ide, i, e)
  OBVIOUS
<1>5. p \in Seq(Place) /\ r \in Seq(Place) /\ Parts(ide, i, e) = p \o r
  BY <1>4, PartsMore, PartType
<1>6. (q \o p) \o r = q \o (p \o r)
  BY <1>3, <1>5, ThreeParts, Zenon
<1>7. q \o p \in Seq(Place)
  BY <1>3, <1>5, TwoParts, Zenon
<1> QED
  BY <1>1, <1>3, <1>4, <1>5, <1>6, <1>7

\* An entry that is not used.
LEMMA UnusedScanned ==
  ASSUME NEW ide, IdeOK(ide), NEW ds, NEW i \in 1 .. Len(ide), NEW e \in 1 .. 4,
         PartScanned(ide, ds, i, e), ~ide[i].mbr[e].used
  PROVE  PartScanned(ide, ds, i, e + 1)
<1>1. PICK q \in Seq(Place) : /\ Flat(DiskFs(ide), i - 1, q)
                              /\ Listing(ide, ds, q \o Parts(ide, i, e - 1))
                              /\ q \o Parts(ide, i, e) = (q \o Parts(ide, i, e - 1)) \o PartOf(ide, i, e)
                              /\ q \o Parts(ide, i, e - 1) \in Seq(Place)
  BY PartScannedIs
<1>2. PICK s : s = q \o Parts(ide, i, e - 1)
  OBVIOUS
<1>3. PartOf(ide, i, e) = <<>>
  BY DEF PartOf
<1>4. s \o <<>> = s
  BY <1>1, <1>2, ConcatEmptySeq
<1>5. (e + 1) - 1 = e
  OBVIOUS
<1>6. q \o Parts(ide, i, (e + 1) - 1) = s
  BY <1>1, <1>2, <1>3, <1>4, <1>5
<1>7. ASSUME NEW f \in 1 .. (e + 1) - 1 PROVE EntryFits(ide, i, f)
  <2>1. CASE f = e
    BY <2>1 DEF EntryFits, MbrEntry
  <2>2. CASE f # e
    <3>1. f \in 1 .. e - 1
      BY <2>2
    <3> QED
      BY <3>1 DEF PartScanned
  <2> QED
    BY <2>1, <2>2
<1> QED
  BY <1>1, <1>2, <1>6, <1>7 DEF PartScanned

\* Whether an entry fits does not depend on what is on it.
LEMMA FitsIs ==
  ASSUME NEW ide, NEW i, NEW e, ide[i].mbr[e].used, NEW type
  PROVE  EntryFits(ide, i, e) <=> Valid(ide, Drive(i, MbrEntry(ide[i], e).start, MbrEntry(ide[i], e).count, type))
<1>1. PICK s, c : s = MbrEntry(ide[i], e).start /\ c = MbrEntry(ide[i], e).count
  OBVIOUS
<1>2. Valid(ide, Drive(i, s, c, type)) <=> Valid(ide, Drive(i, s, c, ""))
  <2>0. PICK none : none = ""
    OBVIOUS
  <2>1. PICK d, f : d = Drive(i, s, c, type) /\ f = Drive(i, s, c, none)
    OBVIOUS
  <2>2. d.dev = f.dev /\ d.start = f.start /\ d.count = f.count
    <3>1. d.dev = i /\ d.start = s /\ d.count = c
      BY <2>1, DriveFields
    <3>2. f.dev = i /\ f.start = s /\ f.count = c
      BY <2>1, DriveFields
    <3> QED
      BY <3>1, <3>2
  <2>3. Valid(ide, d) <=> Valid(ide, f)
    BY <2>2, Zenon DEF Valid
  <2> QED
    BY <2>0, <2>1, <2>3
<1>3. MbrEntry(ide[i], e).used
  BY DEF MbrEntry
<1> QED
  BY <1>1, <1>2, <1>3 DEF EntryFits

\* A partition that is registered.
LEMMA UsedScanned ==
  ASSUME NEW ide, IdeOK(ide), NEW ds, DrivesOK(ide, ds), NEW i \in 1 .. Len(ide), NEW e \in 1 .. 4,
         PartScanned(ide, ds, i, e), ide[i].mbr[e].used, EntryFits(ide, i, e), Plain(ide, i),
         NEW c \in check_drive(ide[i], MbrEntry(ide[i], e).start), c.last # "error",
         NEW d, d = Drive(i, MbrEntry(ide[i], e).start, MbrEntry(ide[i], e).count, c.type)
  PROVE  PartScanned(ide, <<d>> \o ds, i, e + 1) /\ DrivesOK(ide, <<d>> \o ds)
<1>1. PICK q \in Seq(Place) : /\ Flat(DiskFs(ide), i - 1, q)
                              /\ Listing(ide, ds, q \o Parts(ide, i, e - 1))
                              /\ q \o Parts(ide, i, e) = (q \o Parts(ide, i, e - 1)) \o PartOf(ide, i, e)
                              /\ q \o Parts(ide, i, e - 1) \in Seq(Place)
  BY PartScannedIs
<1>2. MbrEntry(ide[i], e).start \in Nat /\ MbrEntry(ide[i], e).count \in Nat
  BY DiskFields
<1>3. /\ c.type \in TheTypes
      /\ c.type = DRIVE_TYPE_FS => MbrEntry(ide[i], e).start \in ide[i].fs /\ ide[i].lba48 # 0
      /\ c.type = DRIVE_TYPE_FS <=> MbrEntry(ide[i], e).start \in ide[i].fs
  <2>1. MbrEntry(ide[i], e).start <= SectorCount(ide[i])
    <3>1. MbrEntry(ide[i], e).used
      BY DEF MbrEntry
    <3>2. PICK s, n : s = MbrEntry(ide[i], e).start /\ n = MbrEntry(ide[i], e).count
      OBVIOUS
    <3>3. Valid(ide, Drive(i, s, n, ""))
      BY <3>1, <3>2 DEF EntryFits
    <3> QED
      BY <3>2, <3>3 DEF Valid, Drive
  <2> QED
    BY <1>2, <2>1, CheckIs DEF Plain
<1>4. d.dev = i /\ d.start = MbrEntry(ide[i], e).start /\ d.type = c.type
  BY DriveFields
<1>5. d \in DriveType(ide)
  BY <1>2, <1>3, DriveIsType
<1>6. ASSUME NEW f \in 1 .. e PROVE EntryFits(ide, i, f)
  <2>1. CASE f = e
    BY <2>1
  <2>2. CASE f # e
    <3>1. f \in 1 .. e - 1
      BY <2>2
    <3> QED
      BY <3>1 DEF PartScanned
  <2> QED
    BY <2>1, <2>2
<1>7. Piece(ide, d) = PartOf(ide, i, e)
  BY <1>3, <1>4, <1>6 DEF Piece, PartOf
<1>8. d.type = DRIVE_TYPE_FS => d.start \in ide[d.dev].fs /\ ide[d.dev].lba48 # 0
  BY <1>3, <1>4
<1>9. PICK s : s = q \o Parts(ide, i, e - 1)
  OBVIOUS
<1>10. DrivesOK(ide, <<d>> \o ds) /\ Listing(ide, <<d>> \o ds, s \o Piece(ide, d))
  BY <1>1, <1>5, <1>8, <1>9, ListingMore
<1>11. (e + 1) - 1 = e
  OBVIOUS
<1>12. Listing(ide, <<d>> \o ds, q \o Parts(ide, i, (e + 1) - 1))
  BY <1>1, <1>7, <1>9, <1>10, <1>11
<1>13. \A f \in 1 .. (e + 1) - 1 : EntryFits(ide, i, f)
  BY <1>6, <1>11
<1> QED
  BY <1>1, <1>10, <1>12, <1>13 DEF PartScanned

\* The partitions are done, and the disk has no file system of its own.
LEMMA PartsDone ==
  ASSUME NEW ide, IdeOK(ide), NEW ds, NEW i \in 1 .. Len(ide), Plain(ide, i), NEW q,
         Flat(DiskFs(ide), i - 1, q), Listing(ide, ds, q \o Parts(ide, i, 4)),
         NEW type, type # DRIVE_TYPE_FS
  PROVE  WholeScanned(ide, ds, i, type)
<1>1. FsOf(ide, i) = Parts(ide, i, 4)
  BY DEF FsOf, Plain
<1>2. WholeDrive(ide, i, type).type = type
  BY DriveFields DEF WholeDrive
<1>3. Piece(ide, WholeDrive(ide, i, type)) = <<>>
  BY <1>2, NoPiece
<1>4. PICK p : p = Parts(ide, i, 4)
  OBVIOUS
<1>5. i - 1 \in Nat /\ 4 \in 1 .. 4
  OBVIOUS
<1>6. q \in Seq(Place) /\ p \in Seq(Place)
  BY <1>4, <1>5, FlatType, PartsMore
<1>7. (q \o p) \o <<>> = q \o p
  BY <1>6, ConcatProperties, ConcatEmptySeq
<1>8. (q \o p) \o Piece(ide, WholeDrive(ide, i, type)) = q \o FsOf(ide, i)
  BY <1>1, <1>3, <1>4, <1>7
<1> QED
  BY <1>4, <1>8 DEF WholeScanned

\* An invalid partition ends the table.
LEMMA InvalidScanned ==
  ASSUME NEW ide, IdeOK(ide), NEW ds, NEW i \in 1 .. Len(ide), NEW e \in 1 .. 4,
         PartScanned(ide, ds, i, e), ~EntryFits(ide, i, e), Plain(ide, i),
         NEW type, type # DRIVE_TYPE_FS
  PROVE  WholeScanned(ide, ds, i, type)
<1>1. PICK q : Flat(DiskFs(ide), i - 1, q) /\ Listing(ide, ds, q \o Parts(ide, i, e - 1))
  BY DEF PartScanned
<1>2. Parts(ide, i, 4) = Parts(ide, i, e - 1)
  BY PartsEnd
<1> QED
  BY <1>1, <1>2, PartsDone

\* The end of the table.
LEMMA EndScanned ==
  ASSUME NEW ide, IdeOK(ide), NEW ds, NEW i \in 1 .. Len(ide),
         PartScanned(ide, ds, i, 5), Plain(ide, i), NEW type, type # DRIVE_TYPE_FS
  PROVE  WholeScanned(ide, ds, i, type)
<1>1. PICK q : Flat(DiskFs(ide), i - 1, q) /\ Listing(ide, ds, q \o Parts(ide, i, 5 - 1))
  BY DEF PartScanned
<1>2. 5 - 1 = 4
  OBVIOUS
<1> QED
  BY <1>1, <1>2, PartsDone

\* The disk itself is a drive.
LEMMA DriveScanned ==
  ASSUME NEW ide, IdeOK(ide), NEW ds, DrivesOK(ide, ds), NEW i \in 1 .. Len(ide), NEW type \in TheTypes,
         WholeScanned(ide, ds, i, type), NEW d, d = WholeDrive(ide, i, type)
  PROVE  Scanned(ide, <<d>> \o ds, i) /\ DrivesOK(ide, <<d>> \o ds)
<1>1. PICK q, r : /\ Flat(DiskFs(ide), i - 1, q) /\ Listing(ide, ds, r)
                  /\ r \o Piece(ide, d) = q \o FsOf(ide, i)
  BY DEF WholeScanned
<1>2. d.dev = i /\ d.start = 0 /\ d.type = type
  BY DriveFields DEF WholeDrive
<1>3. SectorCount(ide[i]) \in Nat /\ 0 \in Nat
  BY DiskFields
<1>4. d \in DriveType(ide)
  BY <1>3, DriveIsType DEF WholeDrive
<1>5. d.type = DRIVE_TYPE_FS => d.start \in ide[d.dev].fs /\ ide[d.dev].lba48 # 0
  BY <1>2 DEF WholeScanned
<1>6. DrivesOK(ide, <<d>> \o ds) /\ Listing(ide, <<d>> \o ds, r \o Piece(ide, d))
  BY <1>1, <1>4, <1>5, ListingMore
<1>7. PICK F, n : F = DiskFs(ide) /\ n = i - 1
  OBVIOUS
<1>8. n \in Nat /\ n + 1 = i
  BY <1>7
<1>9. F[n + 1] = FsOf(ide, i) /\ F[n + 1] \in Seq(Place)
  BY <1>7, <1>8, DiskFsIs, FsOfType
<1>10. Flat(F, n + 1, q \o F[n + 1])
  BY <1>1, <1>7, <1>8, <1>9, FlatMore
<1>11. Flat(DiskFs(ide), i, q \o FsOf(ide, i))
  BY <1>7, <1>8, <1>9, <1>10
<1> QED
  BY <1>1, <1>6, <1>11 DEF Scanned

\* No file system is registered yet.
LEMMA NoFsScanned ==
  ASSUME NEW ide, IdeOK(ide), NEW ds, DrivesOK(ide, ds), Scanned(ide, ds, Len(ide))
  PROVE  FsScanned(ide, ds, <<>>, 1)
<1>1. PICK q : Flat(DiskFs(ide), Len(ide), q) /\ Listing(ide, ds, q)
  BY DEF Scanned
<1>2. Len(ds) \in Nat /\ Len(ide) \in Nat
  BY DEF DrivesOK, IdeOK
<1>3. q \in Seq(Place)
  BY <1>1, <1>2, FlatType
<1>4. Places(<<>>) = <<>>
  BY DEF Places
<1>5. q \o Places(<<>>) = q
  BY <1>3, <1>4, ConcatEmptySeq
<1>6. Len(ds) - (1 - 1) = Len(ds) /\ 1 \in 1 .. Len(ds) + 1
  BY <1>2
<1>7. <<>> \in Seq(DriveType(ide))
  OBVIOUS
<1> QED
  BY <1>1, <1>5, <1>6, <1>7 DEF FsScanned, Listing

\* The places of a list of file systems.
LEMMA PlacesType ==
  ASSUME NEW ide, NEW fs \in Seq(DriveType(ide))
  PROVE  /\ Places(fs) \in Seq(Place) /\ Len(Places(fs)) = Len(fs)
         /\ \A x \in 1 .. Len(fs) : Places(fs)[x] = [dev |-> fs[x].dev, start |-> fs[x].start]
<1>1. ASSUME NEW x \in DriveType(ide) PROVE [dev |-> x.dev, start |-> x.start] \in Place
  <2>1. x.dev \in Nat /\ x.start \in Nat
    BY DEF DriveType
  <2> QED
    BY <2>1 DEF Place
<1>2. PICK n, p : n = Len(fs) /\ p = Places(fs)
  OBVIOUS
<1>3. n \in Nat /\ DOMAIN fs = 1 .. n
  BY <1>2
<1>4. \A x \in 1 .. n : p[x] = [dev |-> fs[x].dev, start |-> fs[x].start]
  BY <1>2, <1>3 DEF Places
<1>5. p \in [1 .. n -> Place]
  <2>1. \A x \in 1 .. n : fs[x] \in DriveType(ide)
    BY <1>2
  <2>2. \A x \in 1 .. n : [dev |-> fs[x].dev, start |-> fs[x].start] \in Place
    BY <1>1, <2>1
  <2> QED
    BY <1>2, <1>3, <2>2 DEF Places
<1>6. p \in Seq(Place) /\ Len(p) = n
  BY <1>3, <1>5, FunctionIsSeq
<1> QED
  BY <1>2, <1>4, <1>6

\* The places of a list with a file system more.
LEMMA PlacesMore ==
  ASSUME NEW ide, NEW fs \in Seq(DriveType(ide)), NEW d \in DriveType(ide)
  PROVE  /\ Places(fs) \in Seq(Place)
         /\ Places(<<d>> \o fs) = <<[dev |-> d.dev, start |-> d.start]>> \o Places(fs)
<1>1. ASSUME NEW x \in DriveType(ide) PROVE [dev |-> x.dev, start |-> x.start] \in Place
  <2>1. x.dev \in Nat /\ x.start \in Nat
    BY DEF DriveType
  <2> QED
    BY <2>1 DEF Place
<1>2. PICK n, p : n = Len(fs) /\ p = Places(fs)
  OBVIOUS
<1>3. n \in Nat /\ DOMAIN fs = 1 .. n
  BY <1>2
<1>4. \A x \in 1 .. n : p[x] = [dev |-> fs[x].dev, start |-> fs[x].start]
  BY <1>2, PlacesType
<1>6. p \in Seq(Place) /\ Len(p) = n
  BY <1>2, PlacesType
<1>7. PICK e : e = [dev |-> d.dev, start |-> d.start]
  OBVIOUS
<1>8. e \in Place
  BY <1>1, <1>7
<1>9. PICK gs, r : gs = <<d>> \o fs /\ r = <<e>> \o p
  OBVIOUS
<1>10. /\ gs \in Seq(DriveType(ide)) /\ Len(gs) = n + 1 /\ gs[1] = d
       /\ \A k \in 1 .. n : gs[k + 1] = fs[k]
  BY <1>2, <1>9, Prepended
<1>11. /\ r \in Seq(Place) /\ Len(r) = n + 1 /\ r[1] = e
       /\ \A k \in 1 .. n : r[k + 1] = p[k]
  BY <1>6, <1>8, <1>9, Prepended
<1>12. DOMAIN gs = 1 .. n + 1 /\ DOMAIN r = 1 .. n + 1
  BY <1>3, <1>10, <1>11
<1>13. ASSUME NEW k \in 1 .. n + 1 PROVE [dev |-> gs[k].dev, start |-> gs[k].start] = r[k]
  <2>1. CASE k = 1
    BY <1>7, <1>10, <1>11, <2>1
  <2>2. CASE k # 1
    <3>1. PICK j : j = k - 1
      OBVIOUS
    <3>2. j \in 1 .. n /\ k = j + 1
      BY <1>3, <2>2, <3>1
    <3> QED
      BY <1>4, <1>10, <1>11, <3>2
  <2> QED
    BY <2>1, <2>2
<1>14. Places(gs) = [k \in 1 .. n + 1 |-> r[k]]
  BY <1>12, <1>13 DEF Places
<1>15. r = [k \in 1 .. n + 1 |-> r[k]]
  BY <1>11, <1>12
<1> QED
  BY <1>2, <1>6, <1>7, <1>9, <1>14, <1>15

\* A turn of init_fs().
LEMMA FsTurn ==
  ASSUME NEW ide, IdeOK(ide), NEW ds, DrivesOK(ide, ds), NEW fs, NEW i, FsScanned(ide, ds, fs, i),
         i <= Len(ds), NEW gs,
         Piece(ide, ds[i]) = <<>> => gs = fs,
         Piece(ide, ds[i]) # <<>> => gs = <<ds[i]>> \o fs
  PROVE  FsScanned(ide, ds, gs, i + 1)
<1>1. PICK q : /\ Flat(Pieces(ide, ds), Len(ds) - (i - 1), q)
               /\ Flat(DiskFs(ide), Len(ide), q \o Places(fs))
  BY DEF FsScanned
<1>2. PICK n, len, d, F : n = Len(ds) - (i - 1) /\ len = Len(ds) /\ d = ds[i] /\ F = Pieces(ide, ds)
  OBVIOUS
<1>3. ds \in Seq(DriveType(ide)) /\ len \in Nat /\ i \in 1 .. len
  BY <1>2 DEF DrivesOK, FsScanned
<1>4. d \in DriveType(ide) /\ fs \in Seq(DriveType(ide))
  BY <1>2, <1>3 DEF FsScanned
<1>5. n \in Nat /\ n > 0 /\ n \in 1 .. len /\ (len - n) + 1 = i /\ n - 1 = len - ((i + 1) - 1)
  BY <1>2, <1>3
<1>6. F[n] = Piece(ide, d)
  BY <1>2, <1>5 DEF Pieces
<1>7. PICK p : Flat(F, n - 1, p) /\ q = p \o F[n]
  <2>1. Flat(F, n, q)
    BY <1>1, <1>2
  <2>2. n \in Nat /\ n > 0
    BY <1>5
  <2>3. FlatBefore(F, n, q)
    BY <2>1, <2>2, FlatLess
  <2> QED
    BY <2>3 DEF FlatBefore
<1>8. n - 1 \in Nat
  BY <1>5
<1>9. p \in Seq(Place) /\ Piece(ide, d) \in Seq(Place) /\ Places(fs) \in Seq(Place)
  BY <1>4, <1>7, <1>8, FlatType, PieceType, PlacesMore
<1>10. PICK a, b : a = Piece(ide, d) /\ b = Places(fs)
  OBVIOUS
<1>11. (p \o a) \o b = p \o (a \o b) /\ <<>> \o b = b
  <2>1. a \in Seq(Place) /\ b \in Seq(Place)
    BY <1>9, <1>10
  <2>2. (p \o a) \o b = p \o (a \o b)
    BY <1>9, <2>1, ThreeParts, Zenon
  <2>3. <<>> \o b = b
    BY <2>1
  <2> QED
    BY <2>2, <2>3
<1>12. a \o b = Places(gs) /\ gs \in Seq(DriveType(ide))
  <2>1. CASE a = <<>>
    BY <1>2, <1>4, <1>10, <1>11, <2>1
  <2>2. CASE a # <<>>
    <3>1. gs = <<d>> \o fs
      BY <1>2, <1>10, <2>2
    <3>2. a = <<[dev |-> d.dev, start |-> d.start]>>
      BY <1>10, <2>2 DEF Piece
    <3>3. gs \in Seq(DriveType(ide))
      BY <1>4, <3>1, Prepended
    <3> QED
      BY <1>4, <1>10, <3>1, <3>2, <3>3, PlacesMore
  <2> QED
    BY <2>1, <2>2
<1>13. q \o Places(fs) = p \o Places(gs)
  BY <1>6, <1>7, <1>10, <1>11, <1>12
<1>14. Flat(Pieces(ide, ds), Len(ds) - ((i + 1) - 1), p)
  BY <1>2, <1>5, <1>7
<1>15. i + 1 \in 1 .. Len(ds) + 1
  BY <1>2, <1>3
<1> QED
  BY <1>1, <1>12, <1>13, <1>14, <1>15 DEF FsScanned

\* The end of init_fs().
LEMMA FsDone ==
  ASSUME NEW ide, IdeOK(ide), NEW ds, DrivesOK(ide, ds), NEW fs, NEW i, FsScanned(ide, ds, fs, i),
         i > Len(ds)
  PROVE  Flat(DiskFs(ide), Len(ide), Places(fs))
<1>1. PICK q : /\ Flat(Pieces(ide, ds), Len(ds) - (i - 1), q)
               /\ Flat(DiskFs(ide), Len(ide), q \o Places(fs))
  BY DEF FsScanned
<1>2. Len(ds) \in Nat /\ i \in 1 .. Len(ds) + 1
  BY DEF DrivesOK, FsScanned
<1>3. Len(ds) - (i - 1) = 0
  BY <1>2
<1>4. q = <<>>
  BY <1>1, <1>3 DEF Flat, IsFlat
<1>5. PICK b : b = Places(fs)
  OBVIOUS
<1>6. b \in Seq(Place)
  BY <1>5, PlacesType DEF FsScanned
<1>7. <<>> \o b = b
  BY <1>6, ConcatEmptySeq
<1> QED
  BY <1>1, <1>4, <1>5, <1>7

DiskBoot(ide) == [at : {"disk"}, pass : {1, 2}, i : 1 .. Len(ide) + 1]

MbrBoot(ide) == [at : {"mbr"}, pass : {1, 2}, i : 1 .. Len(ide), type : {DRIVE_TYPE_MBR}]

EntryBoot(ide) ==
  [at : {"entry"}, pass : {1, 2}, i : 1 .. Len(ide), type : {DRIVE_TYPE_MBR}, e : 1 .. 5, found : Nat]

WholeBoot(ide) ==
  [at : {"whole"}, pass : {1, 2}, i : 1 .. Len(ide), type : TheTypes]
    \cup [at : {"whole"}, pass : {1, 2}, i : 1 .. Len(ide), type : TheTypes, e : 1 .. 5, found : Nat]

FsBoot == [at : {"fs", "up", "failed"}, pass : {1, 2}, i : Nat]

BootType(ide, b) ==
  \/ b \in DiskBoot(ide) \/ b \in MbrBoot(ide) \/ b \in EntryBoot(ide) \/ b \in WholeBoot(ide)
  \/ b \in FsBoot

\* What boot has found, if no device has failed.
BootFound(ide, ds, fs, b) ==
  /\ DrivesOK(ide, ds)
  /\ b.at \in {"disk", "mbr", "entry", "whole"} => fs = <<>>
  /\ b.at = "disk" => Scanned(ide, ds, b.i - 1)
  /\ b.at = "mbr" => Plain(ide, b.i) /\ Scanned(ide, ds, b.i - 1)
  /\ b.at = "entry" => Plain(ide, b.i) /\ PartScanned(ide, ds, b.i, b.e)
  /\ b.at = "whole" => WholeScanned(ide, ds, b.i, b.type)
  /\ b.at = "fs" => FsScanned(ide, ds, fs, b.i)
  /\ b.at \in {"up", "failed"} => Flat(DiskFs(ide), Len(ide), Places(fs))

DevicesOK ==
  machine \in Machine /\ mutex \in [DOMAIN Ide -> 0 .. 1] /\ errors \in 0 .. MaxErrors

BootOK == BootType(Ide, boot) /\ (errors = 0 => BootFound(Ide, drives, fss, boot))

\* The inductive invariant of boot.
BootInv == DevicesOK /\ BootOK

\* Which state it is.
LEMMA WhichBoot ==
  ASSUME NEW ide, NEW b, BootType(ide, b)
  PROVE  /\ b.at \in {"disk", "mbr", "entry", "whole", "fs", "up", "failed"}
         /\ b.at = "disk" => b \in DiskBoot(ide)
         /\ b.at = "mbr" => b \in MbrBoot(ide)
         /\ b.at = "entry" => b \in EntryBoot(ide)
         /\ b.at = "whole" => b \in WholeBoot(ide)
         /\ b.at \in {"fs", "up", "failed"} => b \in FsBoot
BY DEF BootType, DiskBoot, MbrBoot, EntryBoot, WholeBoot, FsBoot

\* The disks of the machine.
LEMMA IdeIs ==
  ASSUME DevicesOK
  PROVE  IdeOK(Ide) /\ Len(Ide) \in Nat /\ DOMAIN Ide = 1 .. Len(Ide)
<1>1. IdeOK(Ide)
  BY IdeIsDisks DEF DevicesOK, IdeOK, Ide
<1> QED
  BY <1>1 DEF IdeOK

\* They stay the same.
LEMMA SameIde ==
  ASSUME machine' = machine
  PROVE  Ide' = Ide
BY DEF Ide

\* A transfer and the devices.
LEMMA TransferredKeeps ==
  ASSUME DevicesOK, NEW i, NEW o, Transferred(i, o), machine' = machine
  PROVE  DevicesOK' /\ (errors' = 0 => errors = 0 /\ o # "error")
<1>1. Ide' = Ide
  BY SameIde
<1>2. Held(o) \in 0 .. 1
  BY DEF Held
<1>3. mutex' \in [DOMAIN Ide -> 0 .. 1]
  <2>1. mutex \in [DOMAIN Ide -> 0 .. 1] /\ mutex' = [mutex EXCEPT ![i] = Held(o)]
    BY DEF DevicesOK, Transferred
  <2> QED
    BY <1>2, <2>1
<1>4. errors \in 0 .. MaxErrors /\ MaxErrors \in Nat
  BY DrivesAssumption DEF DevicesOK
<1>5. errors' \in 0 .. MaxErrors /\ (errors' = 0 => errors = 0 /\ o # "error")
  BY <1>4 DEF Transferred
<1>6. machine' \in Machine
  BY DEF DevicesOK
<1> QED
  BY <1>1, <1>3, <1>5, <1>6 DEF DevicesOK

\* Without a transfer the devices stay as they are.
LEMMA DevicesSame ==
  ASSUME DevicesOK, UNCHANGED <<machine, mutex, errors>>
  PROVE  DevicesOK'
BY SameIde DEF DevicesOK

\* What check_drive() says is a type.
LEMMA CheckType ==
  ASSUME NEW dev, NEW start, NEW c \in check_drive(dev, start)
  PROVE  c.type \in TheTypes
BY DEF check_drive, TheTypes

-----------------------------------------------------------------------------
\* In the beginning.
LEMMA BootBegins ==
  ASSUME BootInit
  PROVE  BootInv
<1>1. machine \in Machine /\ errors = 0 /\ drives = <<>> /\ fss = <<>>
  BY DEF BootInit
<1>2. DevicesOK
  BY <1>1, DrivesAssumption DEF BootInit, DevicesOK
<1>3. IdeOK(Ide) /\ Len(Ide) \in Nat
  BY <1>2, IdeIs
<1>4. Scanned(Ide, <<>>, 0) /\ DrivesOK(Ide, <<>>)
  BY NothingScanned
<1>5. CASE Ide = <<>>
  <2>1. boot = [at |-> "failed", pass |-> 1, i |-> 1]
    BY <1>5 DEF BootInit
  <2>2. boot \in FsBoot /\ boot.at = "failed"
    BY <2>1 DEF FsBoot
  <2>3. Places(<<>>) = <<>> /\ Len(Ide) = 0
    BY <1>5 DEF Places
  <2>4. Flat(DiskFs(Ide), Len(Ide), Places(<<>>))
    BY <2>3, FlatNone
  <2>5. BootFound(Ide, drives, fss, boot)
    BY <1>1, <1>4, <2>2, <2>4 DEF BootFound
  <2> QED
    BY <1>2, <2>2, <2>5 DEF BootInv, BootOK, BootType
<1>6. CASE Ide # <<>>
  <2>1. boot = [at |-> "disk", pass |-> 1, i |-> 1]
    BY <1>6 DEF BootInit
  <2>2. 1 \in 1 .. Len(Ide) + 1
    BY <1>3
  <2>3. boot \in DiskBoot(Ide) /\ boot.at = "disk" /\ boot.i - 1 = 0
    BY <2>1, <2>2 DEF DiskBoot
  <2>4. BootFound(Ide, drives, fss, boot)
    BY <1>1, <1>4, <2>3 DEF BootFound
  <2> QED
    BY <1>2, <2>3, <2>4 DEF BootInv, BootOK, BootType
<1> QED
  BY <1>5, <1>6

\* register_disk(): the disk has partitions, or is a drive as a whole.
LEMMA BootRegistersDisk ==
  ASSUME BootInv, register_disk
  PROVE  BootInv'
<1>1. PICK ide, i : ide = Ide /\ i = boot.i
  OBVIOUS
<1>2. machine' = machine /\ drives' = drives /\ fss' = fss /\ boot.at = "disk" /\ i <= Len(ide)
  BY <1>1 DEF register_disk
<1>3. PICK c \in check_drive(ide[i], 0) :
        /\ Transferred(i, c.last)
        /\ boot' = [at |-> IF c.type = DRIVE_TYPE_MBR THEN "mbr" ELSE "whole",
                    pass |-> boot.pass, i |-> i, type |-> c.type]
  BY <1>1 DEF register_disk
<1>4. Ide' = ide /\ IdeOK(ide) /\ Len(ide) \in Nat
  BY <1>1, <1>2, SameIde, IdeIs DEF BootInv
<1>5. boot \in DiskBoot(ide)
  BY <1>1, <1>2, WhichBoot DEF BootInv, BootOK
<1>6. boot.pass \in {1, 2} /\ i \in 1 .. Len(ide)
  BY <1>1, <1>2, <1>4, <1>5 DEF DiskBoot
<1>7. c.type \in TheTypes
  BY CheckType
<1>8. DevicesOK' /\ (errors' = 0 => errors = 0 /\ c.last # "error")
  BY <1>2, <1>3, TransferredKeeps DEF BootInv
<1>9. PICK b : b = boot'
  OBVIOUS
<1>10. b.i = i /\ b.type = c.type
  BY <1>3, <1>9
<1>11. CASE c.type = DRIVE_TYPE_MBR
  <2>1. b = [at |-> "mbr", pass |-> boot.pass, i |-> i, type |-> c.type]
    BY <1>3, <1>9, <1>11
  <2>2. b \in MbrBoot(ide) /\ b.at = "mbr"
    BY <1>6, <1>11, <2>1 DEF MbrBoot
  <2>3. ASSUME errors' = 0 PROVE BootFound(ide, drives, fss, b)
    <3>1. BootFound(ide, drives, fss, boot)
      BY <1>1, <1>8, <2>3 DEF BootInv, BootOK
    <3>2. DrivesOK(ide, drives) /\ fss = <<>> /\ Scanned(ide, drives, i - 1)
      BY <1>1, <1>2, <3>1 DEF BootFound
    <3>3. Plain(ide, i)
      BY <1>4, <1>6, <1>8, <1>11, <2>3, <3>2, DiskScanned
    <3> QED
      BY <1>10, <2>2, <3>2, <3>3 DEF BootFound
  <2> QED
    BY <1>2, <1>4, <1>8, <1>9, <2>2, <2>3 DEF BootInv, BootOK, BootType
<1>12. CASE c.type # DRIVE_TYPE_MBR
  <2>1. b = [at |-> "whole", pass |-> boot.pass, i |-> i, type |-> c.type]
    BY <1>3, <1>9, <1>12
  <2>2. b \in WholeBoot(ide) /\ b.at = "whole"
    BY <1>6, <1>7, <2>1 DEF WholeBoot
  <2>3. ASSUME errors' = 0 PROVE BootFound(ide, drives, fss, b)
    <3>1. BootFound(ide, drives, fss, boot)
      BY <1>1, <1>8, <2>3 DEF BootInv, BootOK
    <3>2. DrivesOK(ide, drives) /\ fss = <<>> /\ Scanned(ide, drives, i - 1)
      BY <1>1, <1>2, <3>1 DEF BootFound
    <3>3. WholeScanned(ide, drives, i, c.type)
      BY <1>4, <1>6, <1>8, <1>12, <2>3, <3>2, DiskScanned
    <3> QED
      BY <1>10, <2>2, <3>2, <3>3 DEF BootFound
  <2> QED
    BY <1>2, <1>4, <1>8, <1>9, <2>2, <2>3 DEF BootInv, BootOK, BootType
<1> QED
  BY <1>11, <1>12

\* drive_parse_mbr() reads the sector.
LEMMA BootReadsMbr ==
  ASSUME BootInv, ReadMbr
  PROVE  BootInv'
<1>1. PICK ide, i : ide = Ide /\ i = boot.i
  OBVIOUS
<1>2. machine' = machine /\ drives' = drives /\ fss' = fss /\ boot.at = "mbr"
  BY DEF ReadMbr
<1>3. PICK o \in drive_sectors(ide[i], 0, 0, 1) :
        /\ Transferred(i, o)
        /\ boot' = IF o = "ok" THEN [at |-> "entry", pass |-> boot.pass, i |-> i,
                                     type |-> boot.type, e |-> 1, found |-> 0]
                               ELSE [boot EXCEPT !.at = "whole"]
  BY <1>1 DEF ReadMbr
<1>4. Ide' = ide /\ IdeOK(ide) /\ Len(ide) \in Nat
  BY <1>1, <1>2, SameIde, IdeIs DEF BootInv
<1>5. boot \in MbrBoot(ide)
  BY <1>1, <1>2, WhichBoot DEF BootInv, BootOK
<1>6. boot.pass \in {1, 2} /\ i \in 1 .. Len(ide) /\ boot.type = DRIVE_TYPE_MBR
  BY <1>1, <1>5 DEF MbrBoot
<1>7. DevicesOK' /\ (errors' = 0 => errors = 0 /\ o # "error")
  BY <1>2, <1>3, TransferredKeeps DEF BootInv
<1>8. PICK b : b = boot'
  OBVIOUS
<1>9. ASSUME errors' = 0
      PROVE  /\ DrivesOK(ide, drives) /\ fss = <<>> /\ Plain(ide, i) /\ Scanned(ide, drives, i - 1)
             /\ o = "ok"
  <2>1. BootFound(ide, drives, fss, boot)
    BY <1>1, <1>7, <1>9 DEF BootInv, BootOK
  <2>2. DrivesOK(ide, drives) /\ fss = <<>> /\ Plain(ide, i) /\ Scanned(ide, drives, i - 1)
    BY <1>1, <1>2, <2>1 DEF BootFound
  <2>3. ~(ide[i].lba48 < 0 + 0 + 1) /\ 0 \in Nat /\ 0 \in 0 .. 2 /\ 0 <= SectorCount(ide[i])
    BY <1>4, <1>6, <2>2, DiskFields DEF Plain
  <2>4. o = "ok"
    BY <1>4, <1>6, <1>7, <1>9, <2>3, OutcomeIs
  <2> QED
    BY <2>2, <2>4
<1>10. CASE o = "ok"
  <2>1. b = [at |-> "entry", pass |-> boot.pass, i |-> i, type |-> boot.type, e |-> 1, found |-> 0]
    BY <1>3, <1>8, <1>10
  <2>2. b \in EntryBoot(ide) /\ b.at = "entry" /\ b.i = i /\ b.e = 1
    BY <1>6, <2>1 DEF EntryBoot
  <2>3. ASSUME errors' = 0 PROVE BootFound(ide, drives, fss, b)
    <3>1. PartScanned(ide, drives, i, 1)
      BY <1>4, <1>6, <1>9, <2>3, NoPartScanned
    <3> QED
      BY <1>9, <2>2, <2>3, <3>1 DEF BootFound
  <2> QED
    BY <1>2, <1>4, <1>7, <1>8, <2>2, <2>3 DEF BootInv, BootOK, BootType
<1>11. CASE o # "ok"
  <2>1. b = [boot EXCEPT !.at = "whole"]
    BY <1>3, <1>8, <1>11
  <2>2. b \in WholeBoot(ide)
    BY <1>5, <2>1 DEF MbrBoot, WholeBoot, TheTypes
  <2>3. errors' # 0
    BY <1>9, <1>11
  <2> QED
    BY <1>2, <1>4, <1>7, <1>8, <2>2, <2>3 DEF BootInv, BootOK, BootType
<1> QED
  BY <1>10, <1>11

\* The types of its local variables.
LEMMA EntryFields ==
  ASSUME NEW ide, NEW b \in EntryBoot(ide)
  PROVE  /\ b.pass \in {1, 2} /\ b.i \in 1 .. Len(ide) /\ b.type = DRIVE_TYPE_MBR
         /\ b.e \in 1 .. 5 /\ b.found \in Nat
BY DEF EntryBoot

\* The local variables after a turn, and at the end.
EntryDone(b, f) == [b EXCEPT !.e = @ + 1, !.found = f]

EntrySkipped(b) == [b EXCEPT !.e = @ + 1]

TableDone(b, t) == [b EXCEPT !.at = "whole", !.type = t]

\* The next entry, behind a partition.
LEMMA NextEntry ==
  ASSUME NEW ide, NEW b \in EntryBoot(ide), b.e <= 4, NEW f \in Nat
  PROVE  /\ EntryDone(b, f) \in EntryBoot(ide) /\ EntryDone(b, f).at = "entry"
         /\ EntryDone(b, f).i = b.i /\ EntryDone(b, f).e = b.e + 1
<1>1. b.e + 1 \in 1 .. 5
  BY EntryFields
<1>2. PICK n : n = b.e + 1
  OBVIOUS
<1>3. EntryDone(b, f) = [b EXCEPT !.e = n, !.found = f]
  BY <1>2 DEF EntryDone
<1> QED
  BY <1>1, <1>2, <1>3 DEF EntryBoot

\* The next entry, behind one that is not used.
LEMMA SkippedEntry ==
  ASSUME NEW ide, NEW b \in EntryBoot(ide), b.e <= 4
  PROVE  /\ EntrySkipped(b) \in EntryBoot(ide) /\ EntrySkipped(b).at = "entry"
         /\ EntrySkipped(b).i = b.i /\ EntrySkipped(b).e = b.e + 1
<1>1. b.e + 1 \in 1 .. 5
  BY EntryFields
<1>2. PICK n : n = b.e + 1
  OBVIOUS
<1>3. EntrySkipped(b) = [b EXCEPT !.e = n]
  BY <1>2 DEF EntrySkipped
<1> QED
  BY <1>1, <1>2, <1>3 DEF EntryBoot

\* The end of the table.
LEMMA LastEntry ==
  ASSUME NEW ide, NEW b \in EntryBoot(ide), NEW t \in TheTypes
  PROVE  /\ TableDone(b, t) \in WholeBoot(ide) /\ TableDone(b, t).at = "whole"
         /\ TableDone(b, t).i = b.i /\ TableDone(b, t).type = t
BY DEF EntryBoot, WholeBoot, TableDone

\* Of the state that an entry is parsed in.
LEMMA EntryState ==
  ASSUME BootInv, boot.at = "entry", NEW ide, ide = Ide
  PROVE  /\ IdeOK(ide) /\ Len(ide) \in Nat /\ boot \in EntryBoot(ide)
         /\ errors = 0 => /\ DrivesOK(ide, drives) /\ fss = <<>> /\ Plain(ide, boot.i)
                          /\ PartScanned(ide, drives, boot.i, boot.e)
<1>1. IdeOK(ide) /\ Len(ide) \in Nat
  BY IdeIs DEF BootInv
<1>2. boot \in EntryBoot(ide)
  BY WhichBoot DEF BootInv, BootOK
<1>3. errors = 0 => BootFound(ide, drives, fss, boot)
  BY DEF BootInv, BootOK
<1> QED
  BY <1>1, <1>2, <1>3 DEF BootFound

\* What is found, in each of the states that a step leads to.
LEMMA EntryFound ==
  ASSUME NEW ide, NEW ds, NEW b, b.at = "entry", DrivesOK(ide, ds), Plain(ide, b.i),
         PartScanned(ide, ds, b.i, b.e)
  PROVE  BootFound(ide, ds, <<>>, b)
BY DEF BootFound

\* So with a disk.
LEMMA WholeFound ==
  ASSUME NEW ide, NEW ds, NEW b, b.at = "whole", DrivesOK(ide, ds), WholeScanned(ide, ds, b.i, b.type)
  PROVE  BootFound(ide, ds, <<>>, b)
BY DEF BootFound

\* A turn of drive_parse_mbr(): unused, registered, or invalid.
LEMMA BootParsesEntry ==
  ASSUME BootInv, ParseEntry
  PROVE  BootInv'
<1>1. PICK ide, i, e : ide = Ide /\ i = boot.i /\ e = boot.e
  OBVIOUS
<1>2. machine' = machine /\ fss' = fss /\ boot.at = "entry" /\ e <= 4
  BY <1>1 DEF ParseEntry
<1>3. /\ IdeOK(ide) /\ Len(ide) \in Nat /\ boot \in EntryBoot(ide)
      /\ errors = 0 => /\ DrivesOK(ide, drives) /\ fss = <<>> /\ Plain(ide, i)
                       /\ PartScanned(ide, drives, i, e)
  BY <1>1, <1>2, EntryState
<1>4. i \in 1 .. Len(ide) /\ e \in 1 .. 4 /\ boot.found \in Nat
  BY <1>1, <1>2, <1>3, EntryFields
<1>5. Ide' = ide
  BY <1>1, <1>2, SameIde
<1>6. PICK b : b = boot'
  OBVIOUS
<1>7. CASE ~ide[i].mbr[e].used
  <2>1. boot' = [boot EXCEPT !.e = @ + 1] /\ UNCHANGED <<mutex, errors, drives>>
    BY <1>1, <1>7 DEF ParseEntry, MbrEntry
  <2>2. b \in EntryBoot(ide) /\ b.at = "entry" /\ b.i = i /\ b.e = e + 1
    <3>1. b = EntrySkipped(boot)
      BY <1>6, <2>1 DEF EntrySkipped
    <3> QED
      BY <1>1, <1>2, <1>3, <3>1, SkippedEntry
  <2>3. errors' = 0 => BootFound(ide, drives, fss, b)
    <3>1. SUFFICES ASSUME errors = 0 PROVE BootFound(ide, drives, fss, b)
      BY <2>1
    <3>2. PartScanned(ide, drives, i, e + 1)
      BY <1>3, <1>4, <1>7, <3>1, UnusedScanned
    <3> QED
      BY <1>3, <2>2, <3>1, <3>2, EntryFound
  <2>4. DevicesOK'
    BY <1>2, <2>1, DevicesSame DEF BootInv
  <2> QED
    BY <1>2, <1>5, <1>6, <2>1, <2>2, <2>3, <2>4 DEF BootInv, BootOK, BootType
<1>8. CASE ide[i].mbr[e].used
  <2>1. PICK c \in check_drive(ide[i], MbrEntry(ide[i], e).start) :
          LET d == Drive(i, MbrEntry(ide[i], e).start, MbrEntry(ide[i], e).count, c.type)
          IN  /\ Transferred(i, c.last)
              /\ IF IsValid(d)
                 THEN /\ drives' = register_drive(d)
                      /\ boot' = [boot EXCEPT !.e = @ + 1, !.found = @ + 1]
                 ELSE /\ boot' = [boot EXCEPT !.at = "whole", !.type = DRIVE_TYPE_RAW]
                      /\ UNCHANGED drives
    <3>1. MbrEntry(ide[i], e).used
      BY <1>8 DEF MbrEntry
    <3> QED
      BY <1>1, <3>1 DEF ParseEntry
  <2>2. PICK d : d = Drive(i, MbrEntry(ide[i], e).start, MbrEntry(ide[i], e).count, c.type)
    OBVIOUS
  <2>3. /\ Transferred(i, c.last)
        /\ IF IsValid(d)
           THEN drives' = register_drive(d) /\ boot' = [boot EXCEPT !.e = @ + 1, !.found = @ + 1]
           ELSE boot' = [boot EXCEPT !.at = "whole", !.type = DRIVE_TYPE_RAW] /\ drives' = drives
    BY <2>1, <2>2
  <2>4. DevicesOK' /\ (errors' = 0 => errors = 0 /\ c.last # "error")
    BY <1>2, <2>3, TransferredKeeps DEF BootInv
  <2>5. IsValid(d) <=> EntryFits(ide, i, e)
    <3>1. IsValid(d) <=> Valid(ide, d)
      BY <1>1 DEF IsValid, Valid
    <3> QED
      BY <1>8, <2>2, <3>1, FitsIs
  <2>6. CASE IsValid(d)
    <3>1. drives' = <<d>> \o drives /\ boot' = [boot EXCEPT !.e = @ + 1, !.found = @ + 1]
      BY <2>3, <2>6 DEF register_drive
    <3>2. b \in EntryBoot(ide) /\ b.at = "entry" /\ b.i = i /\ b.e = e + 1
      <4>1. PICK f : f = boot.found + 1
        OBVIOUS
      <4>2. f \in Nat /\ b = EntryDone(boot, f)
        BY <1>4, <1>6, <3>1, <4>1 DEF EntryDone
      <4> QED
        BY <1>1, <1>2, <1>3, <4>2, NextEntry
    <3>3. PICK ds : ds = <<d>> \o drives
      OBVIOUS
    <3>4. errors' = 0 => BootFound(ide, ds, fss, b)
      <4>1. SUFFICES ASSUME errors' = 0 PROVE BootFound(ide, ds, fss, b)
        OBVIOUS
      <4>2. /\ DrivesOK(ide, drives) /\ fss = <<>> /\ Plain(ide, i)
            /\ PartScanned(ide, drives, i, e) /\ c.last # "error"
        BY <1>3, <2>4, <4>1
      <4>3. PartScanned(ide, ds, i, e + 1) /\ DrivesOK(ide, ds)
        BY <1>3, <1>4, <1>8, <2>2, <2>5, <2>6, <3>3, <4>2, UsedScanned
      <4> QED
        BY <3>2, <4>2, <4>3, EntryFound
    <3> QED
      BY <1>2, <1>5, <1>6, <2>4, <3>1, <3>2, <3>3, <3>4 DEF BootInv, BootOK, BootType
  <2>7. CASE ~IsValid(d)
    <3>1. drives' = drives /\ boot' = [boot EXCEPT !.at = "whole", !.type = DRIVE_TYPE_RAW]
      BY <2>3, <2>7
    <3>2. DRIVE_TYPE_RAW \in TheTypes
      BY DEF TheTypes
    <3>3. b \in WholeBoot(ide) /\ b.at = "whole" /\ b.i = i /\ b.type = DRIVE_TYPE_RAW
      <4>1. b = TableDone(boot, DRIVE_TYPE_RAW)
        BY <1>6, <3>1 DEF TableDone
      <4> QED
        BY <1>1, <1>3, <3>2, <4>1, LastEntry
    <3>4. errors' = 0 => BootFound(ide, drives, fss, b)
      <4>1. SUFFICES ASSUME errors' = 0 PROVE BootFound(ide, drives, fss, b)
        OBVIOUS
      <4>2. /\ DrivesOK(ide, drives) /\ fss = <<>> /\ Plain(ide, i)
            /\ PartScanned(ide, drives, i, e)
        BY <1>3, <2>4, <4>1
      <4>3. WholeScanned(ide, drives, i, DRIVE_TYPE_RAW)
        BY <1>3, <1>4, <2>5, <2>7, <4>2, TypesDiffer, InvalidScanned
      <4> QED
        BY <3>3, <4>2, <4>3, WholeFound
    <3> QED
      BY <1>2, <1>5, <1>6, <2>4, <3>1, <3>3, <3>4 DEF BootInv, BootOK, BootType
  <2> QED
    BY <2>6, <2>7
<1> QED
  BY <1>7, <1>8

\* Its end.
LEMMA BootParsedMbr ==
  ASSUME BootInv, ParsedMbr
  PROVE  BootInv'
<1>1. PICK ide, i, e, t : /\ ide = Ide /\ i = boot.i /\ e = boot.e
                          /\ t = IF boot.found = 0 THEN DRIVE_TYPE_RAW ELSE boot.type
  OBVIOUS
<1>2. /\ UNCHANGED <<machine, mutex, drives, fss, errors>> /\ boot.at = "entry" /\ e > 4
      /\ boot' = [boot EXCEPT !.at = "whole", !.type = t]
  BY <1>1 DEF ParsedMbr
<1>3. /\ IdeOK(ide) /\ Len(ide) \in Nat /\ boot \in EntryBoot(ide)
      /\ errors = 0 => /\ DrivesOK(ide, drives) /\ fss = <<>> /\ Plain(ide, i)
                       /\ PartScanned(ide, drives, i, e)
  BY <1>1, <1>2, EntryState
<1>4. i \in 1 .. Len(ide) /\ e = 5 /\ t \in TheTypes /\ t # DRIVE_TYPE_FS
  <2>1. i \in 1 .. Len(ide) /\ e \in 1 .. 5 /\ boot.type = DRIVE_TYPE_MBR
    BY <1>1, <1>3, EntryFields
  <2>2. t = DRIVE_TYPE_RAW \/ t = DRIVE_TYPE_MBR
    BY <1>1, <2>1
  <2>3. t \in TheTypes /\ t # DRIVE_TYPE_FS
    BY <2>2, TypesDiffer DEF TheTypes
  <2> QED
    BY <1>2, <2>1, <2>3
<1>5. Ide' = ide /\ DevicesOK'
  BY <1>1, <1>2, SameIde, DevicesSame DEF BootInv
<1>6. PICK b : b = boot'
  OBVIOUS
<1>7. b \in WholeBoot(ide) /\ b.at = "whole" /\ b.i = i /\ b.type = t
  <2>1. b = TableDone(boot, t)
    BY <1>2, <1>6 DEF TableDone
  <2> QED
    BY <1>1, <1>3, <1>4, <2>1, LastEntry
<1>8. errors = 0 => BootFound(ide, drives, fss, b)
  <2>1. SUFFICES ASSUME errors = 0 PROVE BootFound(ide, drives, fss, b)
    OBVIOUS
  <2>2. WholeScanned(ide, drives, i, t)
    BY <1>3, <1>4, <2>1, EndScanned
  <2> QED
    BY <1>3, <1>7, <2>1, <2>2, WholeFound
<1> QED
  BY <1>2, <1>5, <1>6, <1>7, <1>8 DEF BootInv, BootOK, BootType

\* The end of register_drives().
LEMMA BootRegistersDrive ==
  ASSUME BootInv, register_drives
  PROVE  BootInv'
<1>1. PICK ide, i, t, d : /\ ide = Ide /\ i = boot.i /\ t = boot.type
                          /\ d = WholeDrive(ide, i, t)
  OBVIOUS
<1>2. /\ UNCHANGED <<machine, mutex, fss, errors>> /\ boot.at = "whole"
      /\ drives' = <<d>> \o drives /\ boot' = [at |-> "disk", pass |-> boot.pass, i |-> i + 1]
  BY <1>1 DEF register_drives, register_drive, WholeDrive
<1>3. IdeOK(ide) /\ Len(ide) \in Nat /\ boot \in WholeBoot(ide)
  BY <1>1, <1>2, IdeIs, WhichBoot DEF BootInv, BootOK
<1>4. i \in 1 .. Len(ide) /\ t \in TheTypes /\ boot.pass \in {1, 2}
  BY <1>1, <1>3 DEF WholeBoot
<1>5. Ide' = ide /\ DevicesOK'
  BY <1>1, <1>2, SameIde, DevicesSame DEF BootInv
<1>6. PICK b, ds : b = boot' /\ ds = <<d>> \o drives
  OBVIOUS
<1>7. b \in DiskBoot(ide) /\ b.at = "disk" /\ b.i - 1 = i
  <2>1. i + 1 \in 1 .. Len(ide) + 1
    BY <1>3, <1>4
  <2>2. b = [at |-> "disk", pass |-> boot.pass, i |-> i + 1]
    BY <1>2, <1>6
  <2>3. b.i = i + 1 /\ b.at = "disk"
    BY <2>2
  <2> QED
    BY <1>4, <2>1, <2>2, <2>3 DEF DiskBoot
<1>8. errors = 0 => BootFound(ide, ds, fss, b)
  <2>1. SUFFICES ASSUME errors = 0 PROVE BootFound(ide, ds, fss, b)
    OBVIOUS
  <2>2. BootFound(ide, drives, fss, boot)
    BY <1>1, <2>1 DEF BootInv, BootOK
  <2>3. DrivesOK(ide, drives) /\ fss = <<>> /\ WholeScanned(ide, drives, i, t)
    BY <1>1, <1>2, <2>2 DEF BootFound
  <2>4. Scanned(ide, ds, i) /\ DrivesOK(ide, ds)
    BY <1>1, <1>3, <1>4, <1>6, <2>3, DriveScanned
  <2> QED
    BY <1>7, <2>3, <2>4 DEF BootFound
<1> QED
  BY <1>2, <1>5, <1>6, <1>7, <1>8 DEF BootInv, BootOK, BootType

\* refresh_disks() again, or the first turn of init_fs().
LEMMA BootInitsFs ==
  ASSUME BootInv, init_fs
  PROVE  BootInv'
<1>1. PICK ide, b : ide = Ide /\ b = boot'
  OBVIOUS
<1>2. machine' = machine /\ fss' = fss /\ errors' = errors /\ boot.at = "disk" /\ boot.i > Len(ide)
  BY <1>1 DEF init_fs
<1>3. IdeOK(ide) /\ Len(ide) \in Nat /\ boot \in DiskBoot(ide) /\ Ide' = ide
  BY <1>1, <1>2, IdeIs, WhichBoot, SameIde DEF BootInv, BootOK
<1>4. boot.i - 1 = Len(ide)
  <2>1. boot.i \in 1 .. Len(ide) + 1
    BY <1>3 DEF DiskBoot
  <2> QED
    BY <1>2, <1>3, <2>1
<1>5. errors = 0 => DrivesOK(ide, drives) /\ fss = <<>> /\ Scanned(ide, drives, Len(ide))
  <2>1. SUFFICES ASSUME errors = 0
                 PROVE  DrivesOK(ide, drives) /\ fss = <<>> /\ Scanned(ide, drives, Len(ide))
    OBVIOUS
  <2>2. BootFound(ide, drives, fss, boot)
    BY <1>1, <2>1 DEF BootInv, BootOK
  <2> QED
    BY <1>2, <1>4, <2>2 DEF BootFound
<1>6. CASE boot.pass = 1
  <2>1. /\ b = [at |-> "disk", pass |-> 2, i |-> 1] /\ drives' = <<>>
        /\ mutex' = [j \in DOMAIN ide |-> 0]
    BY <1>1, <1>6 DEF init_fs
  <2>2. DevicesOK'
    <3>1. mutex' \in [DOMAIN ide -> 0 .. 1]
      BY <2>1
    <3> QED
      BY <1>2, <1>3, <3>1 DEF BootInv, DevicesOK
  <2>3. b \in DiskBoot(ide) /\ b.at = "disk" /\ b.i - 1 = 0
    BY <1>3, <2>1 DEF DiskBoot
  <2>4. Scanned(ide, <<>>, 0) /\ DrivesOK(ide, <<>>)
    BY NothingScanned
  <2>5. errors = 0 => BootFound(ide, <<>>, fss, b)
    BY <1>5, <2>3, <2>4 DEF BootFound
  <2> QED
    BY <1>1, <1>2, <1>3, <2>1, <2>2, <2>3, <2>5 DEF BootInv, BootOK, BootType
<1>7. CASE boot.pass # 1
  <2>1. b = [at |-> "fs", pass |-> 2, i |-> 1] /\ drives' = drives /\ mutex' = mutex
    BY <1>1, <1>7 DEF init_fs
  <2>2. DevicesOK'
    BY <1>2, <2>1, DevicesSame DEF BootInv
  <2>3. b \in FsBoot /\ b.at = "fs" /\ b.i = 1
    BY <2>1 DEF FsBoot
  <2>4. errors = 0 => BootFound(ide, drives, fss, b)
    <3>1. SUFFICES ASSUME errors = 0 PROVE BootFound(ide, drives, fss, b)
      OBVIOUS
    <3>2. FsScanned(ide, drives, <<>>, 1)
      BY <1>3, <1>5, <3>1, NoFsScanned
    <3> QED
      BY <1>5, <2>3, <3>1, <3>2 DEF BootFound
  <2> QED
    BY <1>1, <1>2, <1>3, <2>1, <2>2, <2>3, <2>4 DEF BootInv, BootOK, BootType
<1> QED
  BY <1>6, <1>7

FsNext(b) == [b EXCEPT !.i = @ + 1]

FsEnd(b, at) == [b EXCEPT !.at = at]

\* The loop of init_fs(), and its end.
LEMMA FsSteps ==
  ASSUME NEW b \in FsBoot, b.at = "fs", NEW at \in {"up", "failed"}
  PROVE  /\ FsNext(b) \in FsBoot /\ FsNext(b).at = "fs" /\ FsNext(b).i = b.i + 1
         /\ FsEnd(b, at) \in FsBoot /\ FsEnd(b, at).at = at
<1>1. b.i \in Nat /\ b.i + 1 \in Nat
  BY DEF FsBoot
<1>2. PICK n : n = b.i + 1
  OBVIOUS
<1>3. FsNext(b) = [b EXCEPT !.i = n]
  BY <1>2 DEF FsNext
<1>4. FsNext(b) \in FsBoot /\ FsNext(b).at = "fs" /\ FsNext(b).i = n
  BY <1>1, <1>2, <1>3 DEF FsBoot
<1>5. FsEnd(b, at) \in FsBoot /\ FsEnd(b, at).at = at
  BY DEF FsBoot, FsEnd
<1> QED
  BY <1>2, <1>4, <1>5

\* A turn of init_fs(): the superblock is read again.
LEMMA BootRegistersFs ==
  ASSUME BootInv, register_fs
  PROVE  BootInv'
<1>1. PICK ide, i, d, b : ide = Ide /\ i = boot.i /\ d = drives[boot.i] /\ b = boot'
  OBVIOUS
<1>2. machine' = machine /\ drives' = drives /\ boot.at = "fs" /\ i <= Len(drives) /\ b = FsNext(boot)
  BY <1>1 DEF register_fs, FsNext
<1>3. IdeOK(ide) /\ Len(ide) \in Nat /\ boot \in FsBoot /\ Ide' = ide
  BY <1>1, <1>2, IdeIs, WhichBoot, SameIde DEF BootInv, BootOK
<1>4. b \in FsBoot /\ b.at = "fs" /\ b.i = i + 1
  BY <1>1, <1>2, <1>3, FsSteps
<1>5. PICK fs : fs = fss'
  OBVIOUS
<1>6. ASSUME errors = 0
      PROVE  DrivesOK(ide, drives) /\ FsScanned(ide, drives, fss, i) /\ i \in 1 .. Len(drives)
  <2>1. BootFound(ide, drives, fss, boot)
    BY <1>1, <1>6 DEF BootInv, BootOK
  <2>2. DrivesOK(ide, drives) /\ FsScanned(ide, drives, fss, i)
    BY <1>1, <1>2, <2>1 DEF BootFound
  <2>3. i \in 1 .. Len(drives) + 1 /\ Len(drives) \in Nat
    BY <2>2 DEF FsScanned, DrivesOK
  <2> QED
    BY <1>2, <2>2, <2>3
<1>7. CASE d.type # DRIVE_TYPE_FS
  <2>1. mutex' = mutex /\ errors' = errors /\ fs = fss
    BY <1>1, <1>5, <1>7 DEF register_fs
  <2>2. Piece(ide, drives[i]) = <<>>
    BY <1>1, <1>7, NoPiece
  <2>3. errors = 0 => BootFound(ide, drives, fs, b)
    <3>1. SUFFICES ASSUME errors = 0 PROVE BootFound(ide, drives, fs, b)
      OBVIOUS
    <3>2. FsScanned(ide, drives, fs, i + 1)
      BY <1>2, <1>3, <1>6, <2>1, <2>2, <3>1, FsTurn
    <3> QED
      BY <1>4, <1>6, <3>1, <3>2 DEF BootFound
  <2>4. DevicesOK'
    BY <1>2, <2>1, DevicesSame DEF BootInv
  <2> QED
    BY <1>1, <1>2, <1>3, <1>4, <1>5, <2>1, <2>3, <2>4 DEF BootInv, BootOK, BootType
<1>8. CASE d.type = DRIVE_TYPE_FS
  <2>1. PICK o \in drive_sectors(ide[d.dev], d.start, 2, 1) :
          /\ Transferred(d.dev, o)
          /\ fss' = IF o = "ok" /\ d.start \in ide[d.dev].fs \ ide[d.dev].bad THEN <<d>> \o fss ELSE fss
    BY <1>1, <1>8 DEF register_fs
  <2>2. DevicesOK' /\ (errors' = 0 => errors = 0 /\ o # "error")
    BY <1>2, <2>1, TransferredKeeps DEF BootInv
  <2>3. errors' = 0 => BootFound(ide, drives, fs, b)
    <3>1. SUFFICES ASSUME errors' = 0 PROVE BootFound(ide, drives, fs, b)
      OBVIOUS
    <3>2. /\ DrivesOK(ide, drives) /\ FsScanned(ide, drives, fss, i) /\ i \in 1 .. Len(drives)
          /\ o # "error"
      BY <1>6, <2>2, <3>1
    <3>3. d \in DriveType(ide) /\ d.start \in ide[d.dev].fs /\ ide[d.dev].lba48 # 0
      BY <1>1, <1>8, <3>2 DEF DrivesOK
    <3>4. d.dev \in 1 .. Len(ide) /\ d.start \in Nat
      BY <3>3 DEF DriveType
    <3>5. PICK n, s : n = ide[d.dev].lba48 /\ s = d.start
      OBVIOUS
    <3>6. n \in Nat /\ s \in Nat /\ s + 2 < n /\ SectorCount(ide[d.dev]) = n
      BY <1>3, <3>3, <3>4, <3>5, DiskFields DEF SectorCount
    <3>7. ~(n < s + 2 + 1) /\ 2 \in 0 .. 2
      BY <3>6
    <3>8. o = "ok"
      <4>1. s <= SectorCount(ide[d.dev])
        BY <3>6
      <4> QED
        BY <1>3, <3>2, <3>4, <3>5, <3>7, <4>1, OutcomeIs
    <3>9. Piece(ide, d) = <<>> <=> ~(d.start \in ide[d.dev].fs \ ide[d.dev].bad)
      BY <1>8 DEF Piece
    <3>10. /\ Piece(ide, drives[i]) = <<>> => fs = fss
           /\ Piece(ide, drives[i]) # <<>> => fs = <<drives[i]>> \o fss
      BY <1>1, <1>5, <2>1, <3>8, <3>9
    <3>11. FsScanned(ide, drives, fs, i + 1)
      BY <1>2, <1>3, <3>2, <3>10, FsTurn
    <3> QED
      BY <1>4, <3>2, <3>11 DEF BootFound
  <2> QED
    BY <1>1, <1>2, <1>3, <1>4, <1>5, <2>2, <2>3 DEF BootInv, BootOK, BootType
<1> QED
  BY <1>7, <1>8

\* fs_set_root().
LEMMA BootSetsRoot ==
  ASSUME BootInv, fs_set_root
  PROVE  BootInv'
<1>1. PICK ide, b, at : ide = Ide /\ b = boot' /\ at = IF fss = <<>> THEN "failed" ELSE "up"
  OBVIOUS
<1>2. /\ UNCHANGED <<machine, mutex, drives, fss, errors>> /\ boot.at = "fs" /\ boot.i > Len(drives)
      /\ b = FsEnd(boot, at)
  BY <1>1 DEF fs_set_root, FsEnd
<1>3. IdeOK(ide) /\ boot \in FsBoot /\ Ide' = ide /\ DevicesOK'
  BY <1>1, <1>2, IdeIs, WhichBoot, SameIde, DevicesSame DEF BootInv, BootOK
<1>4. at \in {"up", "failed"}
  BY <1>1
<1>5. b \in FsBoot /\ b.at = at
  BY <1>2, <1>3, <1>4, FsSteps
<1>6. errors = 0 => BootFound(ide, drives, fss, b)
  <2>1. SUFFICES ASSUME errors = 0 PROVE BootFound(ide, drives, fss, b)
    OBVIOUS
  <2>2. BootFound(ide, drives, fss, boot)
    BY <1>1, <2>1 DEF BootInv, BootOK
  <2>3. DrivesOK(ide, drives) /\ FsScanned(ide, drives, fss, boot.i)
    BY <1>2, <2>2 DEF BootFound
  <2>4. Flat(DiskFs(ide), Len(ide), Places(fss))
    BY <1>2, <1>3, <2>3, FsDone
  <2> QED
    BY <1>4, <1>5, <2>3, <2>4 DEF BootFound
<1> QED
  BY <1>1, <1>2, <1>3, <1>5, <1>6 DEF BootInv, BootOK, BootType

\* A call leaves what boot has found alone.
LEMMA BootTransfer ==
  ASSUME BootInv, NEW b, NEW count, NEW o, Transfer(b, count, o)
  PROVE  BootInv'
<1>1. UNCHANGED <<machine, drives, fss, boot>> /\ Transferred(root_fs.dev, o)
  BY DEF Transfer
<1>2. DevicesOK' /\ (errors' = 0 => errors = 0)
  BY <1>1, TransferredKeeps DEF BootInv
<1>3. Ide' = Ide
  BY <1>1, SameIde
<1> QED
  BY <1>1, <1>2, <1>3 DEF BootInv, BootOK

\* Nothing happens to the devices.
LEMMA BootSame ==
  ASSUME BootInv, UNCHANGED bootVars
  PROVE  BootInv'
<1>1. UNCHANGED <<machine, mutex, drives, fss, boot, errors>>
  BY DEF bootVars
<1>2. Ide' = Ide /\ DevicesOK'
  BY <1>1, SameIde, DevicesSame DEF BootInv
<1> QED
  BY <1>1, <1>2 DEF BootInv, BootOK

\* Every step of a call transfers something or nothing.
LEMMA CallTransfers ==
  ASSUME CallStep
  PROVE  NoTransfer \/ \E b, count, o : Transfer(b, count, o)
<1>1. LoadInode => \E b, count, o : Transfer(b, count, o)
  BY Zenon DEF LoadInode
<1>2. ReadTurn => NoTransfer \/ \E b, count, o : Transfer(b, count, o)
  BY Zenon DEF ReadTurn
<1>3. WriteTurn => NoTransfer \/ \E b, count, o : Transfer(b, count, o)
  BY Zenon DEF WriteTurn
<1>4. TransferDone \/ Returned => NoTransfer
  BY Zenon DEF TransferDone, Returned
<1>5. FindEntry => \E b, count, o : Transfer(b, count, o)
  BY Zenon DEF FindEntry
<1>6. ext2_alloc_inode => \E b, count, o : Transfer(b, count, o)
  BY Zenon DEF ext2_alloc_inode
<1>7. ext2_alloc_blocks => \E b, count, o : Transfer(b, count, o)
  BY Zenon DEF ext2_alloc_blocks
<1>8. ext2_write_inode => NoTransfer \/ \E b, count, o : Transfer(b, count, o)
  BY Zenon DEF ext2_write_inode
<1>9. LinkEntry => \E b, count, o : Transfer(b, count, o)
  BY Zenon DEF LinkEntry
<1> QED
  BY <1>1, <1>2, <1>3, <1>4, <1>5, <1>6, <1>7, <1>8, <1>9 DEF CallStep

\* Every step keeps the invariant of boot.
LEMMA BootNext ==
  ASSUME BootInv, [Next]_vars
  PROVE  BootInv'
<1>1. CASE Booting
  <2>1. Boot
    BY <1>1 DEF Booting
  <2> QED
    BY <2>1, BootRegistersDisk, BootReadsMbr, BootParsesEntry, BootParsedMbr, BootRegistersDrive,
       BootInitsFs, BootRegistersFs, BootSetsRoot DEF Boot
<1>2. CASE \E i \in File, x \in Extent : ext2_read_file(i, x) \/ ext2_write_file(i, x)
  <2>1. NoTransfer
    BY <1>2 DEF ext2_read_file, ext2_write_file, Begin
  <2> QED
    BY <2>1, BootSame DEF NoTransfer
<1>3. CASE ext2_mknod
  BY <1>3, BootSame DEF ext2_mknod, Begin, NoTransfer
<1>4. CASE CallStep
  BY <1>4, CallTransfers, BootTransfer, BootSame DEF NoTransfer
<1>5. CASE UNCHANGED vars
  BY <1>5, BootSame DEF vars, bootVars
<1> QED
  BY <1>1, <1>2, <1>3, <1>4, <1>5 DEF Next

-----------------------------------------------------------------------------
CallsOK == calls \in 0 .. MaxCalls /\ heapOK \in BOOLEAN

\* A call is counted.
LEMMA CallsBegin ==
  ASSUME CallsOK, NEW c, Begin(c)
  PROVE  CallsOK'
BY StorageAssumption DEF CallsOK, Begin

\* Every step keeps the count of the calls.
LEMMA CallsNext ==
  ASSUME CallsOK, [Next]_vars
  PROVE  CallsOK'
<1>1. CASE Booting
  BY <1>1 DEF Booting, CallsOK
<1>2. CASE \E i \in File, x \in Extent : ext2_read_file(i, x) \/ ext2_write_file(i, x)
  BY <1>2, CallsBegin DEF ext2_read_file, ext2_write_file
<1>3. CASE ext2_mknod
  BY <1>3, CallsBegin DEF ext2_mknod
<1>4. CASE CallStep
  <2>1. calls' = calls
    BY <1>4 DEF CallStep, LoadInode, ReadTurn, WriteTurn, TransferDone, Returned, FindEntry,
                ext2_alloc_inode, ext2_alloc_blocks, ext2_write_inode, LinkEntry
  <2>2. heapOK' = heapOK \/ heapOK' \in BOOLEAN
    <3>1. FindEntry => heapOK' = heapOK \/ heapOK' \in BOOLEAN
      BY DEF FindEntry
    <3>2. ext2_alloc_inode \/ ext2_alloc_blocks => heapOK' = heapOK \/ heapOK' \in BOOLEAN
      BY DEF ext2_alloc_inode, ext2_alloc_blocks
    <3>3. LinkEntry => heapOK' \in BOOLEAN
      BY DEF LinkEntry
    <3>4. LoadInode \/ ReadTurn \/ WriteTurn \/ TransferDone \/ Returned \/ ext2_write_inode
            => heapOK' = heapOK
      BY DEF LoadInode, ReadTurn, WriteTurn, TransferDone, Returned, ext2_write_inode
    <3> QED
      BY <1>4, <3>1, <3>2, <3>3, <3>4 DEF CallStep
  <2> QED
    BY <2>1, <2>2 DEF CallsOK
<1>5. CASE UNCHANGED vars
  BY <1>5 DEF vars, CallsOK
<1> QED
  BY <1>1, <1>2, <1>3, <1>4, <1>5 DEF Next

\* Boot finds every file system once and in order.
LEMMA BootHasFound ==
  ASSUME BootInv
  PROVE  FsFound
<1> SUFFICES ASSUME boot.at \in {"up", "failed"}, errors = 0
             PROVE  Places(fss) = FlattenSeq([i \in DOMAIN Ide |-> FsOn(i)])
  BY DEF FsFound, Places
<1>1. IdeOK(Ide) /\ Len(Ide) \in Nat /\ DOMAIN Ide = 1 .. Len(Ide)
  BY IdeIs DEF BootInv
<1>2. Flat(DiskFs(Ide), Len(Ide), Places(fss))
  BY DEF BootInv, BootOK, BootFound
<1>3. [i \in DOMAIN Ide |-> FsOn(i)] = DiskFs(Ide)
  BY <1>1, FsOnIs DEF DiskFs
<1>4. DiskFs(Ide) \in [1 .. Len(Ide) -> Seq(Place)]
  BY <1>1, DiskFsIs
<1>5. FlattenSeq(DiskFs(Ide)) = Places(fss)
  BY <1>1, <1>2, <1>4, FlattenIs
<1> QED
  BY <1>3, <1>5

\* The disks, their semaphores, the root file system and the image are as boot
\* and the calls have to leave them.
THEOREM StorageIsOK == Spec => []StorageOK
<1>1. Init => BootInv /\ CallsOK
  BY BootBegins, StorageAssumption DEF Init, CallsOK
<1>2. BootInv /\ CallsOK /\ [Next]_vars => BootInv' /\ CallsOK'
  BY BootNext, CallsNext
<1>3. BootInv /\ CallsOK /\ FileInv => StorageOK
  <2> SUFFICES ASSUME BootInv, CallsOK, FileInv PROVE StorageOK
    OBVIOUS
  <2>1. FsFound
    BY BootHasFound
  <2>2. boot.at \in {"disk", "mbr", "entry", "whole", "fs", "up", "failed"}
    BY WhichBoot DEF BootInv, BootOK
  <2>3. img \in ImageType
    BY WhichCall
  <2> QED
    BY <2>1, <2>2, <2>3 DEF StorageOK, TypeOK, BootInv, DevicesOK, CallsOK
<1> QED
  BY <1>1, <1>2, <1>3, FilesStayConsistent, PTL DEF Spec

=============================================================================
