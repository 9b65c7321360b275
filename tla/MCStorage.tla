----------------------------- MODULE MCStorage -----------------------------
EXTENDS Storage

Unused == [used |-> FALSE, start |-> 0, count |-> 0]

Part(start, count) == [used |-> TRUE, start |-> start, count |-> count]

IdeDisk(mbr, fs) ==
  [lba28 |-> 28, lba48 |-> 28, gpt |-> FALSE, mbr |-> mbr, fs |-> fs, bad |-> {}]

NoMbr == <<Unused, Unused, Unused, Unused>>

\* Two file systems; one behind a partition of something else, before a partition
\* that starts at the sign bit or later, and one behind that; an old disk before
\* a disk that is all one file system; a GPT, and a bad superblock before a
\* partition that is too large; a disk shorter than its file system.
MCMachine ==
  {<< <<IdeDisk(<<Part(2, 12), Unused, Part(14, 12), Unused>>, {2, 14}), None, None, None>> >>,
   << <<IdeDisk(<<Part(1, 3), Part(4, 12), Part(22, 6), Part(16, 12)>>, {4, 16, 22}),
        None, None, None>> >>,
   << <<None, [IdeDisk(NoMbr, {}) EXCEPT !.lba48 = 0], None, None>>,
      <<None, None, IdeDisk(NoMbr, {0}), None>> >>,
   << <<[IdeDisk(NoMbr, {}) EXCEPT !.gpt = TRUE],
        [IdeDisk(<<Part(2, 12), Part(18, 12), Part(16, 12), Unused>>, {2, 16}) EXCEPT !.bad = {2}],
        None, None>> >>,
   << <<[IdeDisk(NoMbr, {0}) EXCEPT !.lba28 = 8, !.lba48 = 8], None, None, None>> >>,
   << <<None, None, None, None>> >>}

MCExtent == {<<0, 1>>, <<1, 3>>, <<2, 2>>, <<2, 3>>, <<1, 6>>, <<5, 3>>}

Entry(name, i, type) == [name |-> name, inode |-> i, type |-> type]

INode(isDir, size, direct, ind) ==
  [isDir |-> isDir, size |-> size, direct |-> [n \in {0} |-> direct], singly_indirect |-> ind]

\* Inode 2 is the root, with a second block that is found through block 6; 3 is
\* a file of four blocks, the last of which is out of reach; 4 a small file.
Tree(zero) ==
  [imap |-> 0 .. 4, inodes_in_group |-> 3, bmap |-> (0 .. 9) \cup {12, 13},
   ifree |-> [g \in 0 .. 1 |-> IF g = 0 THEN 0 ELSE 1],
   bfree |-> [g \in 0 .. 1 |-> IF g = 0 THEN 0 ELSE 2],
   ino |-> [i \in Inode |-> CASE i = 2 -> INode(TRUE, 4, 2, 6)
                              [] i = 3 -> INode(FALSE, 7, 4, 5)
                              [] i = 4 -> INode(FALSE, 2, 8, 0)
                              [] i = 5 -> INode(TRUE, 2, 0, 0)
                              [] OTHER -> INode(FALSE, 0, 0, 0)],
   data |-> [b \in Block |-> [x \in 1 .. BlockSize |-> 10 * b + x]],
   ptrs |-> [b \in Block |-> CASE b = 5 -> [n \in 0 .. 2 |-> IF n = 0 THEN 1 ELSE IF n = 1 THEN 7 ELSE 3]
                               [] b = 6 -> [n \in 0 .. 2 |-> IF n = 0 THEN 9 ELSE 0]
                               [] OTHER -> [n \in 0 .. 2 |-> 0]],
   dir |-> [b \in Block |->
              CASE b = 2 -> [entries |-> <<Entry("d", 5, "dir"), Entry("g", 3, "file")>>, zero |-> zero]
                [] b = 9 -> [entries |-> <<Entry("h", 4, "file")>>, zero |-> FALSE]
                [] OTHER -> [entries |-> <<>>, zero |-> FALSE]]]

\* As mkfs makes it; with a zero size behind the entries; without inodes left;
\* with a bitmap of inodes of which no block is read; with an overrun name.
MCImage == {Tree(FALSE), Tree(TRUE), [Tree(FALSE) EXCEPT !.imap = 0 .. 5],
            [Tree(TRUE) EXCEPT !.inodes_in_group = 4],
            [Tree(FALSE) EXCEPT !.dir[2].entries = <<Entry("full", 3, "file"), Entry("d", 5, "dir")>>]}

=============================================================================
