------------------------------- MODULE Nodes -------------------------------
(***************************************************************************)
(* The cache of the VFS (nodes.c): the tree of the directories and files   *)
(* that are loaded.  A tnode is a name in the list of a directory, given   *)
(* by its path from the root of the file system and its kind; a vnode is a *)
(* node in memory: that of a tnode, or one that mknode_file() has made.    *)
(* The cache is a record:                                                  *)
(*                                                                         *)
(*   disk     the names that are on the disk                               *)
(*   tnodes   the names in the lists of the loaded directories             *)
(*   vnodes   the nodes that the tnodes point to                           *)
(*   created  the nodes of mknode_file(), which nothing points to          *)
(*   epoch    how often a list was loaded anew; part of the identity of a  *)
(*            vnode, so that one that was freed differs from its successor *)
(*   relisted the directories whose list was loaded anew, and the epochs   *)
(*            that began with it                                           *)
(*   errors   how many transfers may still fail, a bound                   *)
(*   failed   whether any has                                              *)
(*                                                                         *)
(* Every directory has "." and "..", too, which lead to further nodes of   *)
(* directories that are loaded already; they are left out.                 *)
(***************************************************************************)
EXTENDS Integers, FiniteSets, SequencesExt

CONSTANTS
  Name,  \* the names in a path
  Path,  \* the paths of the names that can exist
  NULL

Kind == {"file", "dir"}

Tnode == Path \X Kind

Root == <<>>

\* The node of the root of the file system, which is mounted at "/".
RootNode == <<Root, "dir", 0>>

\* What identifies a node.
NodeId == (Path \cup {Root}) \X (Kind \cup {"created"}) \X Nat

ASSUME NodesAssumption ==
  /\ Path \subseteq Seq(Name) \ {Root} /\ IsFiniteSet(Path)
  /\ NULL \notin NodeId

\* The type of a cache: a node is of a path there can be and not from the future.
CacheType(c) ==
  /\ c \in [disk : SUBSET Tnode, tnodes : SUBSET Tnode, vnodes : SUBSET NodeId,
            created : SUBSET NodeId, epoch : Nat, relisted : SUBSET (Seq(Name) \X Nat),
            errors : Nat, failed : BOOLEAN]
  /\ c.tnodes \subseteq c.disk
  /\ \A v \in c.vnodes : <<v[1], v[2]>> \in Tnode /\ v[3] <= c.epoch
  /\ \A v \in c.created : v[1] \in Path /\ v[2] = "created" /\ v[3] <= c.epoch

Node(t, epoch) == <<t[1], t[2], epoch>>

\* The nodes in memory.
Live(c) == c.vnodes \cup c.created \cup {RootNode}

IsBelow(d, t) == IsStrictPrefix(d, t[1])

Children(c, d) == {t \in c.tnodes : IsPrefix(d, t[1]) /\ Len(t[1]) = Len(d) + 1}

-----------------------------------------------------------------------------
\* The names of one kind in a directory.
Names(c, d, k) == {t \in c.disk : IsPrefix(d, t[1]) /\ Len(t[1]) = Len(d) + 1 /\ t[2] = k}

\* The cache when the driver has read the lists of the kinds K.
Got(c, d, K) == [c EXCEPT !.tnodes = @ \cup UNION {Names(c, d, k) : k \in K},
                          !.errors = @ - Cardinality(Kind \ K),
                          !.failed = @ \/ K # Kind]

\* The lists of the driver, each of which may fail and is then empty.
Listed(c, d) == {x \in {Got(c, d, K) : K \in SUBSET Kind} : x.errors >= 0}

FreeKeepsBelow_Mutant(c, d) ==
  [c EXCEPT !.tnodes = @ \ Children(c, d),
            !.vnodes = {v \in @ : <<v[1], v[2]>> \notin Children(c, d)},
            !.epoch = @ + 1, !.relisted = @ \cup {<<d, c.epoch + 1>>}]

\* All that is below the directory is freed, also what is open.
free_dir_list(c, d) ==
  [c EXCEPT !.tnodes = {t \in @ : ~IsBelow(d, t)},
            !.vnodes = {v \in @ : ~IsBelow(d, v)},
            !.epoch = @ + 1, !.relisted = @ \cup {<<d, c.epoch + 1>>}]

\* A node that was freed with the list of a directory above it.
Freed(c, v) == \E r \in c.relisted : IsBelow(r[1], v) /\ v[3] < r[2]

LoadOnlyFrees_Mutant(c, d) == {free_dir_list(c, d)}

vfs_dir_load_list(c, d) == Listed(free_dir_list(c, d), d)

(***************************************************************************)
(* vfs_load_folder_at() and vfs_load_file_at(): the possible caches, with  *)
(* the new node or NULL.  A new directory gets its list; a failure loads   *)
(* the list of the parent anew.                                            *)
(***************************************************************************)
vfs_load_at(c, d, t) ==
  LET new == [c EXCEPT !.vnodes = @ \cup {Node(t, c.epoch)}]
      loaded == IF t[2] = "dir" THEN Listed(new, t[1]) ELSE {new}
      failed == IF c.errors = 0 THEN {}
                ELSE vfs_dir_load_list([c EXCEPT !.errors = @ - 1, !.failed = TRUE], d)
  IN  {[cache |-> x, node |-> Node(t, c.epoch)] : x \in loaded}
        \cup {[cache |-> x, node |-> NULL] : x \in failed}

\* One name of a path: files are searched before directories, but only
\* directories on the way.
Descend(at, name, last) ==
  LET d == at.node[1]
      e == Append(d, name)
      found == {t \in at.cache.tnodes : t[1] = e /\ (t[2] = "dir" \/ last)}
      t == IF <<e, "file">> \in found THEN <<e, "file">> ELSE <<e, "dir">>
      nodes == {v \in at.cache.vnodes : <<v[1], v[2]>> = t}
  IN  IF at.node = NULL THEN {at} ELSE
      IF found = {} THEN {[at EXCEPT !.node = NULL]} ELSE
      IF nodes = {} THEN vfs_load_at(at.cache, d, t)
                    ELSE {[at EXCEPT !.node = CHOOSE v \in nodes : TRUE]}

\* The loop over the names of a path.
Descended(c, from, path, whole) ==
  LET at[n \in 0 .. Len(path)] ==
        IF n = 0 THEN {[cache |-> c, node |-> from]}
        ELSE UNION {Descend(x, path[n], whole /\ n = Len(path)) : x \in at[n - 1]}
  IN  at[Len(path)]

\* The caches and nodes that a search for a path may end with.
vfs_search_vnode(c, from, path) == Descended(c, from, path, TRUE)

\* The search has read the vnode of a tnode that was freed: the last name could
\* not be loaded, and so the list it was in was loaded anew.
ReadsFreedTnode(c, from, path, at) ==
  /\ path # Root /\ at.node = NULL
  /\ \E r \in at.cache.relisted \ c.relisted : r[1] = from[1] \o Front(path)

(***************************************************************************)
(* mknode_file(): the path always starts at the root.  If the file exists  *)
(* its vnode is returned, be it loaded or not.  Otherwise the driver makes *)
(* the file, or fails to, and the list of the directory is loaded anew;    *)
(* the new node is not part of it.                                         *)
(***************************************************************************)
mknode_file(c, path) ==
  LET Create(at) ==
        LET file == <<Append(at.node[1], Last(path)), "file">>
            new == <<file[1], "created", at.cache.epoch>>
            old == {v \in at.cache.vnodes : <<v[1], v[2]>> = file}
            made(disk) == [at.cache EXCEPT !.disk = disk, !.created = @ \cup {new}]
        IN  IF file \in at.cache.tnodes
            THEN {[at EXCEPT !.node = IF old = {} THEN NULL ELSE CHOOSE v \in old : TRUE]}
            ELSE {[cache |-> x, node |-> new] :
                    x \in UNION {vfs_dir_load_list(made(disk), at.node[1]) :
                                   disk \in {at.cache.disk, at.cache.disk \cup {file}}}}
  IN  UNION {IF at.node = NULL THEN {at} ELSE Create(at) :
               at \in Descended(c, RootNode, Front(path), FALSE)}

-----------------------------------------------------------------------------
\* What is on a disk is in a directory that is on it.
DiskIsTree(disk) == \A t \in disk : Front(t[1]) = Root \/ <<Front(t[1]), "dir">> \in disk

\* The directories that are loaded.
Dirs(c) == {v[1] : v \in {w \in c.vnodes \cup {RootNode} : w[2] = "dir"}}

(***************************************************************************)
(* The cache is a tree: a name is listed, and a node loaded, only below a  *)
(* directory that is loaded, so that nothing is left behind when a list is *)
(* freed, and a name has one node.  Unless a transfer has failed, the list *)
(* of a loaded directory is complete (nodes.c, free_dir_list).             *)
(***************************************************************************)
IsTree(c) ==
  /\ DiskIsTree(c.disk)
  /\ \A t \in c.tnodes : Front(t[1]) \in Dirs(c)
  /\ \A v \in c.vnodes : <<v[1], v[2]>> \in c.tnodes
  /\ \A v, w \in c.vnodes : <<v[1], v[2]>> = <<w[1], w[2]>> => v = w
  /\ c.failed \/ \A t \in c.disk : Front(t[1]) \in Dirs(c) => t \in c.tnodes

\* Unless a transfer has failed, a path is found through the cache if and only
\* if it is on the disk.
FindsDisk(c, path) ==
  LET found == {at \in vfs_search_vnode([c EXCEPT !.errors = 0], RootNode, path) : at.node # NULL}
  IN  c.failed \/ (found # {} <=> \E k \in Kind : <<path, k>> \in c.disk)

=============================================================================
