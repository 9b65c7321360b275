---------------------------- MODULE NodesProofs ----------------------------
(***************************************************************************)
(* Lemmas about the cache of the VFS, for any names, paths and disk: what  *)
(* a load, a search and a creation keep of a cache and of its nodes, that  *)
(* the cache stays a tree, and what a search finds.                        *)
(***************************************************************************)
EXTENDS Nodes, FiniteSetTheorems, SequenceTheorems, WellFoundedInduction,
        NaturalsInduction, TLAPS

\* Every set of numbers has a least one.
LEMMA LeastNat ==
  ASSUME NEW T, T \subseteq Nat, T # {}
  PROVE  \E x \in T : \A y \in T : x <= y
<1>1. IsWellFoundedOn(OpToRel(<, Nat), Nat)
  BY NatLessThanWellFounded
<1>2. PICK x \in T : \A y \in T : ~(<<y, x>> \in OpToRel(<, Nat))
  BY <1>1, WFMin
<1>3. ASSUME NEW y \in Nat, NEW z \in Nat, y < z PROVE <<y, z>> \in OpToRel(<, Nat)
  <2>1. <<y, z>> \in {ss \in Nat \X Nat : ss[1] < ss[2]}
    BY <1>3
  <2> QED
    BY <2>1 DEF OpToRel
<1>4. \A y \in T : ~(y < x)
  BY <1>2, <1>3
<1> QED
  BY <1>4

-----------------------------------------------------------------------------
(***************************************************************************)
(* Paths.                                                                  *)
(***************************************************************************)

LEMMA FrontOf ==
  ASSUME NEW S, NEW e \in Seq(S), e # <<>>
  PROVE  /\ Front(e) \in Seq(S) /\ Len(Front(e)) = Len(e) - 1 /\ Len(e) > 0
         /\ \A i \in 1 .. Len(e) - 1 : Front(e)[i] = e[i]
         /\ e[Len(e)] \in S /\ e = Append(Front(e), e[Len(e)])
<1>1. Len(e) \in Nat /\ Len(e) > 0
  OBVIOUS
<1>2. Front(e) = [i \in 1 .. Len(e) - 1 |-> e[i]]
  BY <1>1 DEF Front
<1>3. Front(e) \in Seq(S) /\ Len(Front(e)) = Len(e) - 1
  BY <1>1, <1>2
<1>4. e = Append(Front(e), e[Len(e)])
  BY <1>1, <1>2, <1>3
<1> QED
  BY <1>1, <1>2, <1>3, <1>4

LEMMA PrefixIs ==
  ASSUME NEW S, NEW d \in Seq(S), NEW e \in Seq(S)
  PROVE  IsPrefix(d, e) <=> Len(d) <= Len(e) /\ \A i \in 1 .. Len(d) : d[i] = e[i]
<1>1. SubSeq(d, 1, Len(d)) = d
  OBVIOUS
<1>2. Len(d) <= Len(e) => SubSeq(e, 1, Len(d)) = [i \in 1 .. Len(d) |-> e[i]]
  OBVIOUS
<1>3. d = [i \in 1 .. Len(d) |-> d[i]]
  OBVIOUS
<1>4. ASSUME Len(d) <= Len(e), \A i \in 1 .. Len(d) : d[i] = e[i] PROVE IsPrefix(d, e)
  BY <1>1, <1>2, <1>3, <1>4 DEF IsPrefix
<1>5. ASSUME IsPrefix(d, e) PROVE Len(d) <= Len(e) /\ \A i \in 1 .. Len(d) : d[i] = e[i]
  BY <1>1, <1>2, <1>3, <1>5 DEF IsPrefix
<1> QED
  BY <1>4, <1>5

\* The names in a directory are those whose path ends there.
LEMMA ChildIs ==
  ASSUME NEW S, NEW d \in Seq(S), NEW e \in Seq(S), e # <<>>
  PROVE  IsPrefix(d, e) /\ Len(e) = Len(d) + 1 <=> Front(e) = d
<1>1. /\ Front(e) \in Seq(S) /\ Len(Front(e)) = Len(e) - 1 /\ Len(e) > 0 /\ Len(e) \in Nat
      /\ \A i \in 1 .. Len(e) - 1 : Front(e)[i] = e[i]
  BY FrontOf
<1>2. ASSUME IsPrefix(d, e), Len(e) = Len(d) + 1 PROVE Front(e) = d
  <2>1. Len(d) \in Nat /\ \A i \in 1 .. Len(d) : d[i] = Front(e)[i]
    BY <1>1, <1>2, PrefixIs
  <2> QED
    BY <2>1, <1>1, <1>2
<1>3. ASSUME Front(e) = d PROVE IsPrefix(d, e) /\ Len(e) = Len(d) + 1
  BY <1>1, <1>3, PrefixIs
<1> QED
  BY <1>2, <1>3

\* What is below a directory is in it or below a directory of it.
LEMMA BelowIs ==
  ASSUME NEW S, NEW d \in Seq(S), NEW e \in Seq(S), e # <<>>
  PROVE  /\ ~IsStrictPrefix(d, d)
         /\ IsStrictPrefix(d, e) <=> Front(e) = d \/ IsStrictPrefix(d, Front(e))
<1>1. /\ Front(e) \in Seq(S) /\ Len(Front(e)) = Len(e) - 1 /\ Len(e) > 0 /\ Len(e) \in Nat
      /\ \A i \in 1 .. Len(e) - 1 : Front(e)[i] = e[i]
      /\ Len(d) \in Nat
  BY FrontOf
<1>2. ASSUME IsStrictPrefix(d, e) PROVE Front(e) = d \/ IsStrictPrefix(d, Front(e))
  <2>1. Len(d) <= Len(e) /\ (\A i \in 1 .. Len(d) : d[i] = e[i]) /\ d # e
    BY <1>2, PrefixIs DEF IsStrictPrefix
  <2>2. Len(d) # Len(e)
    BY <2>1
  <2>3. Len(d) <= Len(Front(e)) /\ \A i \in 1 .. Len(d) : d[i] = Front(e)[i]
    BY <1>1, <2>1, <2>2
  <2>4. IsPrefix(d, Front(e))
    BY <1>1, <2>3, PrefixIs
  <2> QED
    BY <2>4 DEF IsStrictPrefix
<1>3. ASSUME Front(e) = d \/ IsStrictPrefix(d, Front(e)) PROVE IsStrictPrefix(d, e)
  <2>1. IsPrefix(d, Front(e))
    BY <1>1, <1>3, PrefixIs DEF IsStrictPrefix
  <2>2. Len(d) <= Len(e) - 1 /\ \A i \in 1 .. Len(d) : d[i] = Front(e)[i]
    BY <1>1, <2>1, PrefixIs
  <2>3. Len(d) <= Len(e) /\ (\A i \in 1 .. Len(d) : d[i] = e[i]) /\ d # e
    BY <1>1, <2>2
  <2> QED
    BY <2>3, PrefixIs DEF IsStrictPrefix
<1> QED
  BY <1>2, <1>3 DEF IsStrictPrefix

LEMMA FrontOfAppend ==
  ASSUME NEW S, NEW d \in Seq(S), NEW n \in S
  PROVE  Append(d, n) \in Seq(S) /\ Append(d, n) # <<>> /\ Front(Append(d, n)) = d
<1>1. PICK e : e = Append(d, n)
  OBVIOUS
<1>2. e \in Seq(S) /\ e # <<>> /\ Len(e) = Len(d) + 1 /\ Len(d) \in Nat
      /\ \A i \in 1 .. Len(d) : e[i] = d[i]
  BY <1>1
<1>3. /\ Front(e) \in Seq(S) /\ Len(Front(e)) = Len(e) - 1
      /\ \A i \in 1 .. Len(e) - 1 : Front(e)[i] = e[i]
  BY <1>2, FrontOf
<1>4. Front(e) = d
  BY <1>2, <1>3
<1> QED
  BY <1>1, <1>2, <1>4

-----------------------------------------------------------------------------
(***************************************************************************)
(* The lists of directories.                                               *)
(***************************************************************************)

\* The fields of a cache and the parts of its nodes.
LEMMA CacheFields ==
  ASSUME NEW c, CacheType(c)
  PROVE  /\ c.disk \subseteq Tnode /\ c.tnodes \subseteq c.disk /\ c.vnodes \subseteq NodeId
         /\ c.created \subseteq NodeId /\ c.epoch \in Nat /\ c.errors \in Nat
         /\ c.failed \in BOOLEAN /\ RootNode \in NodeId /\ Live(c) \subseteq NodeId
         /\ \A t \in Tnode : t = <<t[1], t[2]>> /\ t[1] \in Path /\ t[2] \in Kind
         /\ \A v \in c.vnodes : /\ v[1] \in Path /\ v[2] \in Kind /\ <<v[1], v[2]>> \in Tnode
                                /\ v[3] \in Nat /\ v[3] <= c.epoch
                                /\ v = <<v[1], v[2], v[3]>>
         /\ \A p \in Path : p \in Seq(Name) /\ p # <<>>
<1> USE DEF CacheType
<1>1. /\ c.disk \subseteq Tnode /\ c.tnodes \subseteq c.disk /\ c.vnodes \subseteq NodeId
      /\ c.created \subseteq NodeId /\ c.epoch \in Nat /\ c.errors \in Nat
      /\ c.failed \in BOOLEAN
  OBVIOUS
<1>2. \A t \in Tnode : t = <<t[1], t[2]>> /\ t[1] \in Path /\ t[2] \in Kind
  BY DEF Tnode
<1>3. \A v \in NodeId : v[3] \in Nat /\ v = <<v[1], v[2], v[3]>>
  BY DEF NodeId
<1>4. \A v \in c.vnodes : /\ v[1] \in Path /\ v[2] \in Kind /\ <<v[1], v[2]>> \in Tnode
                          /\ v[3] \in Nat /\ v[3] <= c.epoch /\ v = <<v[1], v[2], v[3]>>
  <2> TAKE v \in c.vnodes
  <2>1. <<v[1], v[2]>> \in Tnode /\ v[3] <= c.epoch /\ v \in NodeId
    BY <1>1
  <2>2. v[1] \in Path /\ v[2] \in Kind
    BY <2>1 DEF Tnode
  <2> QED
    BY <2>1, <2>2, <1>3
<1>5. \A p \in Path : p \in Seq(Name) /\ p # <<>>
  BY NodesAssumption DEF Root
<1>6. RootNode \in NodeId
  BY DEF RootNode, NodeId, Kind, Root
<1>7. Live(c) \subseteq NodeId
  BY <1>1, <1>6 DEF Live
<1> QED
  BY <1>1, <1>2, <1>4, <1>5, <1>6, <1>7

\* x is the cache c with some of the names in the directory d in its list.
Lists(c, d, x) ==
  /\ CacheType(x) /\ x.disk = c.disk /\ x.vnodes = c.vnodes /\ x.created = c.created
  /\ x.epoch = c.epoch /\ x.relisted = c.relisted /\ c.tnodes \subseteq x.tnodes
  /\ \A t \in x.tnodes \ c.tnodes : Front(t[1]) = d
  /\ ~x.failed => ~c.failed /\ \A t \in c.disk : Front(t[1]) = d => t \in x.tnodes

LEMMA KindsFailed ==
  ASSUME NEW K \in SUBSET Kind
  PROVE  Cardinality(Kind \ K) \in Nat /\ (Cardinality(Kind \ K) = 0 <=> K = Kind)
<1>1. IsFiniteSet(Kind)
  <2>1. Kind = {"file"} \cup {"dir"}
    BY DEF Kind
  <2>2. IsFiniteSet({"file"}) /\ IsFiniteSet({"dir"})
    BY FS_Singleton
  <2> QED
    BY <2>1, <2>2, FS_Union
<1>2. IsFiniteSet(Kind \ K)
  BY <1>1, FS_Subset
<1>3. Cardinality(Kind \ K) \in Nat
  BY <1>2, FS_CardinalityType
<1>4. Cardinality(Kind \ K) = 0 <=> Kind \ K = {}
  BY <1>2, FS_EmptySet
<1> QED
  BY <1>3, <1>4

CacheRecord ==
  [disk : SUBSET Tnode, tnodes : SUBSET Tnode, vnodes : SUBSET NodeId,
   created : SUBSET NodeId, epoch : Nat, relisted : SUBSET (Seq(Name) \X Nat),
   errors : Nat, failed : BOOLEAN]

\* The fields of the cache y when the lists of the kinds K were read.
IsGot(c, d, K, y) ==
  /\ y \in CacheRecord /\ y.disk = c.disk /\ y.vnodes = c.vnodes
  /\ y.created = c.created /\ y.epoch = c.epoch /\ y.relisted = c.relisted
  /\ y.tnodes = c.tnodes \cup UNION {Names(c, d, k) : k \in K}
  /\ y.errors = c.errors - Cardinality(Kind \ K)
  /\ y.failed = (c.failed \/ K # Kind)

LEMMA GotFields ==
  ASSUME NEW c, CacheType(c), NEW d, NEW K \in SUBSET Kind,
         NEW y, y = Got(c, d, K), y.errors >= 0
  PROVE  IsGot(c, d, K, y)
<1> DEFINE U == UNION {Names(c, d, k) : k \in K}
           N == Cardinality(Kind \ K)
<1>1. U \subseteq c.disk
  BY DEF Names
<1>2. N \in Nat
  BY KindsFailed
<1>3. c \in CacheRecord
  BY DEF CacheType, CacheRecord
<1>4. y = [c EXCEPT !.tnodes = @ \cup U, !.errors = @ - N, !.failed = @ \/ K # Kind]
  BY DEF Got
<1>5. y.errors = c.errors - N
  BY <1>3, <1>4 DEF CacheRecord
<1> HIDE DEF U, N
<1>6. c.errors - N \in Nat
  BY <1>2, <1>3, <1>5 DEF CacheRecord
<1>7. c.disk \subseteq Tnode /\ c.tnodes \cup U \subseteq Tnode
  BY <1>1, <1>3 DEF CacheRecord
<1>8. /\ y.disk = c.disk /\ y.vnodes = c.vnodes
      /\ y.created = c.created /\ y.epoch = c.epoch /\ y.relisted = c.relisted
      /\ y.tnodes = c.tnodes \cup U
      /\ y.failed = (c.failed \/ K # Kind)
  BY <1>3, <1>4 DEF CacheRecord
<1>9. y \in CacheRecord
  BY <1>3, <1>4, <1>6, <1>7 DEF CacheRecord
<1> QED
  BY <1>5, <1>8, <1>9 DEF U, N, IsGot

LEMMA NamesAre ==
  ASSUME NEW c, CacheType(c), NEW d \in Seq(Name)
  PROVE  UNION {Names(c, d, k) : k \in Kind} = {t \in c.disk : Front(t[1]) = d}
<1>1. \A t \in c.disk : /\ t[2] \in Kind /\ t[1] \in Seq(Name) /\ t[1] # <<>>
  BY CacheFields
<1>2. \A t \in c.disk : IsPrefix(d, t[1]) /\ Len(t[1]) = Len(d) + 1 <=> Front(t[1]) = d
  BY <1>1, ChildIs
<1> QED
  BY <1>1, <1>2 DEF Names

LEMMA ListedLists ==
  ASSUME NEW c, CacheType(c), NEW d \in Seq(Name), NEW x \in Listed(c, d)
  PROVE  Lists(c, d, x)
<1>1. PICK K \in SUBSET Kind : x = Got(c, d, K) /\ x.errors >= 0
  BY DEF Listed
<1>2. UNION {Names(c, d, k) : k \in K} \subseteq UNION {Names(c, d, k) : k \in Kind}
  OBVIOUS
<1>3. UNION {Names(c, d, k) : k \in K} \subseteq {t \in c.disk : Front(t[1]) = d}
  BY <1>2, NamesAre
<1>0. IsGot(c, d, K, x)
  BY <1>1, GotFields
<1>4. /\ x \in CacheRecord /\ x.disk = c.disk /\ x.vnodes = c.vnodes /\ x.created = c.created
      /\ x.epoch = c.epoch /\ x.tnodes = c.tnodes \cup UNION {Names(c, d, k) : k \in K}
      /\ x.failed = (c.failed \/ K # Kind) /\ x.relisted = c.relisted
  BY <1>0 DEF IsGot
<1>5. CacheType(x)
  BY <1>3, <1>4 DEF CacheType, CacheRecord
<1>6. ASSUME ~x.failed PROVE ~c.failed /\ \A t \in c.disk : Front(t[1]) = d => t \in x.tnodes
  <2>1. ~c.failed /\ K = Kind
    BY <1>4, <1>6
  <2> QED
    BY <2>1, <1>4, NamesAre
<1> QED
  BY <1>3, <1>4, <1>5, <1>6 DEF Lists

\* Without a failed transfer there is one result.
LEMMA ListedOnce ==
  ASSUME NEW c, CacheType(c), c.errors = 0, NEW d \in Seq(Name)
  PROVE  /\ Listed(c, d) # {}
         /\ \A x \in Listed(c, d) : x.errors = 0 /\ x.failed = c.failed
<1>1. Cardinality(Kind \ Kind) = 0 /\ Kind \in SUBSET Kind
  BY KindsFailed
<1>2. Got(c, d, Kind).errors = c.errors - Cardinality(Kind \ Kind)
  BY DEF Got, CacheType
<1>3. Got(c, d, Kind) \in Listed(c, d)
  BY <1>1, <1>2 DEF Listed
<1>4. ASSUME NEW x \in Listed(c, d) PROVE x.errors = 0 /\ x.failed = c.failed
  <2>1. PICK K \in SUBSET Kind : x = Got(c, d, K) /\ x.errors >= 0
    BY DEF Listed
  <2>0. IsGot(c, d, K, x)
    BY <2>1, GotFields
  <2>2. /\ x.errors = c.errors - Cardinality(Kind \ K) /\ x.failed = (c.failed \/ K # Kind)
        /\ c.failed \in BOOLEAN
    BY <2>0 DEF CacheType, IsGot
  <2>3. Cardinality(Kind \ K) \in Nat /\ (Cardinality(Kind \ K) = 0 <=> K = Kind)
    BY KindsFailed
  <2>4. K = Kind /\ x.errors = 0
    BY <2>1, <2>2, <2>3
  <2> QED
    BY <2>2, <2>4
<1> QED
  BY <1>3, <1>4

-----------------------------------------------------------------------------
(***************************************************************************)
(* What a step may do to a cache: names are added to the disk and nodes to *)
(* the created ones, and a node is freed only with a list above it.        *)
(***************************************************************************)
Later(c, x) ==
  /\ CacheType(x) /\ c.disk \subseteq x.disk /\ c.created \subseteq x.created
  /\ c.epoch <= x.epoch /\ c.relisted \subseteq x.relisted
  /\ \A v \in c.vnodes : v \in x.vnodes \/ Freed(x, v)

LEMMA LaterSame ==
  ASSUME NEW c, CacheType(c)
  PROVE  Later(c, c)
BY CacheFields DEF Later

LEMMA LaterTrans ==
  ASSUME NEW c, NEW x, NEW y, CacheType(c), Later(c, x), Later(x, y)
  PROVE  Later(c, y)
<1>1. CacheType(x) /\ CacheType(y)
  BY DEF Later
<1>2. c.epoch \in Nat /\ x.epoch \in Nat /\ y.epoch \in Nat
  BY <1>1, CacheFields
<1>3. ASSUME NEW v \in c.vnodes PROVE v \in y.vnodes \/ Freed(y, v)
  <2>1. Freed(x, v) => Freed(y, v)
    BY DEF Later, Freed
  <2> QED
    BY <2>1 DEF Later
<1> QED
  BY <1>2, <1>3 DEF Later

LEMMA ListsLater ==
  ASSUME NEW c, CacheType(c), NEW d, NEW x, Lists(c, d, x)
  PROVE  Later(c, x)
BY CacheFields DEF Lists, Later

LEMMA FreeLater ==
  ASSUME NEW c, CacheType(c), NEW d \in Seq(Name)
  PROVE  /\ Later(c, free_dir_list(c, d))
         /\ free_dir_list(c, d).disk = c.disk /\ free_dir_list(c, d).failed = c.failed
         /\ free_dir_list(c, d).created = c.created
         /\ free_dir_list(c, d).epoch = c.epoch + 1
         /\ free_dir_list(c, d).tnodes = {t \in c.tnodes : ~IsBelow(d, t)}
         /\ free_dir_list(c, d).vnodes = {v \in c.vnodes : ~IsBelow(d, v)}
<1> DEFINE T == {t \in c.tnodes : ~IsBelow(d, t)}
           V == {v \in c.vnodes : ~IsBelow(d, v)}
<1>1. c \in CacheRecord
  BY DEF CacheType, CacheRecord
<1>2. T \subseteq c.tnodes /\ V \subseteq c.vnodes
  OBVIOUS
<1>3. free_dir_list(c, d) = [c EXCEPT !.tnodes = T, !.vnodes = V, !.epoch = @ + 1,
                                      !.relisted = @ \cup {<<d, c.epoch + 1>>}]
  BY DEF free_dir_list
<1> HIDE DEF T, V
<1>4. PICK x : x = free_dir_list(c, d)
  OBVIOUS
<1>5. /\ x.disk = c.disk /\ x.created = c.created /\ x.failed = c.failed
      /\ x.epoch = c.epoch + 1 /\ x.tnodes = T /\ x.vnodes = V
      /\ x.relisted = c.relisted \cup {<<d, c.epoch + 1>>}
  BY <1>1, <1>3, <1>4 DEF CacheRecord
<1>6. x \in CacheRecord
  <2>1. /\ T \in SUBSET Tnode /\ V \in SUBSET NodeId /\ c.epoch + 1 \in Nat
        /\ c.relisted \cup {<<d, c.epoch + 1>>} \in SUBSET (Seq(Name) \X Nat)
    BY <1>1, <1>2 DEF CacheRecord
  <2> QED
    BY <1>1, <1>3, <1>4, <2>1 DEF CacheRecord
<1>7. c.epoch \in Nat /\ \A v \in c.vnodes \cup c.created : v[3] \in Nat
  BY <1>1 DEF CacheRecord, NodeId
<1>8. CacheType(x)
  <2>1. x.tnodes \subseteq x.disk
    BY <1>2, <1>5 DEF CacheType
  <2>2. \A v \in x.vnodes : <<v[1], v[2]>> \in Tnode /\ v[3] <= x.epoch
    <3> TAKE v \in x.vnodes
    <3>1. v \in c.vnodes /\ <<v[1], v[2]>> \in Tnode /\ v[3] <= c.epoch
      BY <1>2, <1>5 DEF CacheType
    <3>2. v[3] \in Nat
      BY <3>1, <1>7
    <3> QED
      BY <3>1, <3>2, <1>5, <1>7
  <2>3. \A v \in x.created : v[1] \in Path /\ v[2] = "created" /\ v[3] <= x.epoch
    BY <1>2, <1>5, <1>7 DEF CacheType
  <2> QED
    BY <1>6, <2>1, <2>2, <2>3 DEF CacheType, CacheRecord
<1>9. Later(c, x)
  <2>1. ASSUME NEW v \in c.vnodes, v \notin V PROVE Freed(x, v)
    <3>1. PICK r : r = <<d, c.epoch + 1>>
      OBVIOUS
    <3>2. r \in x.relisted /\ r[1] = d /\ r[2] = c.epoch + 1
      BY <1>5, <3>1
    <3>3. IsBelow(d, v)
      BY <2>1 DEF V
    <3>4. v[3] \in Nat /\ v[3] <= c.epoch
      BY <1>7 DEF CacheType
    <3> QED
      BY <1>7, <3>2, <3>3, <3>4 DEF Freed
  <2> QED
    BY <1>5, <1>7, <1>8, <2>1 DEF Later
<1> QED
  BY <1>4, <1>5, <1>9 DEF T, V

LEMMA LoadListLater ==
  ASSUME NEW c, CacheType(c), NEW d \in Seq(Name), NEW x \in vfs_dir_load_list(c, d)
  PROVE  Later(c, x) /\ x.epoch = c.epoch + 1 /\ Lists(free_dir_list(c, d), d, x)
<1>1. PICK f : f = free_dir_list(c, d)
  OBVIOUS
<1>2. Later(c, f) /\ CacheType(f) /\ f.epoch = c.epoch + 1
  BY <1>1, FreeLater DEF Later
<1>3. x \in Listed(f, d)
  BY <1>1 DEF vfs_dir_load_list
<1>4. Lists(f, d, x)
  BY <1>2, <1>3, ListedLists
<1>5. x.epoch = f.epoch
  BY <1>4 DEF Lists
<1> QED
  BY <1>1, <1>2, <1>4, <1>5, ListsLater, LaterTrans

\* The cache with a new node of the name t.
WithNode(c, t) == [c EXCEPT !.vnodes = @ \cup {Node(t, c.epoch)}]

LEMMA WithNodeFields ==
  ASSUME NEW c, CacheType(c), NEW t \in c.tnodes, NEW x, x = WithNode(c, t)
  PROVE  /\ Later(c, x) /\ x.vnodes = c.vnodes \cup {<<t[1], t[2], c.epoch>>}
         /\ x.tnodes = c.tnodes /\ x.disk = c.disk /\ x.created = c.created
         /\ x.epoch = c.epoch /\ x.errors = c.errors /\ x.failed = c.failed
         /\ x.relisted = c.relisted
<1>1. c \in CacheRecord /\ c.epoch \in Nat /\ t \in Tnode
  BY CacheFields DEF CacheType, CacheRecord
<1>2. <<t[1], t[2], c.epoch>> \in NodeId /\ <<t[1], t[2]>> \in Tnode
  BY <1>1 DEF NodeId, Tnode
<1>3. PICK v : v = <<t[1], t[2], c.epoch>>
  OBVIOUS
<1>4. v[1] = t[1] /\ v[2] = t[2] /\ v[3] = c.epoch
  BY <1>3
<1>5. x = [c EXCEPT !.vnodes = @ \cup {v}]
  BY <1>3 DEF WithNode, Node
<1>6. /\ x.vnodes = c.vnodes \cup {v} /\ x.tnodes = c.tnodes /\ x.disk = c.disk
      /\ x.created = c.created /\ x.epoch = c.epoch /\ x.errors = c.errors
      /\ x.failed = c.failed /\ x.relisted = c.relisted
  BY <1>1, <1>5 DEF CacheRecord
<1>7. x \in CacheRecord
  BY <1>1, <1>2, <1>3, <1>5 DEF CacheRecord
<1>8. CacheType(x)
  BY <1>1, <1>2, <1>4, <1>6, <1>7 DEF CacheType, CacheRecord
<1> QED
  BY <1>1, <1>3, <1>6, <1>8 DEF Later

\* The cache after a transfer has failed.
AfterError(c) == [c EXCEPT !.errors = @ - 1, !.failed = TRUE]

LEMMA AfterErrorFields ==
  ASSUME NEW c, CacheType(c), c.errors # 0, NEW x, x = AfterError(c)
  PROVE  /\ Later(c, x) /\ x.vnodes = c.vnodes /\ x.tnodes = c.tnodes
         /\ x.disk = c.disk /\ x.created = c.created /\ x.epoch = c.epoch /\ x.failed
<1>1. c \in CacheRecord /\ c.epoch \in Nat /\ c.errors - 1 \in Nat
  BY CacheFields DEF CacheType, CacheRecord
<1>2. /\ x.vnodes = c.vnodes /\ x.tnodes = c.tnodes /\ x.disk = c.disk
      /\ x.created = c.created /\ x.epoch = c.epoch /\ x.failed /\ x.relisted = c.relisted
  BY <1>1 DEF CacheRecord, AfterError
<1>3. x \in CacheRecord
  BY <1>1 DEF CacheRecord, AfterError
<1>4. CacheType(x)
  BY <1>2, <1>3 DEF CacheType, CacheRecord
<1> QED
  BY <1>1, <1>2, <1>4 DEF Later

\* What vfs_load_at() returns.
LEMMA LoadAtIs ==
  ASSUME NEW c, NEW d, NEW t, NEW at \in vfs_load_at(c, d, t)
  PROVE  \/ /\ at.node = <<t[1], t[2], c.epoch>>
            /\ t[2] = "dir" => at.cache \in Listed(WithNode(c, t), t[1])
            /\ t[2] # "dir" => at.cache = WithNode(c, t)
         \/ at.node = NULL /\ c.errors # 0 /\ at.cache \in vfs_dir_load_list(AfterError(c), d)
<1> DEFINE loaded == IF t[2] = "dir" THEN Listed(WithNode(c, t), t[1]) ELSE {WithNode(c, t)}
           failed == IF c.errors = 0 THEN {} ELSE vfs_dir_load_list(AfterError(c), d)
<1>1. vfs_load_at(c, d, t) = {[cache |-> x, node |-> Node(t, c.epoch)] : x \in loaded}
                               \cup {[cache |-> x, node |-> NULL] : x \in failed}
  BY Zenon DEF vfs_load_at, WithNode, AfterError
<1>2. \/ at \in {[cache |-> x, node |-> Node(t, c.epoch)] : x \in loaded}
      \/ at \in {[cache |-> x, node |-> NULL] : x \in failed}
  BY <1>1
<1> HIDE DEF loaded, failed
<1>3. CASE at \in {[cache |-> x, node |-> Node(t, c.epoch)] : x \in loaded}
  <2>1. at.node = Node(t, c.epoch) /\ at.cache \in loaded
    BY <1>3
  <2> QED
    BY <2>1 DEF loaded, Node
<1>4. CASE at \in {[cache |-> x, node |-> NULL] : x \in failed}
  <2>1. at.node = NULL /\ at.cache \in failed
    BY <1>4
  <2> QED
    BY <2>1 DEF failed
<1> QED
  BY <1>2, <1>3, <1>4

-----------------------------------------------------------------------------
(***************************************************************************)
(* The cache stays a tree.                                                 *)
(***************************************************************************)

\* A tree, but for the names in the directory d that its list does not have.
TreeBut(c, d) ==
  /\ DiskIsTree(c.disk)
  /\ \A t \in c.tnodes : Front(t[1]) \in Dirs(c)
  /\ \A v \in c.vnodes : <<v[1], v[2]>> \in c.tnodes
  /\ \A v, w \in c.vnodes : <<v[1], v[2]>> = <<w[1], w[2]>> => v = w
  /\ c.failed \/ \A t \in c.disk : Front(t[1]) \in Dirs(c) /\ Front(t[1]) # d => t \in c.tnodes

LEMMA TreeIsTreeBut ==
  ASSUME NEW c, IsTree(c), NEW d
  PROVE  TreeBut(c, d)
BY DEF IsTree, TreeBut

LEMMA DirsAre ==
  ASSUME NEW c, NEW p
  PROVE  p \in Dirs(c) <=> p = Root \/ \E v \in c.vnodes : v[2] = "dir" /\ v[1] = p
<1>1. RootNode[1] = Root /\ RootNode[2] = "dir"
  BY DEF RootNode
<1> QED
  BY <1>1 DEF Dirs

LEMMA DirsOfNodes ==
  ASSUME NEW c, NEW x, c.vnodes = x.vnodes
  PROVE  Dirs(c) = Dirs(x)
BY DEF Dirs

LEMMA TreeListed ==
  ASSUME NEW c, NEW d, TreeBut(c, d), d \in Dirs(c), NEW x, Lists(c, d, x)
  PROVE  IsTree(x)
<1>1. Dirs(x) = Dirs(c)
  BY DirsOfNodes DEF Lists
<1>2. \A t \in x.tnodes : Front(t[1]) \in Dirs(x)
  BY <1>1 DEF TreeBut, Lists
<1>3. ASSUME ~x.failed, NEW t \in x.disk, Front(t[1]) \in Dirs(x) PROVE t \in x.tnodes
  BY <1>1, <1>3 DEF TreeBut, Lists
<1>4. /\ DiskIsTree(x.disk)
      /\ \A v \in x.vnodes : <<v[1], v[2]>> \in x.tnodes
      /\ \A v, w \in x.vnodes : <<v[1], v[2]>> = <<w[1], w[2]>> => v = w
  BY DEF TreeBut, Lists
<1> QED
  BY <1>2, <1>3, <1>4 DEF IsTree

LEMMA TreeFreed ==
  ASSUME NEW c, CacheType(c), NEW d \in Seq(Name), TreeBut(c, d), d \in Dirs(c),
         NEW f, f = free_dir_list(c, d)
  PROVE  TreeBut(f, d) /\ d \in Dirs(f)
<1>1. /\ f.disk = c.disk /\ f.failed = c.failed
      /\ f.tnodes = {t \in c.tnodes : ~IsStrictPrefix(d, t[1])}
      /\ f.vnodes = {v \in c.vnodes : ~IsStrictPrefix(d, v[1])}
  BY FreeLater DEF IsBelow
<1>2. /\ \A t \in c.disk : t[1] \in Seq(Name) /\ t[1] # <<>>
      /\ \A v \in c.vnodes : v[1] \in Seq(Name) /\ v[1] # <<>>
      /\ c.tnodes \subseteq c.disk
  BY CacheFields
<1>3. ASSUME NEW p \in Dirs(c), ~IsStrictPrefix(d, p) PROVE p \in Dirs(f)
  BY <1>1, <1>3, DirsAre
<1>4. d \in Dirs(f)
  <2>1. ~IsStrictPrefix(d, d)
    BY DEF IsStrictPrefix
  <2> QED
    BY <2>1, <1>3
<1>5. Dirs(f) \subseteq Dirs(c)
  BY <1>1, DirsAre
<1>6. ASSUME NEW t \in f.tnodes PROVE Front(t[1]) \in Dirs(f)
  <2>1. t \in c.tnodes /\ ~IsStrictPrefix(d, t[1]) /\ t[1] \in Seq(Name) /\ t[1] # <<>>
    BY <1>1, <1>2
  <2>2. ~IsStrictPrefix(d, Front(t[1]))
    BY <2>1, BelowIs
  <2>3. Front(t[1]) \in Dirs(c)
    BY <2>1 DEF TreeBut
  <2> QED
    BY <2>2, <2>3, <1>3
<1>7. ASSUME NEW v \in f.vnodes PROVE <<v[1], v[2]>> \in f.tnodes
  <2>1. v \in c.vnodes /\ ~IsStrictPrefix(d, v[1])
    BY <1>1
  <2>2. PICK t : t = <<v[1], v[2]>>
    OBVIOUS
  <2>3. t \in c.tnodes /\ t[1] = v[1]
    BY <2>1, <2>2 DEF TreeBut
  <2> QED
    BY <2>1, <2>2, <2>3, <1>1
<1>8. \A v, w \in f.vnodes : <<v[1], v[2]>> = <<w[1], w[2]>> => v = w
  BY <1>1 DEF TreeBut
<1>9. ASSUME ~f.failed, NEW t \in f.disk, Front(t[1]) \in Dirs(f), Front(t[1]) # d
      PROVE  t \in f.tnodes
  <2>1. t \in c.tnodes /\ t[1] \in Seq(Name) /\ t[1] # <<>>
    BY <1>1, <1>2, <1>5, <1>9 DEF TreeBut
  <2>2. ~IsStrictPrefix(d, Front(t[1]))
    <3>1. CASE Front(t[1]) = Root
      <4>1. ~IsStrictPrefix(d, Root)
        BY DEF IsStrictPrefix, IsPrefix, Root
      <4> QED
        BY <3>1, <4>1
    <3>2. CASE \E v \in f.vnodes : v[2] = "dir" /\ v[1] = Front(t[1])
      BY <3>2, <1>1
    <3> QED
      BY <3>1, <3>2, <1>9, DirsAre
  <2>3. ~IsStrictPrefix(d, t[1])
    BY <2>1, <2>2, <1>9, BelowIs
  <2> QED
    BY <2>1, <2>3, <1>1
<1>10. DiskIsTree(f.disk)
  BY <1>1 DEF TreeBut
<1> QED
  BY <1>4, <1>6, <1>7, <1>8, <1>9, <1>10 DEF TreeBut

LEMMA TreeLoadList ==
  ASSUME NEW c, CacheType(c), NEW d \in Seq(Name), TreeBut(c, d), d \in Dirs(c),
         NEW x \in vfs_dir_load_list(c, d)
  PROVE  IsTree(x) /\ d \in Dirs(x)
<1>1. PICK f : f = free_dir_list(c, d)
  OBVIOUS
<1>2. TreeBut(f, d) /\ d \in Dirs(f)
  BY <1>1, TreeFreed
<1>3. Lists(f, d, x)
  BY <1>1, LoadListLater
<1>4. f.vnodes = x.vnodes
  BY <1>3 DEF Lists
<1> QED
  BY <1>2, <1>3, <1>4, TreeListed, DirsOfNodes

LEMMA TreeWithNode ==
  ASSUME NEW c, CacheType(c), IsTree(c), NEW t \in c.tnodes,
         \A v \in c.vnodes : <<v[1], v[2]>> # t, NEW x, x = WithNode(c, t)
  PROVE  /\ TreeBut(x, t[1]) /\ Dirs(c) \subseteq Dirs(x)
         /\ t[2] = "dir" => t[1] \in Dirs(x)
         /\ t[2] # "dir" => IsTree(x)
<1>1. PICK n : n = <<t[1], t[2], c.epoch>>
  OBVIOUS
<1>2. /\ x.vnodes = c.vnodes \cup {n} /\ x.tnodes = c.tnodes /\ x.disk = c.disk
      /\ x.failed = c.failed
  BY <1>1, WithNodeFields
<1>3. n[1] = t[1] /\ n[2] = t[2] /\ t = <<t[1], t[2]>>
  BY <1>1, CacheFields
<1>4. Dirs(c) \subseteq Dirs(x)
  BY <1>2, DirsAre
<1>5. t[2] = "dir" => t[1] \in Dirs(x)
  BY <1>2, <1>3, DirsAre
<1>6. \A p \in Dirs(x) : p \in Dirs(c) \/ (p = t[1] /\ t[2] = "dir")
  BY <1>2, <1>3, DirsAre
<1>7. DiskIsTree(x.disk) /\ \A s \in x.tnodes : Front(s[1]) \in Dirs(x)
  BY <1>2, <1>4 DEF IsTree
<1>8. \A v \in x.vnodes : <<v[1], v[2]>> \in x.tnodes
  BY <1>2, <1>3 DEF IsTree
<1>9. \A v, w \in x.vnodes : <<v[1], v[2]>> = <<w[1], w[2]>> => v = w
  <2>1. \A v \in c.vnodes : <<v[1], v[2]>> # <<n[1], n[2]>>
    BY <1>3
  <2> QED
    BY <2>1, <1>2 DEF IsTree
<1>10. x.failed \/ \A s \in x.disk : Front(s[1]) \in Dirs(x) /\ Front(s[1]) # t[1] => s \in x.tnodes
  BY <1>2, <1>6 DEF IsTree
<1>11. ASSUME t[2] # "dir"
       PROVE  x.failed \/ \A s \in x.disk : Front(s[1]) \in Dirs(x) => s \in x.tnodes
  BY <1>2, <1>6, <1>11 DEF IsTree
<1> QED
  BY <1>4, <1>5, <1>7, <1>8, <1>9, <1>10, <1>11 DEF IsTree, TreeBut

LEMMA TreeAfterError ==
  ASSUME NEW c, CacheType(c), IsTree(c), c.errors # 0, NEW x, x = AfterError(c)
  PROVE  IsTree(x) /\ Dirs(x) = Dirs(c)
<1>1. /\ x.vnodes = c.vnodes /\ x.tnodes = c.tnodes /\ x.disk = c.disk /\ x.failed
  BY AfterErrorFields
<1>2. Dirs(x) = Dirs(c)
  BY <1>1, DirsOfNodes
<1> QED
  BY <1>1, <1>2 DEF IsTree

-----------------------------------------------------------------------------
(***************************************************************************)
(* Loading a node.                                                         *)
(***************************************************************************)

\* The result y of loading the node of t into c.
Loads(c, t, y) ==
  /\ y = [cache |-> y.cache, node |-> y.node]
  /\ Later(c, y.cache) /\ IsTree(y.cache) /\ y.cache.disk = c.disk
  /\ y.node # NULL => y.node \in y.cache.vnodes /\ y.node[1] = t[1] /\ y.node[2] = t[2]
  /\ c.errors = 0 => y.node # NULL /\ y.cache.errors = 0 /\ y.cache.failed = c.failed

LEMMA LoadAtRecord ==
  ASSUME NEW c, NEW d, NEW t, NEW y \in vfs_load_at(c, d, t)
  PROVE  y = [cache |-> y.cache, node |-> y.node]
BY DEF vfs_load_at

LEMMA LoadAtLoads ==
  ASSUME NEW c, CacheType(c), IsTree(c), NEW d \in Seq(Name), d \in Dirs(c),
         NEW t \in c.tnodes, \A v \in c.vnodes : <<v[1], v[2]>> # t,
         NEW y \in vfs_load_at(c, d, t)
  PROVE  Loads(c, t, y)
<1>1. y = [cache |-> y.cache, node |-> y.node]
  BY LoadAtRecord
<1>2. c.epoch \in Nat /\ t \in Tnode /\ t[1] \in Seq(Name)
  BY CacheFields
<1>3. CASE /\ y.node = <<t[1], t[2], c.epoch>>
           /\ t[2] = "dir" => y.cache \in Listed(WithNode(c, t), t[1])
           /\ t[2] # "dir" => y.cache = WithNode(c, t)
  <2>1. PICK w : w = WithNode(c, t)
    OBVIOUS
  <2>2. /\ Later(c, w) /\ CacheType(w) /\ y.node \in w.vnodes /\ w.disk = c.disk
        /\ w.errors = c.errors /\ w.failed = c.failed
    BY <2>1, <1>3, WithNodeFields DEF Later
  <2>3. y.node # NULL
    <3>1. y.node \in NodeId
      BY <2>2, CacheFields
    <3> QED
      BY <3>1, NodesAssumption
  <2>4. y.node[1] = t[1] /\ y.node[2] = t[2]
    BY <1>3
  <2>5. CASE t[2] = "dir"
    <3>1. y.cache \in Listed(w, t[1])
      BY <2>1, <2>5, <1>3
    <3>2. Lists(w, t[1], y.cache)
      BY <3>1, <2>2, <1>2, ListedLists
    <3>3. Later(c, y.cache)
      BY <3>2, <2>2, ListsLater, LaterTrans
    <3>4. TreeBut(w, t[1]) /\ t[1] \in Dirs(w)
      BY <2>1, <2>5, TreeWithNode
    <3>5. IsTree(y.cache)
      BY <3>2, <3>4, TreeListed
    <3>6. y.cache.disk = c.disk /\ y.node \in y.cache.vnodes
      BY <3>2, <2>2 DEF Lists
    <3>7. c.errors = 0 => y.cache.errors = 0 /\ y.cache.failed = c.failed
      BY <3>1, <2>2, <1>2, ListedOnce
    <3> QED
      BY <1>1, <2>3, <2>4, <3>3, <3>5, <3>6, <3>7 DEF Loads
  <2>6. CASE t[2] # "dir"
    <3>1. y.cache = w
      BY <2>1, <2>6, <1>3
    <3>2. IsTree(w)
      BY <2>1, <2>6, TreeWithNode
    <3> QED
      BY <1>1, <2>2, <2>3, <2>4, <3>1, <3>2 DEF Loads
  <2> QED
    BY <2>5, <2>6
<1>4. CASE y.node = NULL /\ c.errors # 0 /\ y.cache \in vfs_dir_load_list(AfterError(c), d)
  <2>1. PICK w : w = AfterError(c)
    OBVIOUS
  <2>2. Later(c, w) /\ CacheType(w) /\ w.disk = c.disk
    BY <2>1, <1>4, AfterErrorFields DEF Later
  <2>3. TreeBut(w, d) /\ d \in Dirs(w)
    BY <2>1, <1>4, TreeAfterError, TreeIsTreeBut
  <2>4. y.cache \in vfs_dir_load_list(w, d)
    BY <2>1, <1>4
  <2>5. Later(c, y.cache)
    BY <2>2, <2>4, LoadListLater, LaterTrans
  <2>6. IsTree(y.cache)
    BY <2>2, <2>3, <2>4, TreeLoadList
  <2>7. y.cache.disk = c.disk
    <3>1. free_dir_list(w, d).disk = w.disk
      BY <2>2, FreeLater
    <3>2. Lists(free_dir_list(w, d), d, y.cache)
      BY <2>2, <2>4, LoadListLater
    <3> QED
      BY <3>1, <3>2, <2>2 DEF Lists
  <2> QED
    BY <1>1, <1>4, <2>5, <2>6, <2>7 DEF Loads
<1> QED
  BY <1>3, <1>4, LoadAtIs

\* Without a failed transfer there is a result.
LEMMA LoadAtResult ==
  ASSUME NEW c, CacheType(c), c.errors = 0, NEW d, NEW t \in c.tnodes
  PROVE  vfs_load_at(c, d, t) # {}
<1> DEFINE loaded == IF t[2] = "dir" THEN Listed(WithNode(c, t), t[1]) ELSE {WithNode(c, t)}
           failed == IF c.errors = 0 THEN {} ELSE vfs_dir_load_list(AfterError(c), d)
<1>1. vfs_load_at(c, d, t) = {[cache |-> x, node |-> Node(t, c.epoch)] : x \in loaded}
                               \cup {[cache |-> x, node |-> NULL] : x \in failed}
  BY Zenon DEF vfs_load_at, WithNode, AfterError
<1>2. PICK w : w = WithNode(c, t)
  OBVIOUS
<1>3. CacheType(w) /\ w.errors = 0 /\ t[1] \in Seq(Name)
  BY <1>2, WithNodeFields, CacheFields DEF Later
<1>4. Listed(w, t[1]) # {}
  BY <1>3, ListedOnce
<1>5. loaded # {}
  BY <1>2, <1>4
<1> HIDE DEF loaded, failed
<1> QED
  BY <1>1, <1>5

-----------------------------------------------------------------------------
(***************************************************************************)
(* The search along a path.                                                *)
(***************************************************************************)

\* The name e in a cache, searched as the last of a path or not.
Matches(c, e, last) == {t \in c.tnodes : t[1] = e /\ (t[2] = "dir" \/ last)}

\* One step of the search: the name e is not listed, is loaded, or has a node.
StepIs(at, name, last, e) ==
  \/ /\ Matches(at.cache, e, last) = {}
     /\ Descend(at, name, last) = {[at EXCEPT !.node = NULL]}
  \/ \E t \in Matches(at.cache, e, last) :
       /\ \A v \in at.cache.vnodes : <<v[1], v[2]>> # t
       /\ Descend(at, name, last) = vfs_load_at(at.cache, at.node[1], t)
  \/ \E t \in Matches(at.cache, e, last), v \in at.cache.vnodes :
       <<v[1], v[2]>> = t /\ Descend(at, name, last) = {[at EXCEPT !.node = v]}

LEMMA DescendIs ==
  ASSUME NEW at, CacheType(at.cache), at.node # NULL, NEW name, NEW last,
         NEW e, e = Append(at.node[1], name)
  PROVE  StepIs(at, name, last, e)
<1> DEFINE found == Matches(at.cache, e, last)
           t == IF <<e, "file">> \in found THEN <<e, "file">> ELSE <<e, "dir">>
           nodes == {v \in at.cache.vnodes : <<v[1], v[2]>> = t}
<1>1. Descend(at, name, last) =
        IF found = {} THEN {[at EXCEPT !.node = NULL]} ELSE
        IF nodes = {} THEN vfs_load_at(at.cache, at.node[1], t)
                      ELSE {[at EXCEPT !.node = CHOOSE v \in nodes : TRUE]}
  BY Zenon DEF Descend, Matches
<1>2. ASSUME found # {} PROVE t \in found
  <2>1. PICK s \in found : TRUE
    BY <1>2
  <2>2. s = <<s[1], s[2]>> /\ s[2] \in Kind /\ s[1] = e
    BY CacheFields DEF Matches
  <2>3. s = <<e, "file">> \/ s = <<e, "dir">>
    BY <2>2 DEF Kind
  <2> QED
    BY <2>1, <2>3
<1> HIDE DEF found, t
<1>3. CASE found = {}
  BY <1>1, <1>3 DEF found, StepIs
<1>4. CASE found # {} /\ nodes = {}
  BY <1>1, <1>2, <1>4 DEF found, StepIs
<1>5. CASE found # {} /\ nodes # {}
  <2>1. PICK w : w = CHOOSE v \in nodes : TRUE
    OBVIOUS
  <2>2. w \in nodes
    BY <2>1, <1>5
  <2>3. Descend(at, name, last) = {[at EXCEPT !.node = w]}
    BY <2>1, <1>1, <1>5
  <2> QED
    BY <2>2, <2>3, <1>2, <1>5 DEF found, StepIs
<1> QED
  BY <1>3, <1>4, <1>5

(***************************************************************************)
(* Where a search that began with the cache c is after the path p: at a    *)
(* loaded node of this path, a directory if dir, or nowhere.               *)
(***************************************************************************)
Place(c, x, p, dir) ==
  /\ x = [cache |-> x.cache, node |-> x.node]
  /\ Later(c, x.cache) /\ IsTree(x.cache) /\ x.cache.disk = c.disk
  /\ x.node # NULL => /\ x.node \in x.cache.vnodes \cup {RootNode}
                      /\ x.node[1] = p
                      /\ dir => x.node[2] = "dir"
  /\ c.errors = 0 => x.cache.errors = 0 /\ x.cache.failed = c.failed

LEMMA PlaceIsDir ==
  ASSUME NEW c, NEW x, NEW p, Place(c, x, p, TRUE), x.node # NULL
  PROVE  p \in Dirs(x.cache)
<1>1. x.node \in x.cache.vnodes \cup {RootNode} /\ x.node[1] = p /\ x.node[2] = "dir"
  BY DEF Place
<1> QED
  BY <1>1 DEF Dirs

\* The search goes on to a name of the directory if the list has it, unless a
\* transfer fails.
GoesOn(c, x, y, e, last) ==
  /\ y.node # NULL => x.node # NULL /\ Matches(x.cache, e, last) # {}
  /\ c.errors = 0 /\ x.node # NULL /\ Matches(x.cache, e, last) # {} => y.node # NULL

LEMMA DescendPlace ==
  ASSUME NEW c, CacheType(c), NEW x, NEW p \in Seq(Name), Place(c, x, p, TRUE),
         NEW name \in Name, NEW last \in BOOLEAN, NEW y \in Descend(x, name, last)
  PROVE  /\ Place(c, y, Append(p, name), ~last)
         /\ GoesOn(c, x, y, Append(p, name), last)
<1>1. CacheType(x.cache)
  BY DEF Place, Later
<1>2. PICK e : e = Append(p, name)
  OBVIOUS
<1>3. CASE x.node = NULL
  <2>1. y = x
    BY <1>3, Zenon DEF Descend
  <2> QED
    BY <1>3, <2>1 DEF Place, GoesOn
<1>4. CASE x.node # NULL
  <2>1. x.node[1] = p /\ e = Append(x.node[1], name) /\ p \in Dirs(x.cache)
    BY <1>2, <1>4, PlaceIsDir DEF Place
  <2>2. CASE /\ Matches(x.cache, e, last) = {}
             /\ Descend(x, name, last) = {[x EXCEPT !.node = NULL]}
    <3>1. y = [x EXCEPT !.node = NULL]
      BY <2>2
    <3>2. y = [cache |-> x.cache, node |-> NULL]
      BY <3>1 DEF Place
    <3>3. y.cache = x.cache /\ y.node = NULL
      BY <3>2
    <3> QED
      BY <1>2, <2>2, <3>2, <3>3 DEF Place, GoesOn
  <2>3. ASSUME NEW t \in Matches(x.cache, e, last),
               \A v \in x.cache.vnodes : <<v[1], v[2]>> # t,
               Descend(x, name, last) = vfs_load_at(x.cache, x.node[1], t)
        PROVE  Place(c, y, e, ~last) /\ (c.errors = 0 => y.node # NULL)
    <3>1. t \in x.cache.tnodes /\ t[1] = e /\ (t[2] = "dir" \/ last)
      BY DEF Matches
    <3>2. Loads(x.cache, t, y)
      BY <1>1, <2>1, <2>3, <3>1, LoadAtLoads DEF Place
    <3>3. Later(c, y.cache)
      BY <3>2, LaterTrans DEF Place, Loads
    <3> QED
      BY <3>1, <3>2, <3>3 DEF Place, Loads
  <2>4. ASSUME NEW t \in Matches(x.cache, e, last), NEW v \in x.cache.vnodes,
               <<v[1], v[2]>> = t, Descend(x, name, last) = {[x EXCEPT !.node = v]}
        PROVE  Place(c, y, e, ~last) /\ y.node # NULL
    <3>1. y = [cache |-> x.cache, node |-> v]
      BY <2>4 DEF Place
    <3>2. y.cache = x.cache /\ y.node = v
      BY <3>1
    <3>3. v[1] = e /\ (v[2] = "dir" \/ last)
      BY <2>4 DEF Matches
    <3>4. v # NULL
      BY <1>1, CacheFields, NodesAssumption
    <3> QED
      BY <3>1, <3>2, <3>3, <3>4 DEF Place
  <2>5. StepIs(x, name, last, e)
    BY <1>1, <1>4, <2>1, DescendIs
  <2>6. CASE \E t \in Matches(x.cache, e, last) :
               /\ \A v \in x.cache.vnodes : <<v[1], v[2]>> # t
               /\ Descend(x, name, last) = vfs_load_at(x.cache, x.node[1], t)
    BY <1>2, <1>4, <2>3, <2>6 DEF GoesOn
  <2>7. CASE \E t \in Matches(x.cache, e, last), v \in x.cache.vnodes :
               <<v[1], v[2]>> = t /\ Descend(x, name, last) = {[x EXCEPT !.node = v]}
    BY <1>2, <1>4, <2>4, <2>7 DEF GoesOn
  <2> QED
    BY <2>2, <2>5, <2>6, <2>7 DEF StepIs
<1> QED
  BY <1>3, <1>4

\* Without a failed transfer the search goes on.
LEMMA DescendResult ==
  ASSUME NEW c, CacheType(c), c.errors = 0, NEW x, NEW p, Place(c, x, p, TRUE),
         NEW name, NEW last
  PROVE  Descend(x, name, last) # {}
<1>1. CacheType(x.cache) /\ x.cache.errors = 0
  BY DEF Place, Later
<1>2. CASE x.node = NULL
  BY <1>2, Zenon DEF Descend
<1>3. CASE x.node # NULL
  <2>1. PICK e : e = Append(x.node[1], name)
    OBVIOUS
  <2>2. \A t \in Matches(x.cache, e, last) : vfs_load_at(x.cache, x.node[1], t) # {}
    BY <1>1, LoadAtResult DEF Matches
  <2>3. StepIs(x, name, last, e)
    BY <1>1, <1>3, <2>1, DescendIs
  <2> QED
    BY <2>2, <2>3 DEF StepIs
<1> QED
  BY <1>2, <1>3

-----------------------------------------------------------------------------
(***************************************************************************)
(* The loop over the names of a path is a recursive function.              *)
(***************************************************************************)

Stage(X, path, whole, n) ==
  UNION {Descend(x, path[n], whole /\ n = Len(path)) : x \in X}

\* The equation of the loop, for its first k names.
IsLoop(at, c, from, path, whole, k) ==
  at = [n \in 0 .. k |-> IF n = 0 THEN {[cache |-> c, node |-> from]}
                                  ELSE Stage(at[n - 1], path, whole, n)]

LEMMA LoopExists ==
  ASSUME NEW c, NEW from, NEW path, NEW whole, NEW k \in Nat
  PROVE  \E at : IsLoop(at, c, from, path, whole, k)
<1> DEFINE T == {n \in Nat : ~ \E at : IsLoop(at, c, from, path, whole, n)}
<1> SUFFICES ASSUME T # {} PROVE FALSE
  OBVIOUS
<1>1. PICK m \in T : \A n \in T : m <= n
  BY LeastNat
<1>2. CASE m = 0
  <2>1. PICK f : f = [n \in 0 .. 0 |-> {[cache |-> c, node |-> from]}]
    OBVIOUS
  <2>2. IsLoop(f, c, from, path, whole, 0)
    BY <2>1 DEF IsLoop
  <2> QED
    BY <1>1, <1>2, <2>2
<1>3. CASE m # 0
  <2>1. m \in Nat /\ m - 1 \in Nat /\ m - 1 \notin T
    BY <1>1, <1>3
  <2>2. PICK f : IsLoop(f, c, from, path, whole, m - 1)
    BY <2>1
  <2>3. PICK g : g = [n \in 0 .. m |-> IF n = m THEN Stage(f[m - 1], path, whole, m) ELSE f[n]]
    OBVIOUS
  <2>4. ASSUME NEW n \in 0 .. m
        PROVE  g[n] = IF n = 0 THEN {[cache |-> c, node |-> from]}
                               ELSE Stage(g[n - 1], path, whole, n)
    <3>1. CASE n = m
      <4>1. g[n] = Stage(f[m - 1], path, whole, m) /\ g[m - 1] = f[m - 1]
        BY <2>1, <2>3, <3>1
      <4> QED
        BY <4>1, <3>1, <1>3
    <3>2. CASE n = 0
      BY <1>3, <2>1, <2>2, <2>3, <3>2 DEF IsLoop
    <3>3. CASE n # m /\ n # 0
      <4>1. n \in 0 .. m - 1 /\ n - 1 \in 0 .. m - 1
        BY <2>1, <3>3
      <4>2. g[n] = f[n] /\ g[n - 1] = f[n - 1]
        BY <2>1, <2>3, <4>1
      <4>3. f[n] = Stage(f[n - 1], path, whole, n)
        BY <2>2, <3>3, <4>1 DEF IsLoop
      <4> QED
        BY <4>2, <4>3, <3>3
    <3> QED
      BY <3>1, <3>2, <3>3
  <2>5. g = [n \in 0 .. m |-> g[n]]
    BY <2>3
  <2>6. IsLoop(g, c, from, path, whole, m)
    BY <2>4, <2>5, Zenon DEF IsLoop
  <2> QED
    BY <1>1, <2>6
<1> QED
  BY <1>2, <1>3

LEMMA DescendedIs ==
  ASSUME NEW c, NEW from, NEW path, NEW whole, Len(path) \in Nat
  PROVE  \E at : /\ IsLoop(at, c, from, path, whole, Len(path))
                 /\ Descended(c, from, path, whole) = at[Len(path)]
<1>1. PICK at : at = CHOOSE f : IsLoop(f, c, from, path, whole, Len(path))
  OBVIOUS
<1>2. IsLoop(at, c, from, path, whole, Len(path))
  BY <1>1, LoopExists
<1>3. Descended(c, from, path, whole) = at[Len(path)]
  BY <1>1 DEF Descended, IsLoop, Stage
<1> QED
  BY <1>2, <1>3

LEMMA SubSeqStep ==
  ASSUME NEW S, NEW d \in Seq(S), NEW path \in Seq(S), NEW n \in 1 .. Len(path)
  PROVE  /\ SubSeq(path, 1, n) \in Seq(S) /\ SubSeq(path, 1, n - 1) \in Seq(S)
         /\ path[n] \in S
         /\ SubSeq(path, 1, n) = Append(SubSeq(path, 1, n - 1), path[n])
         /\ d \o SubSeq(path, 1, n) = Append(d \o SubSeq(path, 1, n - 1), path[n])
<1>1. PICK u : u = SubSeq(path, 1, n - 1)
  OBVIOUS
<1>2. PICK v : v = SubSeq(path, 1, n)
  OBVIOUS
<1>3. n \in Nat /\ Len(path) \in Nat
  OBVIOUS
<1>4. u \in Seq(S) /\ Len(u) = n - 1 /\ \A i \in 1 .. n - 1 : u[i] = path[i]
  BY <1>1, <1>3
<1>5. v \in Seq(S) /\ Len(v) = n /\ \A i \in 1 .. n : v[i] = path[i]
  BY <1>2, <1>3
<1>6. path[n] \in S
  OBVIOUS
<1>7. v = Append(u, path[n])
  BY <1>3, <1>4, <1>5, <1>6
<1>8. PICK z \in S : z = path[n]
  BY <1>6
<1>9. d \o Append(u, z) = Append(d \o u, z)
  BY <1>4
<1> QED
  BY <1>1, <1>2, <1>4, <1>5, <1>6, <1>7, <1>8, <1>9

\* The same for every path the loop may have, as its proofs use it.
LEMMA PathStep ==
  \A path \in Seq(Name) : \A n \in 1 .. Len(path) :
    /\ SubSeq(path, 1, n - 1) \in Seq(Name) /\ path[n] \in Name
    /\ SubSeq(path, 1, n) = Append(SubSeq(path, 1, n - 1), path[n])
    /\ \A d \in Seq(Name) :
         d \o SubSeq(path, 1, n) = Append(d \o SubSeq(path, 1, n - 1), path[n])
<1> SUFFICES ASSUME NEW path \in Seq(Name), NEW n \in 1 .. Len(path)
             PROVE  /\ SubSeq(path, 1, n - 1) \in Seq(Name) /\ path[n] \in Name
                    /\ SubSeq(path, 1, n) = Append(SubSeq(path, 1, n - 1), path[n])
                    /\ \A d \in Seq(Name) :
                         d \o SubSeq(path, 1, n) = Append(d \o SubSeq(path, 1, n - 1), path[n])
  OBVIOUS
<1>1. ASSUME NEW d \in Seq(Name)
      PROVE  /\ SubSeq(path, 1, n - 1) \in Seq(Name) /\ path[n] \in Name
             /\ SubSeq(path, 1, n) = Append(SubSeq(path, 1, n - 1), path[n])
             /\ d \o SubSeq(path, 1, n) = Append(d \o SubSeq(path, 1, n - 1), path[n])
  BY SubSeqStep
<1>2. <<>> \in Seq(Name)
  OBVIOUS
<1> QED
  BY <1>1, <1>2, Zenon

LEMMA LoopPlaces ==
  ASSUME NEW c, CacheType(c), IsTree(c), NEW from \in c.vnodes \cup {RootNode},
         from[2] = "dir", NEW path \in Seq(Name), NEW whole \in BOOLEAN, NEW at,
         IsLoop(at, c, from, path, whole, Len(path)), NEW k \in 0 .. Len(path)
  PROVE  \A y \in at[k] : Place(c, y, from[1] \o SubSeq(path, 1, k),
                                k < Len(path) \/ ~whole \/ k = 0)
<1> DEFINE dir(n) == n < Len(path) \/ ~whole \/ n = 0
           p(n) == from[1] \o SubSeq(path, 1, n)
           T == {n \in Nat : n \in 0 .. Len(path) /\ ~ \A y \in at[n] : Place(c, y, p(n), dir(n))}
<1>1. Len(path) \in Nat /\ from[1] \in Seq(Name)
  <2>1. \A v \in c.vnodes : v[1] \in Seq(Name)
    BY CacheFields
  <2>2. RootNode[1] \in Seq(Name)
    BY DEF RootNode, Root
  <2> QED
    BY <2>1, <2>2
<1> SUFFICES ASSUME T # {} PROVE FALSE
  OBVIOUS
<1>2. PICK m \in T : \A n \in T : m <= n
  BY LeastNat
<1>3. m \in Nat /\ m \in 0 .. Len(path) /\ ~ \A y \in at[m] : Place(c, y, p(m), dir(m))
  BY <1>2
<1>4. CASE m = 0
  <2>1. at[0] = {[cache |-> c, node |-> from]}
    BY <1>1 DEF IsLoop
  <2>2. SubSeq(path, 1, 0) = <<>>
    OBVIOUS
  <2>3. p(0) = from[1]
    BY <1>1, <2>2
  <2>4. PICK y : y = [cache |-> c, node |-> from]
    OBVIOUS
  <2>5. y.cache = c /\ y.node = from /\ y = [cache |-> y.cache, node |-> y.node]
    BY <2>4
  <2>6. Place(c, y, from[1], TRUE)
    BY <2>5, LaterSame DEF Place
  <2>7. dir(0) = TRUE
    OBVIOUS
  <2> HIDE DEF p, dir, T
  <2> QED
    BY <1>3, <1>4, <2>1, <2>3, <2>4, <2>6, <2>7
<1>5. CASE m # 0
  <2>1. m \in 1 .. Len(path) /\ m - 1 \in 0 .. Len(path) /\ m - 1 \in Nat /\ m - 1 \notin T
    BY <1>2, <1>3, <1>5
  <2>2. PICK u : u = p(m - 1)
    OBVIOUS
  <2>3. PICK y \in at[m] : ~Place(c, y, p(m), dir(m))
    BY <1>3
  <2>4. at[m] = Stage(at[m - 1], path, whole, m)
    BY <1>3, <1>5 DEF IsLoop
  <2>5. PICK x \in at[m - 1] : y \in Descend(x, path[m], whole /\ m = Len(path))
    BY <2>3, <2>4 DEF Stage
  <2>6. Place(c, x, u, dir(m - 1))
    BY <2>1, <2>2
  <2>7. dir(m - 1) = TRUE
    BY <1>1, <2>1
  <2>8. u \in Seq(Name) /\ path[m] \in Name /\ p(m) = Append(u, path[m])
    <3>1. PICK d \in Seq(Name) : d = from[1]
      BY <1>1
    <3>2. /\ SubSeq(path, 1, m - 1) \in Seq(Name) /\ path[m] \in Name
          /\ d \o SubSeq(path, 1, m) = Append(d \o SubSeq(path, 1, m - 1), path[m])
      BY <2>1, PathStep, Zenon
    <3>3. d \o SubSeq(path, 1, m - 1) \in Seq(Name)
      BY <3>2
    <3> QED
      BY <2>2, <3>1, <3>2, <3>3
  <2>9. PICK last \in BOOLEAN : last = (whole /\ m = Len(path))
    OBVIOUS
  <2>10. dir(m) = ~last
    <3>1. m < Len(path) <=> m # Len(path)
      BY <1>1, <2>1
    <3> QED
      BY <3>1, <1>5, <2>9, Zenon
  <2> HIDE DEF p, dir, T
  <2>11. Place(c, x, u, TRUE)
    BY <2>6, <2>7
  <2>12. Place(c, y, Append(u, path[m]), ~last)
    BY <2>5, <2>8, <2>9, <2>11, DescendPlace
  <2> QED
    BY <2>3, <2>8, <2>10, <2>12
<1> QED
  BY <1>4, <1>5

\* Where a search ends: at a node of the path it was given.
LEMMA DescendedPlace ==
  ASSUME NEW c, CacheType(c), IsTree(c), NEW from \in c.vnodes \cup {RootNode},
         from[2] = "dir", NEW path \in Seq(Name), NEW whole \in BOOLEAN,
         NEW y \in Descended(c, from, path, whole)
  PROVE  Place(c, y, from[1] \o path, ~whole)
<1>1. Len(path) \in Nat /\ SubSeq(path, 1, Len(path)) = path
  OBVIOUS
<1>2. PICK at : /\ IsLoop(at, c, from, path, whole, Len(path))
                /\ Descended(c, from, path, whole) = at[Len(path)]
  BY <1>1, DescendedIs
<1>3. Len(path) \in 0 .. Len(path)
  BY <1>1
<1>4. Place(c, y, from[1] \o path, Len(path) < Len(path) \/ ~whole \/ Len(path) = 0)
  BY <1>1, <1>2, <1>3, LoopPlaces
<1> QED
  BY <1>4 DEF Place

(***************************************************************************)
(* Without a failed transfer, a search from the root finds what is on the  *)
(* disk: at each directory on the way the list is complete, and the disk   *)
(* has every directory on the way to a name of it.                         *)
(***************************************************************************)

\* The disk has the path p, as a directory unless it is the last.
OnDisk(c, p, last) == \E t \in c.disk : t[1] = p /\ (t[2] = "dir" \/ last)

\* In a directory with a complete list the names are those on the disk.
LEMMA MatchesDisk ==
  ASSUME NEW c, CacheType(c), IsTree(c), ~c.failed, NEW p \in Dirs(c), p \in Seq(Name),
         NEW name \in Name, NEW last
  PROVE  Matches(c, Append(p, name), last) # {} <=> OnDisk(c, Append(p, name), last)
<1>1. Front(Append(p, name)) = p
  BY FrontOfAppend
<1>2. PICK e : e = Append(p, name)
  OBVIOUS
<1>3. \A t \in c.disk : t[1] = e => t \in c.tnodes
  BY <1>1, <1>2 DEF IsTree
<1>4. c.tnodes \subseteq c.disk
  BY CacheFields
<1> QED
  BY <1>2, <1>3, <1>4 DEF Matches, OnDisk

LEMMA LoopFinds ==
  ASSUME NEW c, CacheType(c), IsTree(c), c.errors = 0, ~c.failed, NEW path \in Seq(Name), NEW at,
         IsLoop(at, c, RootNode, path, TRUE, Len(path)), NEW k \in 0 .. Len(path)
  PROVE  /\ at[k] # {}
         /\ \A y \in at[k] :
              y.node # NULL <=> k = 0 \/ OnDisk(c, SubSeq(path, 1, k), k = Len(path))
<1> DEFINE p(n) == SubSeq(path, 1, n)
           found(n, y) == y.node # NULL <=> n = 0 \/ OnDisk(c, p(n), n = Len(path))
           T == {n \in Nat : n \in 0 .. Len(path) /\ ~(at[n] # {} /\ \A y \in at[n] : found(n, y))}
<1>1. Len(path) \in Nat
  OBVIOUS
<1> SUFFICES ASSUME T # {} PROVE FALSE
  OBVIOUS
<1>2. PICK m \in T : \A n \in T : m <= n
  BY LeastNat
<1>3. m \in Nat /\ m \in 0 .. Len(path) /\ ~(at[m] # {} /\ \A y \in at[m] : found(m, y))
  BY <1>2
<1>4. RootNode \in NodeId /\ RootNode # NULL /\ RootNode[1] = <<>> /\ RootNode[2] = "dir"
  BY CacheFields, NodesAssumption DEF RootNode, Root
<1>5. CASE m = 0
  <2>1. at[0] = {[cache |-> c, node |-> RootNode]}
    BY <1>1 DEF IsLoop
  <2>2. \A y \in at[0] : y.node # NULL
    BY <1>4, <2>1
  <2>3. at[0] # {} /\ \A y \in at[0] : found(0, y)
    BY <2>1, <2>2
  <2> QED
    BY <1>3, <1>5, <2>3
<1>6. CASE m # 0
  <2>1. m \in 1 .. Len(path) /\ m - 1 \in 0 .. Len(path) /\ m - 1 \in Nat /\ m - 1 \notin T
        /\ m - 1 # Len(path)
    BY <1>2, <1>3, <1>6
  <2>2. at[m - 1] # {} /\ \A y \in at[m - 1] : found(m - 1, y)
    BY <2>1
  <2>3. at[m] = Stage(at[m - 1], path, TRUE, m)
    BY <1>3, <1>6 DEF IsLoop
  <2>4. PICK last \in BOOLEAN : last = (m = Len(path))
    OBVIOUS
  <2>5. PICK u : u = p(m - 1)
    OBVIOUS
  <2>6. /\ u \in Seq(Name) /\ path[m] \in Name /\ p(m) = Append(u, path[m])
        /\ <<>> \o u = u
    <3>1. /\ SubSeq(path, 1, m - 1) \in Seq(Name) /\ path[m] \in Name
          /\ SubSeq(path, 1, m) = Append(SubSeq(path, 1, m - 1), path[m])
      BY <2>1, PathStep, Zenon
    <3>2. <<>> \o SubSeq(path, 1, m - 1) = SubSeq(path, 1, m - 1)
      BY <3>1
    <3> QED
      BY <2>5, <3>1, <3>2
  <2>7. \A x \in at[m - 1] : Place(c, x, u, TRUE)
    <3>1. \A x \in at[m - 1] : Place(c, x, RootNode[1] \o SubSeq(path, 1, m - 1),
                                     m - 1 < Len(path) \/ ~TRUE \/ m - 1 = 0)
      BY <1>4, <2>1, LoopPlaces
    <3>2. m - 1 < Len(path)
      BY <1>1, <2>1
    <3>3. RootNode[1] \o SubSeq(path, 1, m - 1) = u
      BY <1>4, <2>5, <2>6
    <3> QED
      BY <3>1, <3>2, <3>3
  <2>8. at[m] = UNION {Descend(x, path[m], last) : x \in at[m - 1]}
    BY <2>3, <2>4 DEF Stage
  <2>9. at[m] # {}
    <3>1. PICK x \in at[m - 1] : TRUE
      BY <2>2
    <3>2. Descend(x, path[m], last) # {}
      BY <2>7, <3>1, DescendResult
    <3> QED
      BY <2>8, <3>1, <3>2
  <2>10. ASSUME NEW y \in at[m] PROVE y.node # NULL <=> OnDisk(c, Append(u, path[m]), last)
    <3>1. PICK x \in at[m - 1] : y \in Descend(x, path[m], last)
      BY <2>8
    <3>2. Place(c, x, u, TRUE)
      BY <2>7
    <3>3. y.node # NULL <=> x.node # NULL /\ Matches(x.cache, Append(u, path[m]), last) # {}
      <4>1. PICK name \in Name : name = path[m]
        BY <2>6
      <4>2. y \in Descend(x, name, last) /\ u \in Seq(Name)
        BY <2>6, <3>1, <4>1
      <4>3. GoesOn(c, x, y, Append(u, name), last)
        BY <3>2, <4>2, DescendPlace
      <4> QED
        BY <4>1, <4>3 DEF GoesOn
    <3>4. CASE x.node = NULL
      <4>1. m - 1 # 0 /\ ~OnDisk(c, u, FALSE)
        BY <2>1, <2>2, <2>5, <3>4
      <4>2. ASSUME NEW t \in c.disk, t[1] = Append(u, path[m]) PROVE FALSE
        <5>1. Front(t[1]) = u
          BY <2>6, <4>2, FrontOfAppend
        <5>2. u # Root
          <6>1. Len(u) = m - 1
            BY <2>1, <2>5
          <6> QED
            BY <4>1, <6>1 DEF Root
        <5>3. <<u, "dir">> \in c.disk
          BY <5>1, <5>2 DEF IsTree, DiskIsTree
        <5> QED
          BY <4>1, <5>3 DEF OnDisk
      <4> QED
        BY <3>3, <3>4, <4>2 DEF OnDisk
    <3>5. CASE x.node # NULL
      <4>1. CacheType(x.cache) /\ IsTree(x.cache) /\ ~x.cache.failed /\ x.cache.disk = c.disk
        BY <3>2 DEF Place, Later
      <4>2. u \in Dirs(x.cache)
        BY <3>2, <3>5, PlaceIsDir
      <4>3. Matches(x.cache, Append(u, path[m]), last) # {}
              <=> OnDisk(x.cache, Append(u, path[m]), last)
        BY <2>6, <4>1, <4>2, MatchesDisk
      <4> QED
        BY <3>3, <3>5, <4>1, <4>3 DEF OnDisk
    <3> QED
      BY <3>4, <3>5
  <2>11. \A y \in at[m] : found(m, y)
    BY <1>6, <2>4, <2>6, <2>10
  <2> QED
    BY <1>3, <2>9, <2>11
<1> QED
  BY <1>5, <1>6

\* In every tree the search finds what is on the disk: the list of each loaded
\* directory is complete (nodes.c, vfs_search_vnode).
THEOREM TreeFindsDisk ==
  ASSUME NEW c, CacheType(c), IsTree(c), NEW path \in Path
  PROVE  FindsDisk(c, path)
<1>1. PICK z : z = [c EXCEPT !.errors = 0]
  OBVIOUS
<1>2. c \in CacheRecord
  BY DEF CacheType, CacheRecord
<1>3. /\ z \in CacheRecord /\ z.errors = 0 /\ z.disk = c.disk /\ z.tnodes = c.tnodes
      /\ z.vnodes = c.vnodes /\ z.created = c.created /\ z.epoch = c.epoch
      /\ z.failed = c.failed /\ z.relisted = c.relisted
  BY <1>1, <1>2 DEF CacheRecord
<1>4. CacheType(z)
  BY <1>3 DEF CacheType, CacheRecord
<1>5. Dirs(z) = Dirs(c)
  BY <1>3, DirsOfNodes
<1>6. IsTree(z)
  BY <1>3, <1>5 DEF IsTree
<1>7. path \in Seq(Name) /\ Len(path) \in Nat /\ Len(path) # 0
      /\ SubSeq(path, 1, Len(path)) = path
  BY NodesAssumption DEF Root
<1>8. PICK at : /\ IsLoop(at, z, RootNode, path, TRUE, Len(path))
                /\ Descended(z, RootNode, path, TRUE) = at[Len(path)]
  <2>1. PICK whole \in BOOLEAN : whole = TRUE
    OBVIOUS
  <2>2. \E at : /\ IsLoop(at, z, RootNode, path, whole, Len(path))
                /\ Descended(z, RootNode, path, whole) = at[Len(path)]
    BY <1>7, DescendedIs
  <2> QED
    BY <2>1, <2>2
<1>9. ASSUME ~c.failed
      PROVE  at[Len(path)] # {} /\ \A y \in at[Len(path)] : y.node # NULL <=> OnDisk(z, path, TRUE)
  <2>1. Len(path) \in 0 .. Len(path)
    BY <1>7
  <2>2. /\ at[Len(path)] # {}
        /\ \A y \in at[Len(path)] :
             y.node # NULL <=> Len(path) = 0 \/ OnDisk(z, SubSeq(path, 1, Len(path)), Len(path) = Len(path))
    BY <2>1, <1>3, <1>4, <1>6, <1>7, <1>8, <1>9, LoopFinds
  <2> QED
    BY <2>2, <1>7
<1>10. OnDisk(z, path, TRUE) <=> \E k \in Kind : <<path, k>> \in c.disk
  <2>1. \A t \in c.disk : t = <<t[1], t[2]>> /\ t[2] \in Kind
    BY CacheFields
  <2> QED
    BY <2>1, <1>3 DEF OnDisk
<1> DEFINE found == {y \in at[Len(path)] : y.node # NULL}
<1>11. FindsDisk(c, path) <=> (c.failed \/ (found # {} <=> \E k \in Kind : <<path, k>> \in c.disk))
  BY <1>1, <1>8 DEF FindsDisk, vfs_search_vnode
<1>12. ~c.failed => (found # {} <=> OnDisk(z, path, TRUE))
  BY <1>9
<1> HIDE DEF found
<1> QED
  BY <1>10, <1>11, <1>12

-----------------------------------------------------------------------------
(***************************************************************************)
(* Creating a file.                                                        *)
(***************************************************************************)

\* The cache when the disk is as given and the created node n is there.
WithFile(c, disk, n) == [c EXCEPT !.disk = disk, !.created = @ \cup {n}]

\* The result y of creating a file, or of finding one, with the cache c.
Makes(c, y) ==
  /\ Later(c, y.cache) /\ IsTree(y.cache)
  /\ y.node # NULL => /\ y.node \in y.cache.vnodes \cup y.cache.created
                      /\ y.node[2] # "dir"

\* What mknode_file() does at the place its search has ended.
NewFile(at, path) == <<Append(at.node[1], Last(path)), "file">>

NewNode(at, path) == <<NewFile(at, path)[1], "created", at.cache.epoch>>

MadeAt(at, path, y) ==
  \/ at.node = NULL /\ y = at
  \/ /\ at.node # NULL
     /\ \/ y = [at EXCEPT !.node = NULL]
        \/ \E v \in at.cache.vnodes :
             <<v[1], v[2]>> = NewFile(at, path) /\ y = [at EXCEPT !.node = v]
  \/ /\ at.node # NULL
     /\ \E disk \in {at.cache.disk, at.cache.disk \cup {NewFile(at, path)}} :
        \E x \in vfs_dir_load_list(WithFile(at.cache, disk, NewNode(at, path)), at.node[1]) :
          y = [cache |-> x, node |-> NewNode(at, path)]

LEMMA MknodeIs ==
  ASSUME NEW c, NEW path, NEW y \in mknode_file(c, path)
  PROVE  \E at \in Descended(c, RootNode, Front(path), FALSE) : MadeAt(at, path, y)
<1> DEFINE file(at) == <<Append(at.node[1], Last(path)), "file">>
           new(at) == <<file(at)[1], "created", at.cache.epoch>>
           old(at) == {v \in at.cache.vnodes : <<v[1], v[2]>> = file(at)}
           Create(at) ==
             IF file(at) \in at.cache.tnodes
             THEN {[at EXCEPT !.node = IF old(at) = {} THEN NULL ELSE CHOOSE v \in old(at) : TRUE]}
             ELSE {[cache |-> x, node |-> new(at)] :
                     x \in UNION {vfs_dir_load_list(WithFile(at.cache, disk, new(at)), at.node[1]) :
                                    disk \in {at.cache.disk, at.cache.disk \cup {file(at)}}}}
<1>1. mknode_file(c, path) = UNION {IF at.node = NULL THEN {at} ELSE Create(at) :
                                      at \in Descended(c, RootNode, Front(path), FALSE)}
  BY Zenon DEF mknode_file, WithFile
<1> HIDE DEF Create
<1>2. PICK at \in Descended(c, RootNode, Front(path), FALSE) :
        y \in IF at.node = NULL THEN {at} ELSE Create(at)
  BY <1>1
<1>3. CASE at.node = NULL
  BY <1>2, <1>3 DEF MadeAt
<1>4. CASE at.node # NULL
  <2>1. y \in Create(at)
    BY <1>2, <1>4
  <2>2. CASE file(at) \in at.cache.tnodes
    <3>1. PICK w : w = IF old(at) = {} THEN NULL ELSE CHOOSE v \in old(at) : TRUE
      OBVIOUS
    <3>2. y = [at EXCEPT !.node = w]
      BY <2>1, <2>2, <3>1 DEF Create
    <3>3. w = NULL \/ w \in old(at)
      BY <3>1
    <3> HIDE DEF old
    <3>4. y = [at EXCEPT !.node = NULL] \/ \E v \in old(at) : y = [at EXCEPT !.node = v]
      BY <3>2, <3>3
    <3> QED
      BY <1>4, <2>2, <3>4 DEF old, MadeAt, NewFile
  <2>3. CASE file(at) \notin at.cache.tnodes
    <3>1. \E disk \in {at.cache.disk, at.cache.disk \cup {file(at)}} :
          \E x \in vfs_dir_load_list(WithFile(at.cache, disk, new(at)), at.node[1]) :
            y = [cache |-> x, node |-> new(at)]
      BY <2>1, <2>3 DEF Create
    <3> QED
      BY <1>4, <2>3, <3>1 DEF MadeAt, NewFile, NewNode
  <2> QED
    BY <2>2, <2>3
<1> QED
  BY <1>3, <1>4

LEMMA WithFileFields ==
  ASSUME NEW c, CacheType(c), NEW disk \in SUBSET Tnode, c.disk \subseteq disk,
         NEW p \in Path, NEW n, n = <<p, "created", c.epoch>>,
         NEW x, x = WithFile(c, disk, n)
  PROVE  /\ Later(c, x) /\ x.disk = disk /\ x.tnodes = c.tnodes /\ x.vnodes = c.vnodes
         /\ x.failed = c.failed /\ x.created = c.created \cup {n}
<1>1. c \in CacheRecord /\ c.epoch \in Nat
  BY CacheFields DEF CacheType, CacheRecord
<1>2. n \in NodeId /\ n[1] = p /\ n[2] = "created" /\ n[3] = c.epoch
  BY <1>1 DEF NodeId
<1>3. /\ x.disk = disk /\ x.tnodes = c.tnodes /\ x.vnodes = c.vnodes
      /\ x.failed = c.failed /\ x.created = c.created \cup {n} /\ x.epoch = c.epoch
      /\ x.relisted = c.relisted
  BY <1>1 DEF CacheRecord, WithFile
<1>4. x \in CacheRecord
  BY <1>1, <1>2 DEF CacheRecord, WithFile
<1>5. CacheType(x)
  BY <1>1, <1>2, <1>3, <1>4 DEF CacheType, CacheRecord
<1> QED
  BY <1>1, <1>3, <1>5 DEF Later

\* Adding a file to a loaded directory leaves a tree but for the list of it.
LEMMA TreeWithFile ==
  ASSUME NEW c, CacheType(c), IsTree(c), NEW p \in Path, Front(p) \in Dirs(c),
         NEW disk \in {c.disk, c.disk \cup {<<p, "file">>}},
         NEW x, x.disk = disk, x.tnodes = c.tnodes, x.vnodes = c.vnodes, x.failed = c.failed
  PROVE  TreeBut(x, Front(p)) /\ Front(p) \in Dirs(x)
<1>1. Dirs(x) = Dirs(c)
  BY DirsOfNodes
<1>2. Front(p) = Root \/ <<Front(p), "dir">> \in c.disk
  <2>1. ASSUME NEW v \in c.vnodes, v[2] = "dir", v[1] = Front(p)
        PROVE  <<Front(p), "dir">> \in c.disk
    BY <2>1, CacheFields DEF IsTree
  <2> QED
    BY <2>1, DirsAre
<1>3. PICK f : f = <<p, "file">>
  OBVIOUS
<1>4. f[1] = p /\ (disk = c.disk \/ disk = c.disk \cup {f})
  BY <1>3
<1>5. DiskIsTree(disk)
  BY <1>2, <1>4 DEF IsTree, DiskIsTree
<1>6. ASSUME ~x.failed, NEW t \in x.disk, Front(t[1]) \in Dirs(x), Front(t[1]) # Front(p)
      PROVE  t \in x.tnodes
  BY <1>1, <1>4, <1>6 DEF IsTree
<1> QED
  BY <1>1, <1>5, <1>6 DEF TreeBut, IsTree

LEMMA MknodeMakes ==
  ASSUME NEW c, CacheType(c), IsTree(c), NEW path \in Path, NEW y \in mknode_file(c, path)
  PROVE  Makes(c, y)
<1>1. path \in Seq(Name) /\ path # <<>>
  BY NodesAssumption DEF Root
<1>2. PICK d : d = Front(path)
  OBVIOUS
<1>3. d \in Seq(Name) /\ path = Append(d, Last(path))
  BY <1>1, <1>2, FrontOf DEF Last
<1>4. PICK at \in Descended(c, RootNode, d, FALSE) : MadeAt(at, path, y)
  BY <1>2, MknodeIs
<1>5. RootNode \in c.vnodes \cup {RootNode} /\ RootNode[2] = "dir" /\ RootNode[1] = <<>>
  BY DEF RootNode, Root
<1>6. Place(c, at, d, TRUE)
  <2>1. PICK whole \in BOOLEAN : whole = FALSE
    OBVIOUS
  <2>2. Place(c, at, RootNode[1] \o d, ~whole)
    BY <1>3, <1>4, <1>5, <2>1, DescendedPlace
  <2>3. RootNode[1] \o d = d
    BY <1>3, <1>5
  <2> QED
    BY <2>1, <2>2, <2>3 DEF Place
<1>7. /\ Later(c, at.cache) /\ CacheType(at.cache) /\ IsTree(at.cache)
      /\ at = [cache |-> at.cache, node |-> at.node]
  BY <1>6 DEF Place, Later
<1>8. CASE at.node = NULL /\ y = at
  BY <1>7, <1>8 DEF Makes
<1>9. ASSUME at.node # NULL
      PROVE  /\ at.node[1] = d /\ d \in Dirs(at.cache)
             /\ NewFile(at, path) = <<path, "file">>
             /\ NewNode(at, path) = <<path, "created", at.cache.epoch>>
  BY <1>3, <1>6, <1>9, PlaceIsDir DEF Place, NewFile, NewNode
<1>10. CASE y = [at EXCEPT !.node = NULL]
  <2>1. y.cache = at.cache /\ y.node = NULL
    BY <1>7, <1>10
  <2> QED
    BY <1>7, <2>1 DEF Makes
<1>11. ASSUME at.node # NULL, NEW v \in at.cache.vnodes, <<v[1], v[2]>> = NewFile(at, path),
              y = [at EXCEPT !.node = v]
       PROVE  Makes(c, y)
  <2>1. y.cache = at.cache /\ y.node = v
    BY <1>7, <1>11
  <2>2. v[2] = "file"
    BY <1>9, <1>11
  <2> QED
    BY <1>7, <2>1, <2>2 DEF Makes
<1>12. ASSUME at.node # NULL, NEW disk \in {at.cache.disk, at.cache.disk \cup {NewFile(at, path)}},
              NEW x \in vfs_dir_load_list(WithFile(at.cache, disk, NewNode(at, path)), at.node[1]),
              y = [cache |-> x, node |-> NewNode(at, path)]
       PROVE  Makes(c, y)
  <2>1. PICK n : n = <<path, "created", at.cache.epoch>>
    OBVIOUS
  <2>2. n = NewNode(at, path) /\ y.cache = x /\ y.node = n
    BY <1>9, <1>12, <2>1
  <2>3. disk \in SUBSET Tnode /\ at.cache.disk \subseteq disk
        /\ disk \in {at.cache.disk, at.cache.disk \cup {<<path, "file">>}}
    <3>1. <<path, "file">> \in Tnode
      BY DEF Tnode, Kind
    <3>2. at.cache.disk \subseteq Tnode
      BY <1>7, CacheFields
    <3> QED
      BY <1>9, <1>12, <3>1, <3>2
  <2>4. PICK w : w = WithFile(at.cache, disk, n)
    OBVIOUS
  <2>5. /\ Later(at.cache, w) /\ CacheType(w) /\ w.disk = disk /\ w.tnodes = at.cache.tnodes
        /\ w.vnodes = at.cache.vnodes /\ w.failed = at.cache.failed /\ n \in w.created
    <3>1. /\ Later(at.cache, w) /\ w.disk = disk /\ w.tnodes = at.cache.tnodes
          /\ w.vnodes = at.cache.vnodes /\ w.failed = at.cache.failed
          /\ w.created = at.cache.created \cup {n}
      BY <1>7, <2>1, <2>3, <2>4, WithFileFields
    <3> QED
      BY <3>1 DEF Later
  <2>6. TreeBut(w, d) /\ d \in Dirs(w)
    BY <1>2, <1>7, <1>9, <1>12, <2>3, <2>5, TreeWithFile
  <2>7. x \in vfs_dir_load_list(w, d)
    BY <1>9, <1>12, <2>2, <2>4
  <2>8. IsTree(x) /\ Later(w, x)
    BY <1>3, <2>5, <2>6, <2>7, TreeLoadList, LoadListLater
  <2>9. Later(c, x)
    BY <1>7, <2>5, <2>8, LaterTrans
  <2>10. n \in x.created
    BY <2>5, <2>8 DEF Later
  <2>11. n[2] = "created"
    BY <2>1
  <2> QED
    BY <2>2, <2>8, <2>9, <2>10, <2>11 DEF Makes
<1> QED
  BY <1>4, <1>8, <1>10, <1>11, <1>12 DEF MadeAt

=============================================================================
