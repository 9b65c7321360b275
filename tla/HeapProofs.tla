----------------------------- MODULE HeapProofs -----------------------------
(***************************************************************************)
(* Proofs about Heap, for every heap and every set of requests: what       *)
(* kmalloc() and kfree() keep true of the chunks and of the free list, and *)
(* that together they are an allocator.                                    *)
(*                                                                         *)
(* The list and the tiling are each one predicate on the headers, with a   *)
(* lemma for every way the code changes them; an action is then shown to   *)
(* change the headers in one of these ways.                                *)
(***************************************************************************)
EXTENDS Heap, TLAPS

\* The headers h are well formed.
HeadersIn(h) ==
  /\ DOMAIN h \subseteq Start .. End - 1
  /\ \A c \in DOMAIN h :
       h[c] \in [size : Nat, prev : DOMAIN h \cup {NULL}, next : DOMAIN h \cup {NULL}]

\* The chunks h tile the heap.
TiledIn(h) ==
  /\ Start \in DOMAIN h
  /\ \A c \in DOMAIN h :
       /\ c % 16 = 0
       /\ IF \A d \in DOMAIN h : d <= c
          THEN c + Header + h[c].size = End
          ELSE \E d \in DOMAIN h : /\ d - (c + Header + h[c].size) \in 0 .. 15
                                   /\ \A e \in DOMAIN h : e <= c \/ e >= d

\* The links of c in a list of the chunks F that begins with first.
Linked(h, F, first, c) ==
  /\ first <= c
  /\ h[c].prev = NULL <=> c = first
  /\ h[c].prev # NULL => h[c].prev \in F /\ h[h[c].prev].next = c
  /\ IF h[c].next = NULL THEN \A d \in F : d <= c
     ELSE /\ h[c].next \in F
          /\ h[c].next > c
          /\ h[h[c].next].prev = c
          /\ \A d \in F : d <= c \/ d >= h[c].next

\* The links of h make the chunks F a list in the order of their addresses.
ListIn(h, F, first) ==
  /\ first \in F \cup {NULL}
  /\ first = NULL <=> F = {}
  /\ \A c \in F : Linked(h, F, first, c)

-----------------------------------------------------------------------------
(***************************************************************************)
(* Arithmetic of the sizes.                                                *)
(***************************************************************************)

\* RoundUp() goes to the next multiple, for the three alignments heap.c uses.
LEMMA RoundUpFacts ==
  ASSUME NEW n \in Nat
  PROVE  /\ RoundUp(n, 2) \in Nat /\ RoundUp(n, 2) % 2 = 0
         /\ n <= RoundUp(n, 2) /\ RoundUp(n, 2) < n + 2
         /\ RoundUp(n, 4) \in Nat /\ RoundUp(n, 4) % 4 = 0
         /\ n <= RoundUp(n, 4) /\ RoundUp(n, 4) < n + 4
         /\ RoundUp(n, 16) \in Nat /\ RoundUp(n, 16) % 16 = 0
         /\ n <= RoundUp(n, 16) /\ RoundUp(n, 16) < n + 16
BY DEF RoundUp

\* What divideChunk() cuts a chunk of s bytes into when kmalloc() has more than
\* 48 bytes to spare: it never refuses, the first part holds the request, the
\* second starts aligned, at most 15 bytes behind the first, inside the chunk.
LEMMA SplitFacts ==
  ASSUME NEW c \in Nat, NEW n \in Nat \ {0}, NEW s \in Nat,
         c % 16 = 0, s % 4 = 0, NEW b, b = RoundUp(n, 4), s - b > 48
  PROVE  /\ SplitSize(b) \in Nat /\ SplitSize(b) % 4 = 0 /\ SplitSize(b) >= n
         /\ SplitAt(c, b) \in Nat /\ SplitAt(c, b) % 16 = 0
         /\ SplitAt(c, b) - (c + Header + SplitSize(b)) \in 0 .. 15
         /\ s > SplitSize(b) + Header + 15
         /\ s - (SplitAt(c, b) - c) \in Nat
         /\ (s - (SplitAt(c, b) - c)) % 4 = 0
<1> DEFINE m == IF b < 16 THEN 16 ELSE b
<1>1. b \in Nat /\ b % 4 = 0 /\ n <= b
  BY RoundUpFacts
<1>2. m \in Nat /\ m % 4 = 0 /\ m % 2 = 0 /\ m >= n /\ m >= b
  BY <1>1
<1>3. SplitSize(b) = m
  BY <1>2 DEF SplitSize, RoundUp
<1>4. s - b >= 52
  BY <1>1
<1> DEFINE a == SplitAt(c, b)
<1>5. /\ a \in Nat /\ a % 16 = 0 /\ c + m + 24 <= a /\ a < c + m + 24 + 16
  <2>1. c + m + 24 \in Nat
    BY <1>2
  <2> QED
    BY <1>3, <2>1, RoundUpFacts DEF SplitAt, Header
<1>6. a % 4 = 0 /\ c % 4 = 0
  BY <1>5
<1>7. s > m + 24 + 15 /\ s - (a - c) \in Nat
  <2>1. CASE b < 16
    <3>1. b >= 4
      BY <1>1
    <3>2. m = 16
      BY <2>1
    <3>3. a - c <= 48
      BY <1>5, <3>2
    <3> QED
      BY <3>1, <3>2, <3>3, <1>4, <1>1, <1>5
  <2>2. CASE ~(b < 16)
    BY <2>2, <1>4, <1>1, <1>5
  <2> QED
    BY <2>1, <2>2
<1>8. (s - (a - c)) % 4 = 0
  BY <1>6, <1>7, <1>5
<1> HIDE DEF m, a
<1>9. a - (c + 24 + m) \in 0 .. 15
  BY <1>2, <1>5
<1>10. a = SplitAt(c, b)
  BY DEF a
<1> QED
  BY <1>2, <1>3, <1>5, <1>7, <1>8, <1>9, <1>10 DEF Header

-----------------------------------------------------------------------------
(***************************************************************************)
(* The free list as a data structure.                                      *)
(***************************************************************************)

\* The list depends only on the links of its chunks.
LEMMA ListFrame ==
  ASSUME NEW h, NEW g, NEW F, NEW first, ListIn(h, F, first),
         \A x \in F : g[x].prev = h[x].prev /\ g[x].next = h[x].next
  PROVE  ListIn(g, F, first)
<1>1. ASSUME NEW c \in F PROVE Linked(g, F, first, c)
  BY DEF ListIn, Linked
<1> QED
  BY <1>1 DEF ListIn

\* Taking c out of the list: its neighbours are linked to each other.
LEMMA ListRemove ==
  ASSUME NEW h, NEW g, NEW F, NEW first, ListIn(h, F, first),
         F \subseteq Nat \ {0}, NEW c \in F,
         \A x \in F \ {c} :
           /\ g[x].prev = IF x = h[c].next THEN h[c].prev ELSE h[x].prev
           /\ g[x].next = IF x = h[c].prev THEN h[c].next ELSE h[x].next
  PROVE  ListIn(g, F \ {c}, IF c = first THEN h[c].next ELSE first)
<1> DEFINE n == h[c].next
           p == h[c].prev
           ff == IF c = first THEN n ELSE first
           FF == F \ {c}
<1>0. NULL = 0
  BY DEF NULL
<1>1. Linked(h, F, first, c)
  BY DEF ListIn
<1>2. n # NULL => n \in FF /\ n > c /\ Linked(h, F, first, n)
  BY <1>1 DEF ListIn, Linked
<1>3. p # NULL => p \in FF /\ p < c /\ Linked(h, F, first, p) /\ h[p].next = c
  <2> SUFFICES ASSUME p # NULL
               PROVE  p \in FF /\ p < c /\ Linked(h, F, first, p) /\ h[p].next = c
    OBVIOUS
  <2>1. p \in F /\ h[p].next = c
    BY <1>1 DEF Linked
  <2>2. Linked(h, F, first, p)
    BY <2>1 DEF ListIn
  <2>3. p < c
    <3>1. c # NULL /\ c \in Nat /\ p \in Nat
      BY <1>0, <2>1
    <3> QED
      BY <2>1, <2>2, <3>1 DEF Linked
  <2> QED
    BY <2>1, <2>2, <2>3
<1>4. ff \in FF \cup {NULL} /\ (ff = NULL <=> FF = {})
  <2>1. CASE c = first
    <3>1. ASSUME n = NULL, NEW d \in FF PROVE FALSE
      <4>1. d <= c /\ d # c /\ d \in Nat /\ c \in Nat
        BY <1>1, <3>1 DEF Linked
      <4>2. Linked(h, F, first, d)
        BY DEF ListIn
      <4>3. first <= d
        BY <4>2 DEF Linked
      <4> QED
        BY <2>1, <4>1, <4>3
    <3> QED
      BY <2>1, <3>1, <1>2
  <2>2. CASE c # first
    BY <2>2 DEF ListIn
  <2> QED
    BY <2>1, <2>2
<1>5. ASSUME NEW x \in FF
      PROVE  Linked(g, FF, ff, x)
  <2>1. /\ Linked(h, F, first, x) /\ x # 0 /\ x \in Nat /\ c \in Nat
    BY DEF ListIn
  <2>2. ff <= x
    <3>1. CASE c = first
      <4>1. first <= x
        BY <2>1 DEF Linked
      <4> QED
        BY <3>1, <4>1, <2>1, <1>0, <1>1, <1>2 DEF Linked
    <3>2. CASE c # first
      BY <3>2, <2>1 DEF Linked
    <3> QED
      BY <3>1, <3>2
  <2>3. h[x].prev = c <=> x = n
    BY <2>1, <1>0, <1>1, <1>2 DEF Linked
  <2>4. h[x].next = c <=> x = p
    BY <2>1, <1>0, <1>1, <1>3 DEF Linked
  <2>5. CASE x = n
    <3>1. g[x].prev = p /\ (g[x].next = IF x = p THEN n ELSE h[x].next)
      BY <2>5
    <3>2. x # p
      BY <2>5, <1>0, <1>2, <1>3, <2>1
    <3>3. g[x].next = h[x].next
      BY <3>1, <3>2
    <3>4. p = NULL <=> x = ff
      BY <2>5, <1>0, <1>1, <2>1, <1>4, <1>2 DEF Linked
    <3>5. p # NULL => p \in FF /\ g[p].next = x
      BY <1>3, <2>5
    <3>6. ASSUME h[x].next # NULL
          PROVE  h[x].next \in FF /\ h[x].next # n /\ g[h[x].next].prev = x
      <4>1. h[x].next \in F /\ h[x].next > x /\ h[h[x].next].prev = x
        BY <3>6, <2>1 DEF Linked
      <4>2. h[x].next # c /\ h[x].next # n
        BY <2>4, <3>2, <2>5, <4>1, <2>1
      <4> QED
        BY <4>1, <4>2
    <3>7. IF h[x].next = NULL THEN \A d \in FF : d <= x
          ELSE h[x].next > x /\ \A d \in FF : d <= x \/ d >= h[x].next
      BY <2>1 DEF Linked
    <3> QED
      BY <2>2, <3>1, <3>3, <3>4, <3>5, <3>6, <3>7 DEF Linked
  <2>6. CASE x # n
    <3>1. g[x].prev = h[x].prev /\ h[x].prev # c
      BY <2>6, <2>3
    <3>2. h[x].prev = NULL <=> x = ff
      BY <2>6, <2>1, <1>1, <1>0, <1>2 DEF Linked
    <3>3. h[x].prev # NULL => h[x].prev \in FF /\ g[h[x].prev].next = x
      <4>1. ASSUME h[x].prev # NULL PROVE h[x].prev \in FF /\ h[h[x].prev].next = x
        BY <4>1, <2>1, <3>1 DEF Linked
      <4>2. ASSUME h[x].prev # NULL PROVE h[x].prev # p
        BY <4>1, <4>2, <1>3, <2>1
      <4> QED
        BY <4>1, <4>2
    <3>4. CASE x = p
      <4>1. g[x].next = n
        BY <3>4
      <4>2. n # NULL => g[n].prev = x /\ n > x
        <5>1. ASSUME n # NULL PROVE n \in FF /\ n > c /\ n \in Nat
          BY <5>1, <1>2
        <5>2. p # NULL /\ p < c
          BY <3>4, <1>0, <1>3, <2>1
        <5>3. n # NULL => g[n].prev = p
          BY <5>1
        <5> QED
          BY <5>1, <5>2, <5>3, <3>4, <2>1
      <4>3. IF n = NULL THEN \A d \in FF : d <= x ELSE \A d \in FF : d <= x \/ d >= n
        <5>1. \A d \in FF : d <= x \/ d >= c
          BY <3>4, <1>3, <2>1, <1>0 DEF Linked
        <5>2. \A d \in FF : d \in Nat /\ d # c
          OBVIOUS
        <5>3. IF n = NULL THEN \A d \in FF : d <= c ELSE \A d \in FF : d <= c \/ d >= n
          BY <1>1 DEF Linked
        <5> QED
          BY <5>1, <5>2, <5>3, <2>1
      <4> QED
        BY <2>2, <3>1, <3>2, <3>3, <4>1, <4>2, <4>3, <1>2 DEF Linked
    <3>5. CASE x # p
      <4>1. g[x].next = h[x].next /\ h[x].next # c
        BY <3>5, <2>4
      <4>2. h[x].next # NULL => h[x].next \in FF /\ h[x].next > x /\ h[h[x].next].prev = x
        BY <4>1, <2>1 DEF Linked
      <4>3. h[x].next # NULL => h[x].next # n
        BY <4>2, <1>2, <1>1, <2>1, <1>0 DEF Linked
      <4>4. h[x].next # NULL => g[h[x].next].prev = x
        BY <4>2, <4>3
      <4>5. IF h[x].next = NULL THEN \A d \in FF : d <= x
            ELSE \A d \in FF : d <= x \/ d >= h[x].next
        BY <2>1 DEF Linked
      <4> QED
        BY <2>2, <3>1, <3>2, <3>3, <4>1, <4>2, <4>4, <4>5 DEF Linked
    <3> QED
      BY <3>4, <3>5
  <2> QED
    BY <2>5, <2>6
<1> QED
  BY <1>4, <1>5 DEF ListIn

\* Linking c behind a, before the chunk that was behind a.
LEMMA ListInsert ==
  ASSUME NEW h, NEW g, NEW F, NEW first, ListIn(h, F, first),
         F \subseteq Nat \ {0}, NEW a \in F, NEW c \in Nat \ F, a < c,
         h[a].next # NULL => c < h[a].next,
         g[c].prev = a, g[c].next = h[a].next,
         \A x \in F :
           /\ g[x].prev = IF x = h[a].next THEN c ELSE h[x].prev
           /\ g[x].next = IF x = a THEN c ELSE h[x].next
  PROVE  ListIn(g, F \cup {c}, first)
<1> DEFINE FF == F \cup {c}
           n == h[a].next
<1>0. NULL = 0 /\ c # NULL /\ a # NULL /\ a \in Nat
  BY DEF NULL
<1>1. first \in FF \cup {NULL} /\ (first = NULL <=> FF = {}) /\ first # NULL
  BY DEF ListIn
<1>2. Linked(h, F, first, a)
  BY DEF ListIn
<1>3. n # NULL => n \in F /\ n \in Nat /\ n > a /\ h[n].prev = a
  BY <1>2 DEF Linked
<1>4. IF n = NULL THEN \A d \in F : d <= a ELSE \A d \in F : d <= a \/ d >= n
  BY <1>2 DEF Linked
<1>5. first \in Nat /\ first <= a
  BY <1>2 DEF ListIn, Linked, NULL
<1>6. Linked(g, FF, first, c)
  <2>1. first <= c /\ c # first
    BY <1>5, <1>0
  <2>2. g[a].next = c
    OBVIOUS
  <2>3. n # NULL => g[n].prev = c
    BY <1>3
  <2>4. IF n = NULL THEN \A d \in FF : d <= c ELSE \A d \in FF : d <= c \/ d >= n
    BY <1>4, <1>3, <1>0
  <2> QED
    BY <2>1, <2>2, <2>3, <2>4, <1>0, <1>3 DEF Linked
<1>7. ASSUME NEW x \in F
      PROVE  Linked(g, FF, first, x)
  <2>1. Linked(h, F, first, x) /\ x # NULL /\ x \in Nat /\ x # c
    BY <1>0 DEF ListIn
  <2>2. first <= x
    BY <2>1 DEF Linked
  <2>3. g[x].prev = NULL <=> x = first
    <3>1. CASE x = n
      BY <3>1, <2>1, <1>0, <1>3, <1>5
    <3>2. CASE x # n
      BY <3>2, <2>1 DEF Linked
    <3> QED
      BY <3>1, <3>2
  <2>4. ASSUME g[x].prev # NULL PROVE g[x].prev \in FF /\ g[g[x].prev].next = x
    <3>1. CASE x = n
      BY <3>1
    <3>2. CASE x # n
      <4>1. g[x].prev = h[x].prev /\ h[x].prev \in F /\ h[h[x].prev].next = x
        BY <3>2, <2>4, <2>1 DEF Linked
      <4>2. h[x].prev # a
        BY <4>1, <3>2
      <4> QED
        BY <4>1, <4>2
    <3> QED
      BY <3>1, <3>2
  <2>5. CASE x = a
    <3>1. g[x].next = c
      BY <2>5
    <3>2. \A d \in FF : d <= a \/ d >= c
      <4>1. ASSUME NEW d \in F PROVE d <= a \/ d >= c
        <5>1. d \in Nat
          OBVIOUS
        <5> QED
          BY <5>1, <1>4, <1>3, <1>0
      <4> QED
        BY <4>1
    <3> QED
      BY <3>1, <3>2, <2>5, <2>2, <2>3, <2>4, <1>0 DEF Linked
  <2>6. CASE x # a
    <3>1. g[x].next = h[x].next
      BY <2>6
    <3>2. ASSUME h[x].next # NULL
          PROVE  h[x].next \in F /\ h[x].next > x /\ h[h[x].next].prev = x
      BY <3>2, <2>1 DEF Linked
    <3>3. ASSUME h[x].next # NULL PROVE g[h[x].next].prev = x
      <4>1. h[x].next # n
        BY <3>2, <3>3, <1>3, <2>6
      <4> QED
        BY <4>1, <3>2, <3>3
    <3>4. IF h[x].next = NULL THEN \A d \in F : d <= x
          ELSE \A d \in F : d <= x \/ d >= h[x].next
      BY <2>1 DEF Linked
    <3>5. IF h[x].next = NULL THEN c <= x ELSE c <= x \/ c >= h[x].next
      <4>1. x <= a \/ (n # NULL /\ x >= n)
        BY <1>4
      <4>2. CASE x <= a
        <5>1. x < a
          BY <4>2, <2>6, <2>1, <1>0
        <5>2. h[x].next # NULL
          BY <5>1, <3>4, <1>0, <2>1
        <5>3. h[x].next \in Nat
          BY <5>2, <3>2
        <5>4. h[x].next <= a
          BY <5>1, <5>2, <5>3, <3>4, <1>0, <2>1
        <5> QED
          BY <5>2, <5>3, <5>4, <1>0
      <4>3. CASE n # NULL /\ x >= n
        BY <4>3, <1>3, <2>1
      <4> QED
        BY <4>1, <4>2, <4>3
    <3> QED
      BY <3>1, <3>2, <3>3, <3>4, <3>5, <2>2, <2>3, <2>4 DEF Linked
  <2> QED
    BY <2>5, <2>6
<1> QED
  BY <1>1, <1>6, <1>7 DEF ListIn

\* Putting c at the head of the list.
LEMMA ListPush ==
  ASSUME NEW h, NEW g, NEW F, NEW first, ListIn(h, F, first),
         F \subseteq Nat \ {0}, NEW c \in Nat \ F, c # NULL,
         first # NULL => c < first,
         g[c].prev = NULL, g[c].next = first,
         \A x \in F :
           /\ g[x].prev = IF x = first THEN c ELSE h[x].prev
           /\ g[x].next = h[x].next
  PROVE  ListIn(g, F \cup {c}, c)
<1> DEFINE FF == F \cup {c}
<1>0. NULL = 0
  BY DEF NULL
<1>1. \A x \in F : first <= x /\ x \in Nat /\ x # NULL /\ c < x
  <2> SUFFICES ASSUME NEW x \in F PROVE first <= x /\ x \in Nat /\ x # NULL /\ c < x
    OBVIOUS
  <2>1. Linked(h, F, first, x) /\ first # NULL /\ first \in F
    BY DEF ListIn
  <2>2. x \in Nat /\ x # 0 /\ first \in Nat
    BY <2>1
  <2>3. first <= x
    BY <2>1 DEF Linked
  <2> QED
    BY <2>1, <2>2, <2>3, <1>0
<1>2. first # NULL => first \in F /\ first \in Nat
  BY DEF ListIn
<1>3. Linked(g, FF, c, c)
  <2>1. IF first = NULL THEN \A d \in FF : d <= c ELSE \A d \in FF : d <= c \/ d >= first
    BY <1>1 DEF ListIn
  <2> QED
    BY <2>1, <1>2 DEF Linked
<1>4. ASSUME NEW x \in F
      PROVE  Linked(g, FF, c, x)
  <2>1. Linked(h, F, first, x)
    BY DEF ListIn
  <2>2. c <= x /\ x # c
    BY <1>1
  <2>3. g[x].prev # NULL /\ g[x].prev \in FF /\ g[g[x].prev].next = x
    <3>1. CASE x = first
      BY <3>1
    <3>2. CASE x # first
      BY <3>2, <2>1 DEF Linked
    <3> QED
      BY <3>1, <3>2
  <2>4. ASSUME h[x].next # NULL
        PROVE  h[x].next \in F /\ h[x].next > x /\ g[h[x].next].prev = x
    <3>1. h[x].next \in F /\ h[x].next > x /\ h[h[x].next].prev = x
      BY <2>4, <2>1 DEF Linked
    <3>2. h[x].next # first
      BY <3>1, <1>1, <1>2
    <3> QED
      BY <3>1, <3>2
  <2>5. IF h[x].next = NULL THEN \A d \in FF : d <= x
        ELSE \A d \in FF : d <= x \/ d >= h[x].next
    BY <2>1, <2>2 DEF Linked
  <2> QED
    BY <2>2, <2>3, <2>4, <2>5 DEF Linked
<1> QED
  BY <1>3, <1>4 DEF ListIn

-----------------------------------------------------------------------------
(***************************************************************************)
(* The tiling of the heap.                                                 *)
(***************************************************************************)

\* It depends only on where the chunks are and on their sizes.
LEMMA TileFrame ==
  ASSUME NEW h, NEW g, TiledIn(h), DOMAIN g = DOMAIN h,
         \A x \in DOMAIN h : g[x].size = h[x].size
  PROVE  TiledIn(g)
BY DEF TiledIn

\* A chunk ends before any chunk above it begins, and inside the heap.
LEMMA TileEnds ==
  ASSUME NEW h, TiledIn(h), HeadersIn(h)
  PROVE  /\ \A c \in DOMAIN h : c + Header + h[c].size <= End
         /\ \A c, d \in DOMAIN h : c < d => c + Header + h[c].size <= d
<1>1. \A c \in DOMAIN h : c \in Nat /\ h[c].size \in Nat /\ c < End
  BY HeapAssumption DEF HeadersIn
<1>2. End \in Nat
  BY HeapAssumption
<1>3. ASSUME NEW c \in DOMAIN h
      PROVE  /\ c + Header + h[c].size <= End
             /\ \A d \in DOMAIN h : c < d => c + Header + h[c].size <= d
  <2>1. CASE \A d \in DOMAIN h : d <= c
    BY <2>1, <1>1, <1>2 DEF TiledIn, Header
  <2>2. CASE ~(\A d \in DOMAIN h : d <= c)
    <3>1. PICK d \in DOMAIN h : /\ d - (c + Header + h[c].size) \in 0 .. 15
                                /\ \A e \in DOMAIN h : e <= c \/ e >= d
      BY <2>2 DEF TiledIn
    <3>2. d \in Nat /\ d < End /\ c + Header + h[c].size \in Nat
      BY <1>1 DEF Header
    <3>3. d >= c + Header + h[c].size
      BY <3>1, <3>2
    <3> QED
      BY <3>1, <3>2, <3>3, <1>1, <1>2
  <2> QED
    BY <2>1, <2>2
<1> QED
  BY <1>3

\* divideChunk(): the chunk c2 is cut out of the end of c.
LEMMA TileSplit ==
  ASSUME NEW h, NEW g, TiledIn(h), HeadersIn(h), NEW c \in DOMAIN h, NEW c2 \in Nat,
         NEW s \in Nat, DOMAIN g = DOMAIN h \cup {c2}, c2 % 16 = 0,
         c2 - (c + Header + s) \in 0 .. 15, c2 < c + Header + h[c].size,
         g[c].size = s, g[c2].size = h[c].size - (c2 - c),
         \A x \in DOMAIN h \ {c} : g[x].size = h[x].size
  PROVE  TiledIn(g) /\ c2 \notin DOMAIN h
<1> DEFINE D == DOMAIN h
           G == DOMAIN g
           top == c + Header + h[c].size
<1>1. \A x \in D : x \in Nat /\ h[x].size \in Nat
  BY HeapAssumption DEF HeadersIn
<1>2. c < c2 /\ c2 < top /\ top \in Nat
  BY <1>1 DEF Header
<1>3. \A e \in D : e <= c \/ e >= top
  <2> SUFFICES ASSUME NEW e \in D PROVE e <= c \/ e >= top
    OBVIOUS
  <2>1. c < e => top <= e
    BY TileEnds
  <2> QED
    BY <2>1, <1>1, <1>2
<1>4. c2 \notin D
  BY <1>2, <1>3, <1>1
<1>5. c2 + Header + g[c2].size = top /\ c2 # c /\ g[c2].size \in Int
  BY <1>1, <1>2 DEF Header
<1>6. Start \in G /\ \A x \in G : x % 16 = 0 /\ x \in Nat
  BY <1>1 DEF TiledIn
<1>7. ASSUME NEW d \in G
      PROVE  IF \A e \in G : e <= d
             THEN d + Header + g[d].size = End
             ELSE \E f \in G : /\ f - (d + Header + g[d].size) \in 0 .. 15
                               /\ \A e \in G : e <= d \/ e >= f
  <2>1. CASE d = c
    <3>1. \A e \in G : e <= d \/ e >= c2
      BY <2>1, <1>1, <1>2, <1>3
    <3>2. c2 \in G /\ ~(c2 <= d)
      BY <2>1, <1>1, <1>2
    <3> QED
      BY <2>1, <3>1, <3>2
  <2>2. CASE d = c2
    <3>1. CASE \A e \in G : e <= d
      <4>1. \A e \in D : e <= c
        <5> SUFFICES ASSUME NEW e \in D PROVE e <= c
          OBVIOUS
        <5>1. e <= c2 /\ e \in Nat
          BY <2>2, <3>1, <1>1
        <5> QED
          BY <5>1, <1>2, <1>3
      <4>2. top = End
        BY <4>1 DEF TiledIn
      <4> QED
        BY <2>2, <3>1, <4>2, <1>5
    <3>2. CASE ~(\A e \in G : e <= d)
      <4>1. PICK e0 \in G : ~(e0 <= c2)
        BY <2>2, <3>2
      <4>2. e0 \in D /\ e0 > c
        BY <4>1, <1>2, <1>1, <1>6
      <4>3. PICK f \in D : f - top \in 0 .. 15 /\ \A e \in D : e <= c \/ e >= f
        BY <4>2, <1>1 DEF TiledIn
      <4>4. \A e \in G : e <= c2 \/ e >= f
        BY <4>3, <1>1, <1>2
      <4> QED
        BY <2>2, <3>2, <4>3, <4>4, <1>5
    <3> QED
      BY <3>1, <3>2
  <2>3. CASE d \in D \ {c}
    <3>0. d \in Nat /\ g[d].size = h[d].size
      BY <2>3, <1>1
    <3>1. CASE \A e \in G : e <= d
      BY <2>3, <3>1, <3>0 DEF TiledIn
    <3>2. CASE ~(\A e \in G : e <= d)
      <4>1. PICK e0 \in G : e0 > d
        BY <3>2, <3>0, <1>6
      <4>2. ~(\A e \in D : e <= d)
        <5>1. CASE e0 = c2
          <6>1. d < c
            BY <5>1, <4>1, <2>3, <3>0, <1>3, <1>2, <1>1
          <6> QED
            BY <6>1, <3>0, <1>1
        <5>2. CASE e0 \in D
          BY <5>2, <4>1, <3>0, <1>1
        <5> QED
          BY <5>1, <5>2
      <4>3. PICK f \in D : /\ f - (d + Header + h[d].size) \in 0 .. 15
                           /\ \A e \in D : e <= d \/ e >= f
        BY <4>2, <2>3 DEF TiledIn
      <4>4. c2 <= d \/ c2 >= f
        <5>1. CASE c <= d
          BY <5>1, <2>3, <3>0, <1>3, <1>2, <1>1
        <5>2. CASE c >= f
          BY <5>2, <1>2, <1>1
        <5> QED
          BY <4>3, <5>1, <5>2
      <4> QED
        BY <3>0, <3>2, <4>3, <4>4
    <3> QED
      BY <3>1, <3>2
  <2> QED
    BY <2>1, <2>2, <2>3
<1> QED
  BY <1>4, <1>6, <1>7 DEF TiledIn

\* mergeChunk(): the chunk b, directly behind a, becomes a part of a.
LEMMA TileMerge ==
  ASSUME NEW h, NEW g, TiledIn(h), HeadersIn(h), NEW a \in DOMAIN h, NEW b \in DOMAIN h,
         a + Header + h[a].size = b, DOMAIN g = DOMAIN h \ {b},
         g[a].size = h[a].size + h[b].size + Header,
         \A x \in DOMAIN h \ {a, b} : g[x].size = h[x].size
  PROVE  TiledIn(g)
<1> DEFINE D == DOMAIN h
           G == DOMAIN g
<1>1. \A x \in D : x \in Nat /\ h[x].size \in Nat /\ Start <= x
  BY HeapAssumption DEF HeadersIn
<1>2. a < b
  BY <1>1 DEF Header
<1>3. \A e \in D : e <= a \/ e >= b
  <2> SUFFICES ASSUME NEW e \in D PROVE e <= a \/ e >= b
    OBVIOUS
  <2>1. a < e => b <= e
    BY TileEnds
  <2> QED
    BY <2>1, <1>1
<1>4. Start \in G /\ \A x \in G : x % 16 = 0 /\ x \in Nat /\ x \in D
  <2>1. Start # b
    BY <1>1, <1>2, HeapAssumption
  <2> QED
    BY <2>1, <1>1 DEF TiledIn
<1>5. ASSUME NEW d \in G
      PROVE  IF \A e \in G : e <= d
             THEN d + Header + g[d].size = End
             ELSE \E f \in G : /\ f - (d + Header + g[d].size) \in 0 .. 15
                               /\ \A e \in G : e <= d \/ e >= f
  <2>1. CASE d = a
    <3>0. d + Header + g[d].size = b + Header + h[b].size
      BY <2>1, <1>1 DEF Header
    <3>1. CASE \A e \in G : e <= d
      <4>1. \A e \in D : e <= b
        BY <2>1, <3>1, <1>1, <1>2
      <4>2. b + Header + h[b].size = End
        BY <4>1 DEF TiledIn
      <4> QED
        BY <3>0, <3>1, <4>2
    <3>2. CASE ~(\A e \in G : e <= d)
      <4>1. PICK e0 \in G : ~(e0 <= a)
        BY <2>1, <3>2
      <4>2. ~(e0 <= b)
        BY <4>1, <1>1, <1>3, <1>4
      <4>3. PICK f \in D : /\ f - (b + Header + h[b].size) \in 0 .. 15
                           /\ \A e \in D : e <= b \/ e >= f
        BY <4>2, <1>4 DEF TiledIn
      <4>4. f # b
        BY <4>3, <1>1 DEF Header
      <4>5. \A e \in G : e <= a \/ e >= f
        BY <4>3, <1>3, <1>1
      <4> QED
        BY <2>1, <3>0, <3>2, <4>3, <4>4, <4>5
    <3> QED
      BY <3>1, <3>2
  <2>2. CASE d # a
    <3>0. d \in D /\ d \in Nat /\ g[d].size = h[d].size /\ d # b /\ h[d].size \in Nat
      BY <2>2, <1>4, <1>1
    <3>1. CASE \A e \in G : e <= d
      <4>1. b <= d
        <5>1. a <= d
          BY <3>1, <1>2, <1>1
        <5> QED
          BY <5>1, <2>2, <3>0, <1>3, <1>1
      <4>2. \A e \in D : e <= d
        BY <3>1, <4>1
      <4> QED
        BY <3>0, <3>1, <4>2 DEF TiledIn
    <3>2. CASE ~(\A e \in G : e <= d)
      <4>1. ~(\A e \in D : e <= d)
        BY <3>2, <1>4
      <4>2. PICK f \in D : /\ f - (d + Header + h[d].size) \in 0 .. 15
                           /\ \A e \in D : e <= d \/ e >= f
        BY <3>0, <4>1 DEF TiledIn
      <4>3. f # b
        <5>1. f > d /\ f \in Nat
          BY <4>2, <3>0, <1>1 DEF Header
        <5>2. a <= d \/ a >= f
          BY <4>2
        <5> QED
          BY <5>1, <5>2, <2>2, <3>0, <1>1, <1>2, <1>3
      <4> QED
        BY <3>0, <3>2, <4>2, <4>3, <1>4
    <3> QED
      BY <3>1, <3>2
  <2> QED
    BY <2>1, <2>2
<1> QED
  BY <1>4, <1>5 DEF TiledIn

-----------------------------------------------------------------------------
(***************************************************************************)
(* What the helpers do to the headers, field by field.                     *)
(***************************************************************************)
Records(h) == \A c \in DOMAIN h : h[c] \in [size : Nat, prev : Nat, next : Nat]

\* Well-formed headers, in terms of their fields.
LEMMA HeadersFields ==
  ASSUME NEW h
  PROVE  HeadersIn(h) <=>
           /\ DOMAIN h \subseteq Start .. End - 1
           /\ Records(h)
           /\ \A c \in DOMAIN h : /\ h[c].prev \in DOMAIN h \cup {NULL}
                                  /\ h[c].next \in DOMAIN h \cup {NULL}
BY HeapAssumption DEF HeadersIn, Records, NULL

\* No chunk is at address 0, which the code uses for no chunk.
LEMMA NotNull ==
  ASSUME NEW h, HeadersIn(h)
  PROVE  DOMAIN h \subseteq Nat \ {0} /\ NULL \notin DOMAIN h
BY HeapAssumption DEF HeadersIn, NULL

\* unlink() of a chunk that is not its own neighbour.
LEMMA UnlinkFields ==
  ASSUME NEW h, HeadersIn(h), NEW c \in DOMAIN h, h[c].prev # c, h[c].next # c,
         NEW g, g = unlink(h, c)
  PROVE  /\ DOMAIN g = DOMAIN h /\ HeadersIn(g)
         /\ \A x \in DOMAIN h : g[x].size = h[x].size
         /\ g[c].prev = NULL /\ g[c].next = NULL
         /\ \A x \in DOMAIN h \ {c} :
              /\ g[x].prev = IF x = h[c].next THEN h[c].prev ELSE h[x].prev
              /\ g[x].next = IF x = h[c].prev THEN h[c].next ELSE h[x].next
<1>1. PICK p, n : p = h[c].prev /\ n = h[c].next
  OBVIOUS
<1>2. /\ Records(h) /\ NULL \notin DOMAIN h
      /\ p \in DOMAIN h \cup {NULL} /\ n \in DOMAIN h \cup {NULL} /\ p \in Nat /\ n \in Nat
  BY <1>1, HeadersFields, NotNull DEF NULL
<1>3. PICK h1 : h1 = SetPrev(h, n, p)
  OBVIOUS
<1>4. /\ DOMAIN h1 = DOMAIN h /\ Records(h1)
      /\ \A x \in DOMAIN h : /\ h1[x].size = h[x].size
                             /\ h1[x].prev = IF x = n THEN p ELSE h[x].prev
                             /\ h1[x].next = h[x].next
  BY <1>2, <1>3 DEF SetPrev, Records, NULL
<1>5. PICK h2 : h2 = SetNext(h1, p, n)
  OBVIOUS
<1>6. /\ DOMAIN h2 = DOMAIN h1 /\ Records(h2)
      /\ \A x \in DOMAIN h1 : /\ h2[x].size = h1[x].size
                              /\ h2[x].prev = h1[x].prev
                              /\ h2[x].next = IF x = p THEN n ELSE h1[x].next
  <2>1. Records(h1) /\ p \in DOMAIN h1 \cup {NULL} /\ NULL \notin DOMAIN h1
    BY <1>2, <1>4
  <2> QED
    BY <2>1, <1>2, <1>5 DEF SetNext, Records, NULL
<1>7. g = [h2 EXCEPT ![c].prev = NULL, ![c].next = NULL]
  BY <1>1, <1>3, <1>5 DEF unlink
<1>8. /\ DOMAIN g = DOMAIN h /\ Records(g)
      /\ \A x \in DOMAIN h : g[x].size = h2[x].size
      /\ g[c].prev = NULL /\ g[c].next = NULL
      /\ \A x \in DOMAIN h \ {c} : g[x] = h2[x]
  <2>1. Records(h2) /\ DOMAIN h2 = DOMAIN h
    BY <1>4, <1>6
  <2>2. NULL \in Nat
    BY DEF NULL
  <2>3. PICK h3 : h3 = [h2 EXCEPT ![c].prev = NULL]
    OBVIOUS
  <2>4. /\ DOMAIN h3 = DOMAIN h /\ Records(h3)
        /\ h3[c].size = h2[c].size /\ h3[c].prev = NULL
        /\ \A x \in DOMAIN h \ {c} : h3[x] = h2[x]
    BY <2>1, <2>2, <2>3 DEF Records
  <2>5. g = [h3 EXCEPT ![c].next = NULL]
    BY <2>1, <2>3, <2>4, <1>7
  <2>6. /\ DOMAIN g = DOMAIN h /\ Records(g)
        /\ g[c].size = h3[c].size /\ g[c].prev = h3[c].prev /\ g[c].next = NULL
        /\ \A x \in DOMAIN h \ {c} : g[x] = h3[x]
    BY <2>2, <2>4, <2>5 DEF Records
  <2> QED
    BY <2>4, <2>6
<1>9. \A x \in DOMAIN h \ {c} : /\ g[x].prev = IF x = n THEN p ELSE h[x].prev
                                /\ g[x].next = IF x = p THEN n ELSE h[x].next
  BY <1>4, <1>6, <1>8
<1>10. HeadersIn(g)
  <2>1. \A x \in DOMAIN h : /\ h[x].prev \in DOMAIN h \cup {NULL}
                            /\ h[x].next \in DOMAIN h \cup {NULL}
    BY HeadersFields
  <2>2. \A x \in DOMAIN g : /\ g[x].prev \in DOMAIN g \cup {NULL}
                            /\ g[x].next \in DOMAIN g \cup {NULL}
    BY <2>1, <1>2, <1>8, <1>9
  <2> QED
    BY <2>2, <1>8, HeadersFields
<1> QED
  BY <1>1, <1>4, <1>6, <1>8, <1>9, <1>10

\* g is h with the chunk c2 cut out of the end of c, s bytes long then.
Divided(h, g, c, c2, s) ==
  /\ DOMAIN g = DOMAIN h \cup {c2} /\ HeadersIn(g)
  /\ g[c].size = s
  /\ g[c2].size = h[c].size - (c2 - c) /\ g[c2].prev = c /\ g[c2].next = h[c].next
  /\ \A x \in DOMAIN h \ {c} : g[x].size = h[x].size
  /\ \A x \in DOMAIN h : /\ g[x].prev = IF x = h[c].next THEN c2 ELSE h[x].prev
                         /\ g[x].next = IF x = c THEN c2 ELSE h[x].next

\* divideChunk() of c when it does not refuse.
LEMMA DivideFields ==
  ASSUME NEW h, HeadersIn(h), NEW c \in DOMAIN h, h[c].next # c, NEW b,
         NEW s \in Nat, s = SplitSize(b), NEW c2 \in Start .. End - 1, c2 = SplitAt(c, b),
         c2 \notin DOMAIN h, h[c].size - (c2 - c) \in Nat,
         NEW g, g = divideChunk(h, c, b)
  PROVE  Divided(h, g, c, c2, s)
<1>1. PICK n, r : /\ n = h[c].next
                  /\ r = [size |-> h[c].size - (c2 - c), prev |-> c, next |-> n]
  OBVIOUS
<1>2. /\ Records(h) /\ NULL \notin DOMAIN h /\ c \in Nat
      /\ n \in DOMAIN h \cup {NULL} /\ n \in Nat
  BY <1>1, HeadersFields, NotNull DEF NULL
<1>3. c2 \in Nat /\ s \in Nat /\ c2 \notin DOMAIN h /\ r \in [size : Nat, prev : Nat, next : Nat]
  BY <1>1, <1>2, HeapAssumption
<1>4. PICK h1 : h1 = [h EXCEPT ![c].size = s, ![c].next = c2]
  OBVIOUS
<1>5. /\ DOMAIN h1 = DOMAIN h /\ Records(h1)
      /\ h1[c].size = s
      /\ \A x \in DOMAIN h \ {c} : h1[x].size = h[x].size
      /\ \A x \in DOMAIN h : h1[x].prev = h[x].prev
      /\ \A x \in DOMAIN h : h1[x].next = IF x = c THEN c2 ELSE h[x].next
  BY <1>2, <1>3, <1>4 DEF Records
<1>6. PICK h2 : h2 = SetPrev(h1, n, c2)
  OBVIOUS
<1>7. /\ DOMAIN h2 = DOMAIN h1 /\ Records(h2)
      /\ \A x \in DOMAIN h1 : /\ h2[x].size = h1[x].size
                              /\ h2[x].prev = IF x = n THEN c2 ELSE h1[x].prev
                              /\ h2[x].next = h1[x].next
  <2>1. Records(h1) /\ n \in DOMAIN h1 \cup {NULL} /\ NULL \notin DOMAIN h1
    BY <1>2, <1>5
  <2> QED
    BY <2>1, <1>2, <1>3, <1>6 DEF SetPrev, Records, NULL
<1>8. g = Put(h2, c2, r)
  BY <1>1, <1>4, <1>6 DEF divideChunk
<1>9. /\ DOMAIN g = DOMAIN h \cup {c2} /\ Records(g)
      /\ g[c2] = r /\ \A x \in DOMAIN h : g[x] = h2[x]
  BY <1>3, <1>5, <1>7, <1>8 DEF Put, Records
<1>10. /\ g[c].size = s
       /\ \A x \in DOMAIN h \ {c} : g[x].size = h[x].size
       /\ \A x \in DOMAIN h : /\ g[x].prev = IF x = n THEN c2 ELSE h[x].prev
                              /\ g[x].next = IF x = c THEN c2 ELSE h[x].next
  BY <1>5, <1>7, <1>9
<1>11. HeadersIn(g)
  <2>1. DOMAIN g \subseteq Start .. End - 1
    BY <1>1, <1>9, HeadersFields
  <2>2. r.prev = c /\ r.next = n
    BY <1>1
  <2>3. \A x \in DOMAIN h : h[x].prev \in DOMAIN h \cup {NULL} /\ h[x].next \in DOMAIN h \cup {NULL}
    BY HeadersFields
  <2>4. \A x \in DOMAIN g : g[x].prev \in DOMAIN g \cup {NULL} /\ g[x].next \in DOMAIN g \cup {NULL}
    BY <2>2, <2>3, <1>2, <1>9, <1>10
  <2> QED
    BY <2>1, <2>4, <1>9, HeadersFields
<1> QED
  BY <1>1, <1>9, <1>10, <1>11 DEF Divided

\* g is h with the chunk b, which is behind a on the list, made a part of a.
Merged(h, g, a, b) ==
  /\ DOMAIN g = DOMAIN h \ {b} /\ HeadersIn(g)
  /\ g[a].size = h[a].size + h[b].size + Header
  /\ \A x \in DOMAIN h \ {a, b} : g[x].size = h[x].size
  /\ \A x \in DOMAIN h \ {b} :
       /\ g[x].prev = IF x = h[b].next THEN a ELSE h[x].prev
       /\ g[x].next = IF x = a THEN h[b].next ELSE h[x].next

\* mergeChunk() of a and the chunk b that is behind it on the list.
LEMMA MergeFields ==
  ASSUME NEW h, HeadersIn(h), NEW a \in DOMAIN h, NEW b \in DOMAIN h, a # b,
         h[b].next # b, h[b].next # a,
         \A x \in DOMAIN h \ {a} : h[x].next # b,
         \A x \in DOMAIN h : h[x].prev = b => x = h[b].next,
         NEW g, g = mergeChunk(h, a, b)
  PROVE  Merged(h, g, a, b)
<1>1. PICK n, s : n = h[b].next /\ s = h[a].size + h[b].size + Header
  OBVIOUS
<1>2. /\ Records(h) /\ NULL \notin DOMAIN h /\ a \in Nat /\ s \in Nat
      /\ n \in DOMAIN h \cup {NULL} /\ n \in Nat
  BY <1>1, HeadersFields, NotNull DEF NULL, Records, Header
<1>3. PICK h1 : h1 = [h EXCEPT ![a].next = n, ![a].size = @ + h[b].size + Header]
  OBVIOUS
<1>4. /\ DOMAIN h1 = DOMAIN h /\ Records(h1)
      /\ h1[a].size = s
      /\ \A x \in DOMAIN h \ {a} : h1[x].size = h[x].size
      /\ \A x \in DOMAIN h : h1[x].prev = h[x].prev
      /\ \A x \in DOMAIN h : h1[x].next = IF x = a THEN n ELSE h[x].next
  BY <1>1, <1>2, <1>3 DEF Records
<1>5. PICK h2 : h2 = SetPrev(h1, n, a)
  OBVIOUS
<1>6. /\ DOMAIN h2 = DOMAIN h1 /\ Records(h2)
      /\ \A x \in DOMAIN h1 : /\ h2[x].size = h1[x].size
                              /\ h2[x].prev = IF x = n THEN a ELSE h1[x].prev
                              /\ h2[x].next = h1[x].next
  <2>1. Records(h1) /\ n \in DOMAIN h1 \cup {NULL} /\ NULL \notin DOMAIN h1
    BY <1>2, <1>4
  <2> QED
    BY <2>1, <1>2, <1>5 DEF SetPrev, Records, NULL
<1>7. g = Without(h2, b)
  BY <1>1, <1>3, <1>5 DEF mergeChunk
<1>8. DOMAIN g = DOMAIN h \ {b} /\ Records(g) /\ \A x \in DOMAIN g : g[x] = h2[x]
  BY <1>4, <1>6, <1>7 DEF Without, Records
<1>9. /\ g[a].size = s
      /\ \A x \in DOMAIN h \ {a, b} : g[x].size = h[x].size
      /\ \A x \in DOMAIN h \ {b} : /\ g[x].prev = IF x = n THEN a ELSE h[x].prev
                                   /\ g[x].next = IF x = a THEN n ELSE h[x].next
  BY <1>4, <1>6, <1>8
<1>10. HeadersIn(g)
  <2>1. DOMAIN g \subseteq Start .. End - 1
    BY <1>8, HeadersFields
  <2>2. \A x \in DOMAIN h : h[x].prev \in DOMAIN h \cup {NULL} /\ h[x].next \in DOMAIN h \cup {NULL}
    BY HeadersFields
  <2>3. \A x \in DOMAIN g : g[x].prev \in DOMAIN g \cup {NULL}
    BY <2>2, <1>1, <1>8, <1>9
  <2>4. \A x \in DOMAIN g : g[x].next \in DOMAIN g \cup {NULL}
    BY <2>2, <1>1, <1>2, <1>8, <1>9
  <2> QED
    BY <2>1, <2>3, <2>4, <1>8, HeadersFields
<1> QED
  BY <1>1, <1>8, <1>9, <1>10 DEF Merged

-----------------------------------------------------------------------------
(***************************************************************************)
(* The invariant, in terms of these predicates.                            *)
(***************************************************************************)
CallsIn ==
  /\ DOMAIN live \subseteq Chunks
  /\ \A c \in DOMAIN live : live[c] \in Request
  /\ pc \in {"idle", "malloc", "free"}
  /\ pc = "malloc" => want \in Request /\ chunk \in Free \cup {NULL}
  /\ pc = "free" => chunk \in Chunks /\ i \in Free /\ j \in Free \cup {NULL}

LEMMA Parts ==
  HeapOK <=> /\ HeadersIn(hdr) /\ TiledIn(hdr) /\ ListIn(hdr, Free, first_free)
             /\ CallsIn /\ BlockFits /\ LinksOK /\ SizesOK /\ CallOK
BY DEF HeapOK, TypeOK, Tiled, FreeListOK, HeadersIn, TiledIn, ListIn, Linked, CallsIn,
       Chunks, ChunkEnd

LEMMA PartsAfter ==
  ASSUME HeadersIn(hdr'), TiledIn(hdr'), ListIn(hdr', Free', first_free'),
         CallsIn', BlockFits', LinksOK', SizesOK', CallOK'
  PROVE  HeapOK'
BY DEF HeapOK, TypeOK, Tiled, FreeListOK, HeadersIn, TiledIn, ListIn, Linked, CallsIn,
       Chunks, ChunkEnd

\* What every proof below takes from the invariant.
LEMMA Facts ==
  ASSUME HeapOK
  PROVE  /\ HeadersIn(hdr) /\ Records(hdr) /\ TiledIn(hdr) /\ ListIn(hdr, Free, first_free)
         /\ DOMAIN hdr \subseteq Nat \ {0} /\ Free \subseteq Nat \ {0}
         /\ Free \subseteq DOMAIN hdr /\ NULL \notin DOMAIN hdr
         /\ DOMAIN live \cap Free = {} /\ DOMAIN live \subseteq DOMAIN hdr
         /\ \A c \in DOMAIN hdr : c % 16 = 0 /\ hdr[c].size \in Nat
         /\ \A c \in Free : /\ hdr[c].next \in Free \cup {NULL} /\ hdr[c].next # c
                            /\ hdr[c].prev \in Free \cup {NULL} /\ hdr[c].prev # c
<1>1. /\ HeadersIn(hdr) /\ TiledIn(hdr) /\ ListIn(hdr, Free, first_free) /\ CallsIn
  BY Parts
<1>2. /\ Records(hdr) /\ DOMAIN hdr \subseteq Nat \ {0} /\ NULL \notin DOMAIN hdr
  BY <1>1, HeadersFields, NotNull
<1>3. /\ Free \subseteq DOMAIN hdr /\ DOMAIN live \cap Free = {}
      /\ DOMAIN live \subseteq DOMAIN hdr
  BY <1>1 DEF Free, Chunks, CallsIn
<1>4. \A c \in DOMAIN hdr : c % 16 = 0 /\ hdr[c].size \in Nat
  BY <1>1, <1>2 DEF TiledIn, Records
<1>5. ASSUME NEW c \in Free
      PROVE  /\ hdr[c].next \in Free \cup {NULL} /\ hdr[c].next # c
             /\ hdr[c].prev \in Free \cup {NULL} /\ hdr[c].prev # c
  <2>1. Linked(hdr, Free, first_free, c) /\ c \in Nat /\ c # NULL
    BY <1>1, <1>2, <1>3 DEF ListIn
  <2>2. /\ hdr[c].next \in Free \cup {NULL} /\ hdr[c].next # c
        /\ hdr[c].prev \in Free \cup {NULL}
    BY <2>1 DEF Linked
  <2>3. hdr[c].prev # c
    BY <2>1, <2>2 DEF Linked
  <2> QED
    BY <2>2, <2>3
<1> QED
  BY <1>1, <1>2, <1>3, <1>4, <1>5

-----------------------------------------------------------------------------
(***************************************************************************)
(* The steps.                                                              *)
(***************************************************************************)

\* A step of a call that leaves the headers, the list and the blocks alone, and
\* the set of free chunks too.
LEMMA QuietStep ==
  ASSUME HeapOK, UNCHANGED <<hdr, first_free, live>>, Free' = Free, CallsIn', CallOK'
  PROVE  HeapOK'
<1>1. /\ HeadersIn(hdr') /\ TiledIn(hdr') /\ ListIn(hdr', Free', first_free')
      /\ BlockFits /\ LinksOK /\ SizesOK
  BY Parts
<1>2. BlockFits' /\ LinksOK' /\ SizesOK'
  BY <1>1 DEF BlockFits, LinksOK, SizesOK, Chunks
<1> QED
  BY <1>1, <1>2, PartsAfter

LEMMA kmallocStep ==
  ASSUME HeapOK, NEW n \in Request, kmalloc(n)
  PROVE  HeapOK'
<1> USE DEF kmalloc
<1>1. CallsIn /\ ListIn(hdr, Free, first_free)
  BY Parts
<1>2. Free' = Free
  BY DEF Free, Chunks
<1>3. CallsIn'
  BY <1>1, <1>2 DEF CallsIn, Chunks, ListIn
<1>4. CallOK'
  BY DEF CallOK
<1> QED
  BY <1>2, <1>3, <1>4, QuietStep

LEMMA MallocSkipStep ==
  ASSUME HeapOK, MallocSkip
  PROVE  HeapOK'
<1> USE DEF MallocSkip
<1>1. CallsIn
  BY Parts
<1>2. Free' = Free
  BY DEF Free, Chunks
<1>3. chunk \in Free
  BY <1>1 DEF CallsIn
<1>4. hdr[chunk].next \in Free \cup {NULL}
  BY <1>3, Facts
<1>5. CallsIn'
  BY <1>1, <1>2, <1>4 DEF CallsIn, Chunks
<1>6. CallOK'
  BY DEF CallOK
<1> QED
  BY <1>2, <1>5, <1>6, QuietStep

LEMMA MallocFailStep ==
  ASSUME HeapOK, MallocFail
  PROVE  HeapOK'
<1> USE DEF MallocFail, EndCall
<1>1. CallsIn
  BY Parts
<1>2. Free' = Free
  BY DEF Free, Chunks
<1>3. CallsIn'
  BY <1>1, <1>2 DEF CallsIn, Chunks
<1>4. CallOK'
  BY DEF CallOK
<1> QED
  BY <1>2, <1>3, <1>4, QuietStep

LEMMA FreeAdvanceStep ==
  ASSUME HeapOK, FreeAdvance
  PROVE  HeapOK'
<1> USE DEF FreeAdvance
<1>1. CallsIn /\ CallOK
  BY Parts
<1>2. Free' = Free
  BY DEF Free, Chunks
<1>3. j \in Free /\ i \in Free /\ chunk \in Chunks /\ chunk \notin Free
  BY <1>1 DEF CallsIn, Free
<1>4. hdr[j].next \in Free \cup {NULL}
  BY <1>3, Facts
<1>5. CallsIn'
  BY <1>1, <1>2, <1>3, <1>4 DEF CallsIn, Chunks
<1>6. CallOK'
  <2>1. j \in Nat /\ chunk \in Nat /\ i \in Nat /\ j # chunk
    BY <1>3, Facts DEF Chunks
  <2>2. j < chunk
    BY <2>1, <1>1 DEF CallOK
  <2> QED
    BY <2>2, <1>1 DEF CallOK
<1> QED
  BY <1>2, <1>5, <1>6, QuietStep

\* The headers after a chunk is taken: its size fits the request.
LEMMA MallocWholeStep ==
  ASSUME HeapOK, MallocWhole
  PROVE  HeapOK'
<1> USE DEF MallocWhole
<1>1. CallsIn /\ BlockFits /\ LinksOK /\ SizesOK
  BY Parts
<1>2. chunk \in Free /\ want \in Request
  BY <1>1 DEF CallsIn
<1>3. /\ HeadersIn(hdr) /\ TiledIn(hdr) /\ ListIn(hdr, Free, first_free)
      /\ Free \subseteq DOMAIN hdr /\ Free \subseteq Nat \ {0}
      /\ chunk \in DOMAIN hdr /\ chunk \notin DOMAIN live
      /\ DOMAIN live \subseteq DOMAIN hdr
      /\ hdr[chunk].prev # chunk /\ hdr[chunk].next # chunk /\ hdr[chunk].size \in Nat
  BY <1>2, Facts
<1>4. /\ DOMAIN hdr' = DOMAIN hdr /\ HeadersIn(hdr')
      /\ \A x \in DOMAIN hdr : hdr'[x].size = hdr[x].size
      /\ hdr'[chunk].prev = NULL /\ hdr'[chunk].next = NULL
      /\ \A x \in DOMAIN hdr \ {chunk} :
           /\ hdr'[x].prev = IF x = hdr[chunk].next THEN hdr[chunk].prev ELSE hdr[x].prev
           /\ hdr'[x].next = IF x = hdr[chunk].prev THEN hdr[chunk].next ELSE hdr[x].next
  BY <1>3, UnlinkFields
<1>5. DOMAIN live' = DOMAIN live \cup {chunk}
  BY DEF Take
<1>6. Free' = Free \ {chunk}
  BY <1>4, <1>5, <1>1 DEF Free, Chunks, EndCall
<1>7. TiledIn(hdr')
  BY <1>3, <1>4, TileFrame
<1>8. ListIn(hdr', Free', first_free')
  <2>1. \A x \in Free \ {chunk} :
          /\ hdr'[x].prev = IF x = hdr[chunk].next THEN hdr[chunk].prev ELSE hdr[x].prev
          /\ hdr'[x].next = IF x = hdr[chunk].prev THEN hdr[chunk].next ELSE hdr[x].next
    BY <1>3, <1>4
  <2> QED
    BY <2>1, <1>2, <1>3, <1>6, ListRemove
<1>9. CallsIn'
  BY <1>1, <1>2, <1>3, <1>4, <1>5 DEF CallsIn, Chunks, EndCall, Take
<1>10. BlockFits'
  <2>1. hdr[chunk].size >= want
    <3>1. want \in Nat
      BY <1>2, HeapAssumption
    <3>2. Bytes \in Nat /\ want <= Bytes
      BY <3>1, RoundUpFacts DEF Bytes
    <3> QED
      BY <1>3, <3>1, <3>2
  <2>2. \A c \in DOMAIN live : hdr'[c].size = hdr[c].size /\ live'[c] = live[c]
    BY <1>3, <1>4, <1>5 DEF Take
  <2>3. hdr'[chunk].size = hdr[chunk].size /\ live'[chunk] = want
    BY <1>3, <1>4 DEF Take
  <2> QED
    BY <2>1, <2>2, <2>3, <1>1, <1>5 DEF BlockFits
<1>11. LinksOK'
  <2> SUFFICES ASSUME NEW x \in DOMAIN hdr, x \notin Free \/ x = chunk
               PROVE  hdr'[x].prev = NULL /\ hdr'[x].next = NULL
    BY <1>4, <1>6 DEF LinksOK, Chunks
  <2>1. CASE x # chunk
    <3>1. x # hdr[chunk].prev /\ x # hdr[chunk].next
      BY <2>1, <1>2, Facts
    <3> QED
      BY <2>1, <3>1, <1>1, <1>4 DEF LinksOK, Chunks
  <2> QED
    BY <2>1, <1>4
<1>12. SizesOK'
  BY <1>1, <1>4 DEF SizesOK, Chunks
<1>13. CallOK'
  BY DEF CallOK, EndCall
<1> QED
  BY <1>4, <1>7, <1>8, <1>9, <1>10, <1>11, <1>12, <1>13, PartsAfter

\* divideChunk() never refuses here; the second part takes the place of the chunk
\* on the list.
LEMMA MallocSplitStep ==
  ASSUME HeapOK, MallocSplit
  PROVE  HeapOK'
<1>1. CallsIn /\ BlockFits /\ LinksOK /\ SizesOK
  BY Parts
<1>2. chunk \in Free /\ want \in Request /\ want \in Nat \ {0}
  BY <1>1, HeapAssumption DEF CallsIn, MallocSplit
<1>3. /\ HeadersIn(hdr) /\ TiledIn(hdr) /\ ListIn(hdr, Free, first_free)
      /\ Free \subseteq DOMAIN hdr /\ Free \subseteq Nat \ {0} /\ chunk \in DOMAIN hdr
      /\ chunk \notin DOMAIN live /\ DOMAIN live \subseteq DOMAIN hdr
      /\ chunk \in Nat /\ hdr[chunk].size \in Nat /\ chunk % 16 = 0
      /\ hdr[chunk].prev # chunk /\ hdr[chunk].next # chunk
      /\ hdr[chunk].next \in Free \cup {NULL} /\ hdr[chunk].prev \in Free \cup {NULL}
      /\ NULL \notin DOMAIN hdr
  BY <1>2, Facts
<1>4. PICK c2, s, sz : c2 = SplitAt(chunk, Bytes) /\ s = SplitSize(Bytes) /\ sz = hdr[chunk].size
  OBVIOUS
<1>5. /\ s \in Nat /\ s % 4 = 0 /\ s >= want /\ c2 \in Nat /\ c2 % 16 = 0
      /\ c2 - (chunk + Header + s) \in 0 .. 15
      /\ sz > s + Header + 15
      /\ sz - (c2 - chunk) \in Nat /\ (sz - (c2 - chunk)) % 4 = 0
  <2>1. sz % 4 = 0 /\ sz \in Nat
    BY <1>1, <1>3, <1>4 DEF SizesOK, Chunks
  <2>2. Bytes = RoundUp(want, 4)
    BY DEF Bytes
  <2>3. sz - Bytes > 48
    BY <1>4 DEF MallocSplit
  <2> QED
    BY <1>2, <1>3, <1>4, <2>1, <2>2, <2>3, SplitFacts
<1>6. chunk < c2 /\ c2 < chunk + Header + sz /\ sz \in Nat /\ chunk + Header + sz <= End
  <2>1. sz \in Nat /\ chunk + Header + sz <= End
    BY <1>3, <1>4, TileEnds
  <2> QED
    BY <2>1, <1>3, <1>5 DEF Header
<1>7. \A e \in DOMAIN hdr : chunk < e => c2 < e
  <2> SUFFICES ASSUME NEW e \in DOMAIN hdr, chunk < e PROVE c2 < e
    OBVIOUS
  <2>1. chunk + Header + sz <= e /\ e \in Nat
    BY <1>3, <1>4, TileEnds, Facts
  <2> QED
    BY <2>1, <1>3, <1>5, <1>6 DEF Header
<1>8. c2 \notin DOMAIN hdr
  BY <1>5, <1>6, <1>7
<1>9. c2 \in Start .. End - 1
  <2>1. Start <= chunk /\ Start \in Nat /\ End \in Nat
    BY <1>3, HeapAssumption DEF HeadersIn
  <2> QED
    BY <2>1, <1>3, <1>5, <1>6 DEF Header
<1>10. PICK g : g = divideChunk(hdr, chunk, Bytes)
  OBVIOUS
<1>11. /\ DOMAIN g = DOMAIN hdr \cup {c2} /\ HeadersIn(g)
       /\ g[chunk].size = s
       /\ g[c2].size = sz - (c2 - chunk) /\ g[c2].prev = chunk /\ g[c2].next = hdr[chunk].next
       /\ \A x \in DOMAIN hdr \ {chunk} : g[x].size = hdr[x].size
       /\ \A x \in DOMAIN hdr :
            /\ g[x].prev = IF x = hdr[chunk].next THEN c2 ELSE hdr[x].prev
            /\ g[x].next = IF x = chunk THEN c2 ELSE hdr[x].next
  <2>1. hdr[chunk].size - (c2 - chunk) \in Nat
    BY <1>4, <1>5
  <2>2. Divided(hdr, g, chunk, c2, s)
    BY <2>1, <1>3, <1>4, <1>5, <1>8, <1>9, <1>10, DivideFields
  <2> QED
    BY <2>2, <1>4 DEF Divided
<1>12. TiledIn(g)
  BY <1>3, <1>4, <1>5, <1>6, <1>11, TileSplit
<1>13. ListIn(g, Free \cup {c2}, first_free)
  <2>1. Linked(hdr, Free, first_free, chunk)
    BY <1>2, <1>3 DEF ListIn
  <2>2. hdr[chunk].next # NULL => c2 < hdr[chunk].next
    BY <2>1, <1>3, <1>7 DEF Linked
  <2>3. \A x \in Free : /\ g[x].prev = IF x = hdr[chunk].next THEN c2 ELSE hdr[x].prev
                        /\ g[x].next = IF x = chunk THEN c2 ELSE hdr[x].next
    BY <1>3, <1>11
  <2>4. c2 \in Nat \ Free
    BY <1>3, <1>5, <1>8
  <2> QED
    BY <2>2, <2>3, <2>4, <1>2, <1>3, <1>6, <1>11, ListInsert
<1>14. chunk \in DOMAIN g /\ g[chunk].prev = hdr[chunk].prev /\ g[chunk].next = c2
  BY <1>3, <1>11
<1>15. /\ hdr' = unlink(g, chunk)
       /\ first_free' = IF chunk = first_free THEN c2 ELSE first_free
  <2>1. CanDivide(hdr, chunk, Bytes)
    BY <1>4, <1>5 DEF CanDivide
  <2> QED
    BY <2>1, <1>4, <1>10 DEF MallocSplit
<1>16. chunk # c2
  BY <1>3, <1>8
<1>17. /\ DOMAIN hdr' = DOMAIN hdr \cup {c2} /\ HeadersIn(hdr')
       /\ \A x \in DOMAIN g : hdr'[x].size = g[x].size
       /\ hdr'[chunk].prev = NULL /\ hdr'[chunk].next = NULL
       /\ \A x \in DOMAIN g \ {chunk} :
            /\ hdr'[x].prev = IF x = c2 THEN hdr[chunk].prev ELSE g[x].prev
            /\ hdr'[x].next = IF x = hdr[chunk].prev THEN c2 ELSE g[x].next
  <2>1. g[chunk].prev # chunk /\ g[chunk].next # chunk
    BY <1>3, <1>14, <1>16
  <2>2. /\ DOMAIN hdr' = DOMAIN g /\ HeadersIn(hdr')
        /\ \A x \in DOMAIN g : hdr'[x].size = g[x].size
        /\ hdr'[chunk].prev = NULL /\ hdr'[chunk].next = NULL
        /\ \A x \in DOMAIN g \ {chunk} :
            /\ hdr'[x].prev = IF x = g[chunk].next THEN g[chunk].prev ELSE g[x].prev
            /\ hdr'[x].next = IF x = g[chunk].prev THEN g[chunk].next ELSE g[x].next
    BY <2>1, <1>11, <1>14, <1>15, UnlinkFields
  <2> QED
    BY <2>2, <1>11, <1>14
<1>18. DOMAIN live' = DOMAIN live \cup {chunk}
  BY DEF Take, MallocSplit
<1>19. Free' = (Free \cup {c2}) \ {chunk}
  <2>1. pc = "malloc" /\ pc' = "idle"
    BY DEF MallocSplit, EndCall
  <2>2. c2 \notin DOMAIN live
    BY <1>3, <1>8
  <2> QED
    BY <2>1, <2>2, <1>16, <1>17, <1>18 DEF Free, Chunks
<1>20. TiledIn(hdr')
  BY <1>11, <1>12, <1>17, TileFrame
<1>21. ListIn(hdr', Free', first_free')
  <2>1. \A x \in (Free \cup {c2}) \ {chunk} :
          /\ hdr'[x].prev = IF x = g[chunk].next THEN g[chunk].prev ELSE g[x].prev
          /\ hdr'[x].next = IF x = g[chunk].prev THEN g[chunk].next ELSE g[x].next
    BY <1>3, <1>11, <1>14, <1>17
  <2>2. Free \cup {c2} \subseteq Nat \ {0} /\ chunk \in Free \cup {c2}
    BY <1>2, <1>3, <1>5, <1>6
  <2>3. ListIn(hdr', (Free \cup {c2}) \ {chunk},
               IF chunk = first_free THEN g[chunk].next ELSE first_free)
    BY <2>1, <2>2, <1>13, ListRemove
  <2> QED
    BY <2>3, <1>14, <1>15, <1>19
<1>22. CallsIn'
  BY <1>1, <1>2, <1>3, <1>17, <1>18 DEF CallsIn, Chunks, EndCall, Take, MallocSplit
<1>23. BlockFits'
  <2>1. \A c \in DOMAIN live : hdr'[c].size = hdr[c].size /\ live'[c] = live[c]
    BY <1>3, <1>11, <1>17, <1>18 DEF Take, MallocSplit
  <2>2. hdr'[chunk].size = s /\ live'[chunk] = want
    BY <1>3, <1>11, <1>14, <1>17 DEF Take, MallocSplit
  <2> QED
    BY <2>1, <2>2, <1>1, <1>5, <1>18 DEF BlockFits
<1>24. LinksOK'
  <2> SUFFICES ASSUME NEW x \in DOMAIN hdr, x \notin Free \/ x = chunk
               PROVE  hdr'[x].prev = NULL /\ hdr'[x].next = NULL
    BY <1>17, <1>19, <1>16 DEF LinksOK, Chunks
  <2>1. CASE x # chunk
    <3>1. x # hdr[chunk].prev /\ x # hdr[chunk].next /\ x # c2
      BY <2>1, <1>3, <1>8
    <3>2. hdr[x].prev = NULL /\ hdr[x].next = NULL
      BY <2>1, <1>1 DEF LinksOK, Chunks
    <3> QED
      BY <2>1, <3>1, <3>2, <1>11, <1>17
  <2> QED
    BY <2>1, <1>17
<1>25. SizesOK'
  <2>1. \A x \in DOMAIN hdr \ {chunk} : hdr[x].size % 4 = 0
    BY <1>1 DEF SizesOK, Chunks
  <2>2. \A x \in DOMAIN g : g[x].size % 4 = 0
    BY <2>1, <1>5, <1>11
  <2> QED
    BY <2>2, <1>11, <1>17 DEF SizesOK, Chunks
<1>26. CallOK'
  BY DEF CallOK, EndCall, MallocSplit
<1> QED
  BY <1>17, <1>20, <1>21, <1>22, <1>23, <1>24, <1>25, <1>26, PartsAfter

\* kfree() when the list is empty, or when the chunk is below its head.
LEMMA kfreeStep ==
  ASSUME HeapOK, NEW c \in DOMAIN live, kfree(c)
  PROVE  HeapOK'
<1>1. CallsIn /\ BlockFits /\ LinksOK /\ SizesOK
  BY Parts
<1>2. /\ HeadersIn(hdr) /\ TiledIn(hdr) /\ ListIn(hdr, Free, first_free) /\ Records(hdr)
      /\ Free \subseteq DOMAIN hdr /\ Free \subseteq Nat \ {0}
      /\ c \in DOMAIN hdr /\ c \in Nat \ {0} /\ c \notin Free
      /\ DOMAIN live \subseteq DOMAIN hdr /\ NULL \notin DOMAIN hdr
  BY Facts
<1>3. DOMAIN live' = DOMAIN live \ {c} /\ \A x \in DOMAIN live' : live'[x] = live[x]
  BY DEF kfree, Without
<1>4. pc = "idle"
  BY DEF kfree
<1>5. hdr[c].prev = NULL /\ hdr[c].next = NULL
  BY <1>1, <1>2 DEF LinksOK, Chunks
<1>6. first_free # NULL => first_free \in Free /\ first_free \in Nat
  BY <1>2 DEF ListIn
<1>7. c # NULL
  BY <1>2
<1>8. CASE first_free = NULL
  <2>1. UNCHANGED <<hdr, pc, want, chunk, i, j>> /\ first_free' = c
    BY <1>8 DEF kfree
  <2>2. Free' = Free \cup {c}
    BY <2>1, <1>2, <1>3, <1>4 DEF Free, Chunks
  <2>3. ListIn(hdr', Free', first_free')
    <3>1. \A x \in Free : /\ hdr[x].prev = IF x = first_free THEN c ELSE hdr[x].prev
                          /\ hdr[x].next = hdr[x].next
      BY <1>2, <1>8
    <3>2. c \in Nat \ Free
      BY <1>2
    <3>3. ListIn(hdr, Free \cup {c}, c)
      BY <3>1, <3>2, <1>2, <1>5, <1>7, <1>8, ListPush
    <3> QED
      BY <3>3, <2>1, <2>2
  <2>4. CallsIn'
    BY <2>1, <1>1, <1>3, <1>4 DEF CallsIn, Chunks
  <2>5. BlockFits' /\ LinksOK' /\ SizesOK' /\ CallOK'
    BY <2>1, <2>2, <1>1, <1>3, <1>4 DEF BlockFits, LinksOK, SizesOK, CallOK, Chunks
  <2>6. HeadersIn(hdr') /\ TiledIn(hdr')
    BY <2>1, <1>2
  <2> QED
    BY <2>3, <2>4, <2>5, <2>6, PartsAfter
<1>9. CASE first_free # NULL /\ c < first_free
  <2>1. /\ UNCHANGED <<pc, want, chunk, i, j>> /\ first_free' = c
        /\ hdr' = [hdr EXCEPT ![c].prev = NULL, ![c].next = first_free, ![first_free].prev = c]
    BY <1>9, <1>2, <1>6 DEF kfree
  <2>2. first_free # c /\ first_free \in DOMAIN hdr
    BY <1>2, <1>6, <1>9
  <2>3. /\ DOMAIN hdr' = DOMAIN hdr /\ Records(hdr')
        /\ \A x \in DOMAIN hdr : hdr'[x].size = hdr[x].size
        /\ hdr'[c].prev = NULL /\ hdr'[c].next = first_free
        /\ \A x \in DOMAIN hdr \ {c} : /\ hdr'[x].prev = IF x = first_free THEN c ELSE hdr[x].prev
                                       /\ hdr'[x].next = hdr[x].next
    <3>1. PICK h1 : h1 = [hdr EXCEPT ![c].prev = NULL]
      OBVIOUS
    <3>2. /\ DOMAIN h1 = DOMAIN hdr /\ Records(h1) /\ h1[c].prev = NULL
          /\ \A x \in DOMAIN hdr : h1[x].size = hdr[x].size
          /\ \A x \in DOMAIN hdr \ {c} : h1[x] = hdr[x]
      BY <3>1, <1>2 DEF Records, NULL
    <3>3. PICK h2 : h2 = [h1 EXCEPT ![c].next = first_free]
      OBVIOUS
    <3>4. /\ DOMAIN h2 = DOMAIN hdr /\ Records(h2) /\ h2[c].prev = NULL /\ h2[c].next = first_free
          /\ \A x \in DOMAIN hdr : h2[x].size = h1[x].size
          /\ \A x \in DOMAIN hdr \ {c} : h2[x] = h1[x]
      BY <3>2, <3>3, <1>2, <1>6, <1>9 DEF Records
    <3>5. hdr' = [h2 EXCEPT ![first_free].prev = c]
      BY <2>1, <2>2, <3>1, <3>2, <3>3, <3>4, <1>2
    <3>6. /\ DOMAIN hdr' = DOMAIN hdr /\ Records(hdr') /\ hdr'[first_free].prev = c
          /\ hdr'[first_free].next = h2[first_free].next
          /\ \A x \in DOMAIN hdr : hdr'[x].size = h2[x].size
          /\ \A x \in DOMAIN hdr \ {first_free} : hdr'[x] = h2[x]
      BY <2>2, <3>4, <3>5, <1>2 DEF Records
    <3>7. \A x \in DOMAIN hdr : hdr'[x].size = hdr[x].size
      BY <3>2, <3>4, <3>6
    <3>8. hdr'[c].prev = NULL /\ hdr'[c].next = first_free
      BY <2>2, <3>4, <3>6, <1>2
    <3>9. ASSUME NEW x \in DOMAIN hdr \ {c}
          PROVE  /\ hdr'[x].prev = IF x = first_free THEN c ELSE hdr[x].prev
                 /\ hdr'[x].next = hdr[x].next
      <4>1. h2[x] = hdr[x]
        BY <3>2, <3>4
      <4> QED
        BY <4>1, <3>6
    <3> QED
      BY <3>6, <3>7, <3>8, <3>9
  <2>4. Free' = Free \cup {c}
    BY <2>1, <2>3, <1>2, <1>3, <1>4 DEF Free, Chunks
  <2>5. HeadersIn(hdr')
    <3>1. \A x \in DOMAIN hdr' : /\ hdr'[x].prev \in DOMAIN hdr' \cup {NULL}
                                 /\ hdr'[x].next \in DOMAIN hdr' \cup {NULL}
      BY <2>2, <2>3, <1>2, HeadersFields
    <3> QED
      BY <2>3, <3>1, <1>2, HeadersFields
  <2>6. TiledIn(hdr')
    BY <2>3, <1>2, TileFrame
  <2>7. ListIn(hdr', Free', first_free')
    <3>1. \A x \in Free : /\ hdr'[x].prev = IF x = first_free THEN c ELSE hdr[x].prev
                          /\ hdr'[x].next = hdr[x].next
      BY <2>3, <1>2
    <3>2. c \in Nat \ Free
      BY <1>2
    <3>3. ListIn(hdr', Free \cup {c}, c)
      BY <3>1, <3>2, <2>3, <1>2, <1>7, <1>9, ListPush
    <3> QED
      BY <3>3, <2>1, <2>4
  <2>8. CallsIn'
    BY <2>1, <2>3, <1>1, <1>3, <1>4 DEF CallsIn, Chunks
  <2>9. BlockFits' /\ SizesOK' /\ CallOK'
    BY <2>1, <2>3, <1>1, <1>2, <1>3, <1>4 DEF BlockFits, SizesOK, CallOK, Chunks
  <2>10. LinksOK'
    <3> SUFFICES ASSUME NEW x \in DOMAIN hdr, x \notin Free, x # c
                 PROVE  hdr'[x].prev = NULL /\ hdr'[x].next = NULL
      BY <2>3, <2>4 DEF LinksOK, Chunks
    <3> QED
      BY <2>3, <1>1, <1>6, <1>9 DEF LinksOK, Chunks
  <2> QED
    BY <2>5, <2>6, <2>7, <2>8, <2>9, <2>10, PartsAfter
<1>10. CASE first_free # NULL /\ ~(c < first_free)
  <2>1. /\ UNCHANGED <<hdr, first_free, want>>
        /\ pc' = "free" /\ chunk' = c /\ i' = first_free /\ j' = hdr[first_free].next
    BY <1>10, <1>2, <1>6 DEF kfree
  <2>2. Free' = Free
    BY <2>1, <1>2, <1>3, <1>4 DEF Free, Chunks
  <2>3. hdr[first_free].next \in Free \cup {NULL} /\ first_free \in Free
    BY <1>6, <1>10, Facts
  <2>4. first_free < c
    BY <2>3, <1>2, <1>6, <1>10
  <2>5. CallsIn' /\ CallOK'
    BY <2>1, <2>2, <2>3, <2>4, <1>1, <1>2, <1>3 DEF CallsIn, CallOK, Chunks
  <2>6. BlockFits' /\ LinksOK' /\ SizesOK'
    BY <2>1, <2>2, <1>1, <1>3 DEF BlockFits, LinksOK, SizesOK, Chunks
  <2>7. HeadersIn(hdr') /\ TiledIn(hdr') /\ ListIn(hdr', Free', first_free')
    BY <2>1, <2>2, <1>2
  <2> QED
    BY <2>5, <2>6, <2>7, PartsAfter
<1> QED
  BY <1>8, <1>9, <1>10

\* The chunk goes behind i: before j, or at the end of the list.
LEMMA FreeLinkStep ==
  ASSUME HeapOK, pc = "free", chunk > i, j # NULL => chunk < j, EndCall,
         UNCHANGED <<first_free, live>>, DOMAIN hdr' = DOMAIN hdr, Records(hdr'),
         hdr'[chunk].prev = i, hdr'[chunk].next = j,
         \A x \in DOMAIN hdr : hdr'[x].size = hdr[x].size,
         \A x \in DOMAIN hdr \ {chunk} :
           /\ hdr'[x].prev = IF x = j THEN chunk ELSE hdr[x].prev
           /\ hdr'[x].next = IF x = i THEN chunk ELSE hdr[x].next
  PROVE  HeapOK'
<1>1. CallsIn /\ BlockFits /\ LinksOK /\ SizesOK /\ CallOK
  BY Parts
<1>2. /\ HeadersIn(hdr) /\ TiledIn(hdr) /\ ListIn(hdr, Free, first_free)
      /\ Free \subseteq DOMAIN hdr /\ Free \subseteq Nat \ {0} /\ DOMAIN hdr \subseteq Nat \ {0}
      /\ DOMAIN live \subseteq DOMAIN hdr /\ NULL \notin DOMAIN hdr
  BY Facts
<1>3. /\ chunk \in DOMAIN hdr /\ chunk \notin Free /\ chunk \notin DOMAIN live
      /\ i \in Free /\ j \in Free \cup {NULL} /\ hdr[i].next = j /\ chunk \in Nat
  BY <1>1, <1>2 DEF CallsIn, CallOK, Free, Chunks
<1>4. Free' = Free \cup {chunk}
  BY <1>2, <1>3 DEF Free, Chunks, EndCall
<1>5. HeadersIn(hdr')
  <2>1. \A x \in DOMAIN hdr : hdr[x].prev \in DOMAIN hdr \cup {NULL} /\ hdr[x].next \in DOMAIN hdr \cup {NULL}
    BY <1>2, HeadersFields
  <2>2. \A x \in DOMAIN hdr : hdr'[x].prev \in DOMAIN hdr \cup {NULL}
    BY <2>1, <1>2, <1>3
  <2>3. \A x \in DOMAIN hdr : hdr'[x].next \in DOMAIN hdr \cup {NULL}
    BY <2>1, <1>2, <1>3
  <2> QED
    BY <2>2, <2>3, <1>2, HeadersFields
<1>6. TiledIn(hdr')
  BY <1>2, TileFrame
<1>7. ListIn(hdr', Free', first_free')
  <2>1. \A x \in Free : /\ hdr'[x].prev = IF x = hdr[i].next THEN chunk ELSE hdr[x].prev
                        /\ hdr'[x].next = IF x = i THEN chunk ELSE hdr[x].next
    BY <1>2, <1>3
  <2>2. chunk \in Nat \ Free /\ i < chunk
    BY <1>1, <1>3 DEF CallOK
  <2>3. hdr[i].next # NULL => chunk < hdr[i].next
    BY <1>3
  <2>4. ListIn(hdr', Free \cup {chunk}, first_free)
    BY <2>1, <2>2, <2>3, <1>2, <1>3, ListInsert
  <2> QED
    BY <2>4, <1>4
<1>8. CallsIn'
  BY <1>1 DEF CallsIn, Chunks, EndCall
<1>9. BlockFits' /\ SizesOK' /\ CallOK'
  BY <1>1, <1>2 DEF BlockFits, SizesOK, CallOK, Chunks, EndCall
<1>10. LinksOK'
  <2> SUFFICES ASSUME NEW x \in DOMAIN hdr, x \notin Free, x # chunk
               PROVE  hdr'[x].prev = NULL /\ hdr'[x].next = NULL
    BY <1>4 DEF LinksOK, Chunks
  <2>1. x # i /\ x # j
    BY <1>2, <1>3
  <2> QED
    BY <2>1, <1>1 DEF LinksOK, Chunks
<1> QED
  BY <1>5, <1>6, <1>7, <1>8, <1>9, <1>10, PartsAfter

LEMMA FreeAppendStep ==
  ASSUME HeapOK, FreeAppend
  PROVE  HeapOK'
<1> USE DEF FreeAppend
<1>1. CallsIn /\ CallOK
  BY Parts
<1>2. /\ Records(hdr) /\ i \in DOMAIN hdr /\ chunk \in DOMAIN hdr
      /\ i \in Nat /\ chunk \in Nat /\ i # chunk /\ chunk > i
  <2>1. i \in Free /\ chunk \in DOMAIN hdr /\ i < chunk
    BY <1>1 DEF CallsIn, CallOK, Chunks
  <2>2. Records(hdr) /\ Free \subseteq DOMAIN hdr /\ DOMAIN hdr \subseteq Nat \ {0}
    BY Facts
  <2> QED
    BY <2>1, <2>2
<1>3. PICK h1 : h1 = [hdr EXCEPT ![i].next = chunk]
  OBVIOUS
<1>4. /\ DOMAIN h1 = DOMAIN hdr /\ Records(h1) /\ h1[i].next = chunk
      /\ h1[i].prev = hdr[i].prev /\ h1[i].size = hdr[i].size
      /\ \A x \in DOMAIN hdr \ {i} : h1[x] = hdr[x]
  BY <1>2, <1>3 DEF Records
<1>5. PICK h2 : h2 = [h1 EXCEPT ![chunk].prev = i]
  OBVIOUS
<1>6. /\ DOMAIN h2 = DOMAIN hdr /\ Records(h2) /\ h2[chunk].prev = i
      /\ h2[chunk].size = h1[chunk].size
      /\ \A x \in DOMAIN hdr \ {chunk} : h2[x] = h1[x]
  BY <1>2, <1>4, <1>5 DEF Records
<1>7. hdr' = [h2 EXCEPT ![chunk].next = NULL]
  BY <1>2, <1>3, <1>4, <1>5, <1>6
<1>8. /\ DOMAIN hdr' = DOMAIN hdr /\ Records(hdr') /\ hdr'[chunk].next = NULL
      /\ hdr'[chunk].prev = h2[chunk].prev /\ hdr'[chunk].size = h2[chunk].size
      /\ \A x \in DOMAIN hdr \ {chunk} : hdr'[x] = h2[x]
  <2>1. NULL \in Nat
    BY DEF NULL
  <2> QED
    BY <2>1, <1>2, <1>6, <1>7 DEF Records
<1>9. ASSUME NEW x \in DOMAIN hdr \ {chunk}
      PROVE  /\ hdr'[x].prev = IF x = j THEN chunk ELSE hdr[x].prev
             /\ hdr'[x].next = IF x = i THEN chunk ELSE hdr[x].next
             /\ hdr'[x].size = hdr[x].size
  <2>1. x # j
    BY Facts
  <2> QED
    BY <2>1, <1>4, <1>6, <1>8
<1>10. hdr'[chunk].prev = i /\ hdr'[chunk].next = j /\ hdr'[chunk].size = hdr[chunk].size
  BY <1>2, <1>4, <1>6, <1>8
<1>11. \A x \in DOMAIN hdr : hdr'[x].size = hdr[x].size
  BY <1>9, <1>10
<1> QED
  BY <1>2, <1>8, <1>9, <1>10, <1>11, FreeLinkStep

LEMMA FreeInsertStep ==
  ASSUME HeapOK, FreeInsert
  PROVE  HeapOK'
<1>1. CallsIn /\ CallOK
  BY Parts
<1>2. /\ Records(hdr) /\ i \in DOMAIN hdr /\ chunk \in DOMAIN hdr /\ j \in DOMAIN hdr
      /\ i \in Nat /\ chunk \in Nat /\ j \in Nat /\ i # chunk /\ j # chunk /\ i # j
  <2>1. i \in Free /\ j \in Free /\ chunk \in DOMAIN hdr
    BY <1>1 DEF FreeInsert, CallsIn, Chunks
  <2>2. Records(hdr) /\ Free \subseteq DOMAIN hdr /\ DOMAIN hdr \subseteq Nat \ {0}
    BY Facts
  <2> QED
    BY <2>1, <2>2 DEF FreeInsert
<1>3. PICK h1 : h1 = [hdr EXCEPT ![i].next = chunk]
  OBVIOUS
<1>4. /\ DOMAIN h1 = DOMAIN hdr /\ Records(h1) /\ h1[i].next = chunk
      /\ h1[i].prev = hdr[i].prev /\ h1[i].size = hdr[i].size
      /\ \A x \in DOMAIN hdr \ {i} : h1[x] = hdr[x]
  BY <1>2, <1>3 DEF Records
<1>5. PICK h2 : h2 = [h1 EXCEPT ![chunk].prev = i]
  OBVIOUS
<1>6. /\ DOMAIN h2 = DOMAIN hdr /\ Records(h2) /\ h2[chunk].prev = i
      /\ h2[chunk].size = h1[chunk].size
      /\ \A x \in DOMAIN hdr \ {chunk} : h2[x] = h1[x]
  BY <1>2, <1>4, <1>5 DEF Records
<1>7. PICK h3 : h3 = [h2 EXCEPT ![chunk].next = j]
  OBVIOUS
<1>8. /\ DOMAIN h3 = DOMAIN hdr /\ Records(h3) /\ h3[chunk].next = j
      /\ h3[chunk].prev = h2[chunk].prev /\ h3[chunk].size = h2[chunk].size
      /\ \A x \in DOMAIN hdr \ {chunk} : h3[x] = h2[x]
  BY <1>2, <1>6, <1>7 DEF Records
<1>9. hdr' = [h3 EXCEPT ![j].prev = chunk]
  BY <1>2, <1>3, <1>4, <1>5, <1>6, <1>7, <1>8 DEF FreeInsert
<1>10. /\ DOMAIN hdr' = DOMAIN hdr /\ Records(hdr') /\ hdr'[j].prev = chunk
       /\ hdr'[j].next = h3[j].next /\ hdr'[j].size = h3[j].size
       /\ \A x \in DOMAIN hdr \ {j} : hdr'[x] = h3[x]
  BY <1>2, <1>8, <1>9 DEF Records
<1>11. ASSUME NEW x \in DOMAIN hdr \ {chunk}
       PROVE  /\ hdr'[x].prev = IF x = j THEN chunk ELSE hdr[x].prev
              /\ hdr'[x].next = IF x = i THEN chunk ELSE hdr[x].next
              /\ hdr'[x].size = hdr[x].size
  <2>1. h3[x] = h1[x]
    BY <1>6, <1>8
  <2>2. CASE x = j
    BY <2>1, <2>2, <1>2, <1>4, <1>10
  <2>3. CASE x # j
    BY <2>1, <2>3, <1>2, <1>4, <1>10
  <2> QED
    BY <2>2, <2>3
<1>12. hdr'[chunk].prev = i /\ hdr'[chunk].next = j /\ hdr'[chunk].size = hdr[chunk].size
  BY <1>2, <1>4, <1>6, <1>8, <1>10
<1>13. \A x \in DOMAIN hdr : hdr'[x].size = hdr[x].size
  BY <1>11, <1>12
<1> QED
  BY <1>2, <1>10, <1>11, <1>12, <1>13, FreeLinkStep DEF FreeInsert

\* The free chunk j becomes a part of the free chunk i.
LEMMA FreeMergeStep ==
  ASSUME HeapOK, FreeMerge
  PROVE  HeapOK'
<1>1. CallsIn /\ BlockFits /\ LinksOK /\ SizesOK /\ CallOK
  BY Parts
<1>2. /\ HeadersIn(hdr) /\ TiledIn(hdr) /\ ListIn(hdr, Free, first_free)
      /\ Free \subseteq DOMAIN hdr /\ Free \subseteq Nat \ {0} /\ NULL \notin DOMAIN hdr
      /\ DOMAIN live \subseteq DOMAIN hdr /\ DOMAIN live \cap Free = {}
      /\ \A x \in DOMAIN hdr : hdr[x].size \in Nat
  BY Facts
<1>3. /\ pc = "free" /\ i \in Free /\ j \in Free /\ i \in DOMAIN hdr /\ j \in DOMAIN hdr
      /\ chunk \in DOMAIN hdr /\ chunk \notin Free /\ chunk \notin DOMAIN live
      /\ hdr[i].next = j /\ i < chunk
  BY <1>1, <1>2 DEF FreeMerge, CallsIn, CallOK, Free, Chunks
<1>4. Linked(hdr, Free, first_free, i) /\ Linked(hdr, Free, first_free, j)
  BY <1>2, <1>3 DEF ListIn
<1>5. hdr[j].prev = i /\ j > i /\ i \in Nat /\ j \in Nat /\ i # j /\ j # NULL /\ i # NULL
  BY <1>2, <1>3, <1>4 DEF Linked
<1>6. hdr[j].next \in Free \cup {NULL} /\ hdr[j].next # j /\ hdr[j].next # i
  BY <1>2, <1>4, <1>5 DEF Linked
<1>7. \A x \in DOMAIN hdr \ {i} : hdr[x].next # j
  <2> SUFFICES ASSUME NEW x \in DOMAIN hdr \ {i}, hdr[x].next = j PROVE FALSE
    OBVIOUS
  <2>1. CASE x \in Free
    <3>1. Linked(hdr, Free, first_free, x)
      BY <2>1, <1>2 DEF ListIn
    <3> QED
      BY <3>1, <1>5 DEF Linked
  <2>2. CASE x \notin Free
    BY <2>2, <1>1, <1>5 DEF LinksOK, Chunks
  <2> QED
    BY <2>1, <2>2
<1>8. \A x \in DOMAIN hdr : hdr[x].prev = j => x = hdr[j].next
  <2> SUFFICES ASSUME NEW x \in DOMAIN hdr, hdr[x].prev = j PROVE x = hdr[j].next
    OBVIOUS
  <2>1. CASE x \in Free
    <3>1. Linked(hdr, Free, first_free, x)
      BY <2>1, <1>2 DEF ListIn
    <3> QED
      BY <3>1, <1>5 DEF Linked
  <2>2. CASE x \notin Free
    BY <2>2, <1>1, <1>5 DEF LinksOK, Chunks
  <2> QED
    BY <2>1, <2>2
<1>9. Merged(hdr, hdr', i, j)
  <2>1. hdr' = mergeChunk(hdr, i, j)
    BY DEF FreeMerge
  <2> QED
    BY <2>1, <1>2, <1>3, <1>5, <1>6, <1>7, <1>8, MergeFields
<1>10. /\ DOMAIN hdr' = DOMAIN hdr \ {j} /\ HeadersIn(hdr')
       /\ hdr'[i].size = hdr[i].size + hdr[j].size + Header
       /\ \A x \in DOMAIN hdr \ {i, j} : hdr'[x].size = hdr[x].size
       /\ \A x \in DOMAIN hdr \ {j} :
            /\ hdr'[x].prev = IF x = hdr[j].next THEN i ELSE hdr[x].prev
            /\ hdr'[x].next = IF x = i THEN hdr[j].next ELSE hdr[x].next
  BY <1>9 DEF Merged
<1>11. /\ UNCHANGED <<first_free, live, pc, want, chunk, i>> /\ j' = hdr[j].next
       /\ i + Header + hdr[i].size = j
  BY DEF FreeMerge, Adjacent
<1>12. Free' = Free \ {j}
  BY <1>3, <1>10, <1>11 DEF Free, Chunks
<1>13. TiledIn(hdr')
  BY <1>2, <1>3, <1>10, <1>11, TileMerge
<1>14. ListIn(hdr', Free', first_free')
  <2>1. \A x \in Free \ {j} :
          /\ hdr'[x].prev = IF x = hdr[j].next THEN hdr[j].prev ELSE hdr[x].prev
          /\ hdr'[x].next = IF x = hdr[j].prev THEN hdr[j].next ELSE hdr[x].next
    BY <1>2, <1>5, <1>10
  <2>2. ListIn(hdr, Free, first_free) /\ Free \subseteq Nat \ {0} /\ j \in Free
    BY <1>2, <1>3
  <2>3. ListIn(hdr', Free \ {j}, IF j = first_free THEN hdr[j].next ELSE first_free)
    BY <2>1, <2>2, ListRemove
  <2>4. j # first_free
    BY <1>4, <1>5 DEF Linked
  <2> QED
    BY <2>3, <2>4, <1>11, <1>12
<1>15. CallsIn'
  BY <1>1, <1>2, <1>3, <1>5, <1>6, <1>10, <1>11, <1>12 DEF CallsIn, Chunks
<1>16. BlockFits' /\ CallOK'
  <2>1. \A x \in DOMAIN live : hdr'[x].size = hdr[x].size
    BY <1>2, <1>3, <1>10
  <2>2. hdr'[i].next = hdr[j].next
    BY <1>3, <1>5, <1>10
  <2> QED
    BY <2>1, <2>2, <1>1, <1>3, <1>11 DEF BlockFits, CallOK
<1>17. LinksOK'
  <2> SUFFICES ASSUME NEW x \in DOMAIN hdr, x \notin Free
               PROVE  hdr'[x].prev = NULL /\ hdr'[x].next = NULL
    BY <1>10, <1>12 DEF LinksOK, Chunks
  <2>1. x # i /\ x # j /\ x # hdr[j].next
    BY <1>2, <1>3, <1>6
  <2> QED
    BY <2>1, <1>1, <1>10 DEF LinksOK, Chunks
<1>18. SizesOK'
  <2>1. \A x \in DOMAIN hdr : hdr[x].size % 4 = 0
    BY <1>1 DEF SizesOK, Chunks
  <2>2. hdr[i].size % 4 = 0 /\ hdr[j].size % 4 = 0 /\ hdr[i].size \in Nat /\ hdr[j].size \in Nat
    BY <2>1, <1>2, <1>3
  <2>3. (hdr[i].size + hdr[j].size + Header) % 4 = 0
    BY <2>2 DEF Header
  <2> QED
    BY <2>1, <2>3, <1>10 DEF SizesOK, Chunks
<1> QED
  BY <1>10, <1>13, <1>14, <1>15, <1>16, <1>17, <1>18, PartsAfter

-----------------------------------------------------------------------------
(***************************************************************************)
(* The theorems.                                                           *)
(***************************************************************************)

LEMMA HeapInit == Init => HeapOK
<1> SUFFICES ASSUME Init PROVE HeapOK
  OBVIOUS
<1> USE DEF Init
<1>1. DOMAIN hdr = {Start} /\ DOMAIN live = {} /\ Free = {Start}
  BY DEF Free, Chunks
<1>2. /\ hdr[Start].size = End - Start - Header
      /\ hdr[Start].prev = NULL /\ hdr[Start].next = NULL
  OBVIOUS
<1>3. /\ Start \in Nat /\ End \in Nat /\ Start # 0 /\ Start % 16 = 0 /\ End % 16 = 0
      /\ Start + Header < End
  BY HeapAssumption
<1>4. HeadersIn(hdr)
  BY <1>1, <1>3 DEF HeadersIn, Header, NULL
<1>5. TiledIn(hdr)
  BY <1>1, <1>2, <1>3 DEF TiledIn, Header
<1>6. ListIn(hdr, Free, first_free)
  BY <1>1, <1>2, <1>3 DEF ListIn, Linked, NULL
<1>7. CallsIn /\ BlockFits /\ LinksOK /\ CallOK
  BY <1>1 DEF CallsIn, BlockFits, LinksOK, CallOK, Chunks
<1>8. SizesOK
  BY <1>1, <1>2, <1>3 DEF SizesOK, Chunks, Header
<1> QED
  BY <1>4, <1>5, <1>6, <1>7, <1>8, Parts

LEMMA HeapStep == HeapOK /\ [Next]_vars => HeapOK'
<1> SUFFICES ASSUME HeapOK, [Next]_vars PROVE HeapOK'
  OBVIOUS
<1>1. CASE \E n \in Request : kmalloc(n)
  BY <1>1, kmallocStep
<1>2. CASE \E c \in DOMAIN live : kfree(c)
  BY <1>2, kfreeStep
<1>3. CASE MallocSkip
  BY <1>3, MallocSkipStep
<1>4. CASE MallocFail
  BY <1>4, MallocFailStep
<1>5. CASE MallocWhole
  BY <1>5, MallocWholeStep
<1>6. CASE MallocSplit
  BY <1>6, MallocSplitStep
<1>7. CASE FreeAppend
  BY <1>7, FreeAppendStep
<1>8. CASE FreeMerge
  BY <1>8, FreeMergeStep
<1>9. CASE FreeInsert
  BY <1>9, FreeInsertStep
<1>10. CASE FreeAdvance
  BY <1>10, FreeAdvanceStep
<1>11. CASE UNCHANGED vars
  BY <1>11 DEF vars, HeapOK, TypeOK, Tiled, FreeListOK, BlockFits, LinksOK, SizesOK, CallOK,
               Chunks, Free, ChunkEnd
<1> QED
  BY <1>1, <1>2, <1>3, <1>4, <1>5, <1>6, <1>7, <1>8, <1>9, <1>10, <1>11 DEF Next, Loop

\* In every heap and for all requests, at every turn of the loops of kmalloc()
\* and kfree(): the chunks tile the heap, the free list holds exactly the free
\* chunks in the order of their addresses, linked the same way in both
\* directions, every block in use is as large as was asked for, and
\* divideChunk() never refuses what kmalloc() asks of it.
THEOREM HeapCorrect == Spec => []HeapOK
<1>1. Init => HeapOK
  BY HeapInit
<1>2. HeapOK /\ [Next]_vars => HeapOK'
  BY HeapStep
<1> QED
  BY <1>1, <1>2, PTL DEF Spec

-----------------------------------------------------------------------------
(***************************************************************************)
(* The heap implements Allocator: taking a chunk is Alloc, the first step  *)
(* of kfree() is Free, and all other steps leave the blocks alone.         *)
(***************************************************************************)

\* Blocks lie inside the heap and do not overlap.
Apart ==
  /\ \A c \in DOMAIN live : /\ c \in Nat /\ live[c] \in Nat \ {0} /\ c >= Start
                            /\ c + Header + live[c] <= End
  /\ \A c, d \in DOMAIN live : c < d => c + Header + live[c] <= d

LEMMA BlocksApart == HeapOK => Apart
<1> SUFFICES ASSUME HeapOK PROVE Apart
  OBVIOUS
<1>1. CallsIn /\ BlockFits
  BY Parts
<1>2. HeadersIn(hdr) /\ TiledIn(hdr) /\ DOMAIN live \subseteq DOMAIN hdr
  BY Facts
<1>3. ASSUME NEW c \in DOMAIN live
      PROVE  /\ c \in Nat /\ live[c] \in Nat \ {0} /\ c >= Start
             /\ hdr[c].size \in Nat /\ live[c] <= hdr[c].size
  <2>1. c \in DOMAIN hdr /\ c \in Start .. End - 1
    BY <1>2 DEF HeadersIn
  <2>2. c \in Nat /\ c >= Start
    BY <2>1, HeapAssumption
  <2>3. hdr[c].size \in Nat
    BY <2>1, Facts
  <2>4. live[c] \in Request /\ live[c] <= hdr[c].size
    BY <1>1 DEF BlockFits, CallsIn
  <2> QED
    BY <2>2, <2>3, <2>4, HeapAssumption
<1>4. ASSUME NEW c \in DOMAIN live
      PROVE  c + Header + live[c] <= End
  <2>1. c + Header + hdr[c].size <= End
    BY <1>2, TileEnds
  <2> QED
    BY <2>1, <1>3, HeapAssumption DEF Header
<1>5. ASSUME NEW c \in DOMAIN live, NEW d \in DOMAIN live, c < d
      PROVE  c + Header + live[c] <= d
  <2>1. c + Header + hdr[c].size <= d
    BY <1>2, <1>5, TileEnds
  <2> QED
    BY <2>1, <1>3 DEF Header
<1> QED
  BY <1>3, <1>4, <1>5 DEF Apart

LEMMA TakeAllocates ==
  ASSUME HeapOK, Apart', pc = "malloc", chunk # NULL, Take
  PROVE  Abstract!Alloc
<1>1. chunk \in Free /\ want \in Request
  BY Parts DEF CallsIn
<1>2. chunk \in Nat /\ chunk \notin DOMAIN live
  BY <1>1, Facts
<1>3. /\ DOMAIN live' = DOMAIN live \cup {chunk} /\ live'[chunk] = want
      /\ \A x \in DOMAIN live : live'[x] = live[x]
  BY <1>2 DEF Take
<1>4. /\ \A c \in DOMAIN live' : /\ c \in Nat /\ live'[c] \in Nat \ {0} /\ c >= Start
                                 /\ c + Header + live'[c] <= End
      /\ \A c, d \in DOMAIN live' : c < d => c + Header + live'[c] <= d
  BY DEF Apart
<1> DEFINE a == chunk + Header
<1>5. a \in (Start .. End - 1) \ DOMAIN Blocks
  <2>1. a \in Start .. End - 1
    BY <1>2, <1>3, <1>4, HeapAssumption DEF Header
  <2>2. \A x \in DOMAIN live : x + Header # a
    BY <1>2, <1>3, <1>4 DEF Header
  <2> QED
    BY <2>1, <2>2 DEF Blocks
<1>6. Blocks' = [x \in DOMAIN Blocks \cup {a} |-> IF x = a THEN want ELSE Blocks[x]]
  <2>1. {c + Header : c \in DOMAIN live'} = DOMAIN Blocks \cup {a}
    BY <1>3 DEF Blocks
  <2>2. ASSUME NEW x \in DOMAIN Blocks
        PROVE  live'[x - Header] = Blocks[x] /\ x # a
    <3>1. PICK c \in DOMAIN live : x = c + Header
      BY DEF Blocks
    <3>2. x - Header = c /\ x # a
      BY <3>1, <1>2, <1>3, <1>4 DEF Header
    <3> QED
      BY <3>1, <3>2, <1>3 DEF Blocks
  <2>3. live'[a - Header] = want
    BY <1>2, <1>3 DEF Header
  <2> QED
    BY <2>1, <2>2, <2>3 DEF Blocks
<1>7. Blocks'[a] = want /\ want \in Nat
  BY <1>1, <1>6, HeapAssumption
<1>8. Abstract!Cells(Blocks', a) \subseteq Start .. End - 1
  <2>1. chunk + Header + want <= End /\ chunk >= Start
    BY <1>3, <1>4
  <2> QED
    BY <2>1, <1>2, <1>7, HeapAssumption DEF Abstract!Cells, Header
<1>9. ASSUME NEW x \in DOMAIN Blocks
      PROVE  Abstract!Cells(Blocks', a) \cap Abstract!Cells(Blocks, x) = {}
  <2>1. PICK c \in DOMAIN live : x = c + Header
    BY DEF Blocks
  <2>2. c \in Nat /\ live[c] \in Nat /\ c # chunk
    BY <1>2, <1>3, <1>4
  <2>3. Blocks[x] = live[c]
    <3>1. x - Header = c
      BY <2>1, <2>2 DEF Header
    <3> QED
      BY <3>1 DEF Blocks
  <2>4. chunk + Header + want <= c \/ c + Header + live[c] <= chunk
    <3>1. chunk < c => chunk + Header + want <= c
      BY <1>3, <1>4
    <3>2. c < chunk => c + Header + live[c] <= chunk
      BY <1>3, <1>4
    <3> QED
      BY <3>1, <3>2, <2>2, <1>2
  <2> QED
    BY <2>1, <2>2, <2>3, <2>4, <1>2, <1>7 DEF Abstract!Cells, Header
<1> HIDE DEF a
<1> QED
  BY <1>1, <1>5, <1>6, <1>8, <1>9 DEF Abstract!Alloc

LEMMA kfreeFrees ==
  ASSUME HeapOK, NEW c \in DOMAIN live, kfree(c)
  PROVE  Abstract!Free
<1>1. DOMAIN live \subseteq Nat
  BY Facts
<1>2. live' = [x \in DOMAIN live \ {c} |-> live[x]]
  BY DEF kfree, Without
<1> DEFINE a == c + Header
<1>3. a \in DOMAIN Blocks
  BY DEF Blocks
<1>4. Blocks' = [x \in DOMAIN Blocks \ {a} |-> Blocks[x]]
  <2>1. {d + Header : d \in DOMAIN live'} = DOMAIN Blocks \ {a}
    <3>1. \A d \in DOMAIN live : d + Header = a <=> d = c
      BY <1>1 DEF Header
    <3> QED
      BY <3>1, <1>2 DEF Blocks
  <2>2. ASSUME NEW x \in DOMAIN Blocks \ {a}
        PROVE  live'[x - Header] = Blocks[x]
    <3>1. PICK d \in DOMAIN live : x = d + Header
      BY DEF Blocks
    <3>2. x - Header = d /\ d # c
      BY <3>1, <1>1 DEF Header
    <3> QED
      BY <3>1, <3>2, <1>2 DEF Blocks
  <2> QED
    BY <2>1, <2>2 DEF Blocks
<1> QED
  BY <1>3, <1>4 DEF Abstract!Free

\* The heap is an allocator, whatever its size and whatever is asked of it: a
\* block handed out by kmalloc() lies inside the heap and overlaps no block in
\* use, and no block moves or goes away but by its own kfree().
THEOREM HeapRefinesAllocator == Spec => HeapIsAllocator
<1>1. Init => DOMAIN Blocks = {}
  BY DEF Init, Blocks
<1>2. HeapOK => Apart
  BY BlocksApart
<1>3. HeapOK /\ Apart' /\ [Next]_vars => [Abstract!Alloc \/ Abstract!Free]_Blocks
  <2> SUFFICES ASSUME HeapOK, Apart', [Next]_vars
               PROVE  [Abstract!Alloc \/ Abstract!Free]_Blocks
    OBVIOUS
  <2>1. CASE MallocWhole
    BY <2>1, TakeAllocates DEF MallocWhole
  <2>2. CASE MallocSplit
    BY <2>2, TakeAllocates DEF MallocSplit
  <2>3. CASE \E c \in DOMAIN live : kfree(c)
    BY <2>3, kfreeFrees
  <2>4. CASE live' = live
    BY <2>4 DEF Blocks
  <2> QED
    BY <2>1, <2>2, <2>3, <2>4
    DEF Next, Loop, kmalloc, MallocSkip, MallocFail, FreeAppend, FreeMerge, FreeInsert,
        FreeAdvance, vars
<1> QED
  BY <1>1, <1>2, <1>3, HeapCorrect, PTL DEF Spec, HeapIsAllocator, Abstract!Spec

=============================================================================
