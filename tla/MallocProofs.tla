---------------------------- MODULE MallocProofs ----------------------------
(* What holds of the allocator for every pool, block size, contents and sizes *)
(* asked for: free memory is zero, and what a client stores stays its own.    *)
EXTENDS Malloc, TLAPS

-----------------------------------------------------------------------------
(* Ranges, a table and a pool that agree.                                     *)

Held(f)         == /\ DOMAIN f \subseteq Block
                   /\ \A p \in DOMAIN f : f[p] \in 1 .. N /\ Span(p, f[p]) \subseteq Block
Disjoint(f)     == \A p, q \in DOMAIN f : p # q => Span(p, f[p]) \cap Span(q, f[q]) = {}
Marks(map, f)   == \A p \in DOMAIN f : \A b \in Span(p, f[p]) : map[b] = f[p]
Clean(map, f)   == \A b \in Block : map[b] = 0 => f[b] = Zero

Agree(map, f)   == map \in [Block -> 0 .. N] /\ Held(f) /\ Disjoint(f) /\ Marks(map, f)

MInv == /\ ready \in BOOLEAN
        /\ mem \in [Block -> Cell]
        /\ Agree(memmap, raw)
        /\ ready => Clean(memmap, mem)
        /\ ~ready => DOMAIN raw = {}

LEMMA Numbers == N \in Nat /\ N >= 1 /\ BlkSize \in Nat /\ BlkSize >= 1 /\ NULL \notin Block
BY PoolAssumption

\* A range held contains its first block.
LEMMA FirstIn ==
    ASSUME NEW f, Held(f), NEW p \in DOMAIN f
    PROVE  p \in Block /\ f[p] \in 1 .. N /\ p \in Span(p, f[p]) /\ p # NULL
BY Numbers DEF Held, Span, Block

\* A range that is taken where the table says nothing is.
LEMMA TakeAgrees ==
    ASSUME NEW map, NEW f, Agree(map, f), NEW o \in Block, NEW n \in 1 .. N,
           Span(o, n) \subseteq Block, \A b \in Span(o, n) : map[b] = 0
    PROVE  /\ o \notin DOMAIN f
           /\ \A p \in DOMAIN f : Span(p, f[p]) \cap Span(o, n) = {}
           /\ Agree(Marked(map, o, n, n), With(f, o, n))
<1>0. n \in 0 .. N /\ o \in Span(o, n)
  BY Numbers DEF Span, Block
<1>1. \A p \in DOMAIN f : \A b \in Span(p, f[p]) : b \in Block /\ map[b] # 0
  BY Numbers DEF Agree, Held, Marks
<1>2. \A p \in DOMAIN f : Span(p, f[p]) \cap Span(o, n) = {}
  BY <1>1
<1>3. o \notin DOMAIN f
  BY <1>0, <1>2, FirstIn DEF Agree
<1> DEFINE g == With(f, o, n)
           m == Marked(map, o, n, n)
<1>4. /\ DOMAIN g = DOMAIN f \cup {o} /\ g[o] = n
      /\ \A p \in DOMAIN f : g[p] = f[p] /\ p # o
  BY <1>3 DEF With
<1>5. /\ m \in [Block -> 0 .. N]
      /\ \A b \in Span(o, n) : m[b] = n
      /\ \A b \in Block \ Span(o, n) : m[b] = map[b]
  BY <1>0 DEF Marked, Agree
<1> HIDE DEF g, m
<1>6. Held(g)
  BY <1>4 DEF Held, Agree
<1>7. Disjoint(g)
  BY <1>2, <1>4 DEF Disjoint, Agree
<1>8. Marks(m, g)
  <2>1. ASSUME NEW p \in DOMAIN f, NEW b \in Span(p, f[p]) PROVE m[b] = g[p]
    <3>1. b \in Block \ Span(o, n) /\ map[b] = f[p]
      BY <1>1, <1>2 DEF Agree, Marks
    <3> QED BY <1>4, <1>5, <3>1
  <2> QED BY <1>4, <1>5, <2>1 DEF Marks
<1>9. Agree(m, g)
  BY <1>5, <1>6, <1>7, <1>8 DEF Agree
<1> QED BY <1>2, <1>3, <1>9 DEF g, m

\* A range that is given back.
LEMMA GiveAgrees ==
    ASSUME NEW map, NEW f, Agree(map, f), NEW p \in DOMAIN f
    PROVE  Agree(Marked(map, p, f[p], 0), [q \in DOMAIN f \ {p} |-> f[q]])
<1> DEFINE g == [q \in DOMAIN f \ {p} |-> f[q]]
           m == Marked(map, p, f[p], 0)
<1>1. m \in [Block -> 0 .. N]
  BY Numbers DEF Marked, Agree
<1>2. Held(g) /\ Disjoint(g)
  BY DEF Agree, Held, Disjoint
<1>3. Marks(m, g)
  <2>1. ASSUME NEW q \in DOMAIN f \ {p}, NEW b \in Span(q, f[q]) PROVE m[b] = f[q]
    <3>1. b \notin Span(p, f[p]) /\ b \in Block /\ map[b] = f[q]
      BY DEF Agree, Held, Disjoint, Marks
    <3> QED BY <3>1 DEF Marked
  <2> QED BY <2>1 DEF Marks
<1> QED BY <1>1, <1>2, <1>3 DEF Agree

\* Memory that is cleared and then forgotten leaves free memory clean.
LEMMA GiveClean ==
    ASSUME NEW map, NEW f, NEW p, NEW k, Clean(map, f)
    PROVE  Clean(Marked(map, p, k, 0), Cleared(f, p, k))
BY DEF Clean, Marked, Cleared

-----------------------------------------------------------------------------
(* The calls.                                                                 *)

\* As a call finds the pool once it is set up.
LEMMA SetUp ==
    ASSUME MInv
    PROVE  /\ Agree(Table, raw) /\ Clean(Table, Pool) /\ Pool \in [Block -> Cell]
           /\ DOMAIN raw # {} => ready /\ Table = memmap /\ Pool = mem
<1>1. CASE ready
  BY <1>1 DEF MInv, Table, Pool
<1>2. CASE ~ready
  <2>1. Table = [b \in Block |-> 0] /\ Pool = [b \in Block |-> Zero] /\ DOMAIN raw = {}
    BY <1>2 DEF MInv, Table, Pool
  <2>2. Table \in [Block -> 0 .. N]
    BY <2>1, Numbers
  <2>3. Held(raw) /\ Disjoint(raw) /\ Marks(Table, raw)
    BY <2>1 DEF Held, Disjoint, Marks
  <2> QED BY <2>1, <2>2, <2>3, PoolAssumption DEF Agree, Clean
<1> QED BY <1>1, <1>2 DEF MInv

LEMMA BlocksNeeded == ASSUME NEW size \in Nat PROVE NMemb(size) \in Int
<1>1. size + BlkSize - 1 \in Int /\ BlkSize \in Nat /\ BlkSize >= 1
  BY Numbers
<1> QED BY <1>1 DEF NMemb

\* The place found for n blocks is free and no range's.
LEMMA FoundFree ==
    ASSUME MInv, NEW o \in Block, NEW n \in Int, Room(n), Found(o, n)
    PROVE  /\ n \in 1 .. N /\ Span(o, n) \subseteq Block /\ o \notin DOMAIN raw
           /\ \A b \in Span(o, n) : Table[b] = 0
           /\ \A p \in DOMAIN raw : Span(p, raw[p]) \cap Span(o, n) = {}
           /\ Agree(Marked(Table, o, n, n), With(raw, o, n))
<1>1. /\ n > 0 /\ Span(o, n) \subseteq Block /\ \A b \in Span(o, n) : Table[b] = 0
  BY DEF Room, Found, Fits
<1>2. n \in 1 .. N
  <2>1. o + n - 1 \in Span(o, n)
    BY <1>1 DEF Span, Block
  <2>2. o + n - 1 \in Block
    BY <1>1, <2>1
  <2> QED BY <1>1, <2>2, Numbers DEF Block
<1> QED BY <1>1, <1>2, SetUp, TakeAgrees

LEMMA RefusedFine == ASSUME MInv, NEW n, Refused(n) PROVE MInv'
BY SetUp DEF Refused, MInv

LEMMA MallocFine == ASSUME MInv, NEW size \in Nat, Malloc(size) PROVE MInv'
<1> DEFINE n == NMemb(size)
<1>1. n \in Int
  BY BlocksNeeded
<1>2. CASE Refused(n)
  BY <1>2, RefusedFine
<1>3. ASSUME NEW o \in Block, Room(n), Found(o, n), memmap' = Marked(Table, o, n, n),
             raw' = With(raw, o, n), ready' = TRUE, mem' = Pool
      PROVE  MInv'
  <2>1. Agree(memmap', raw') /\ mem' \in [Block -> Cell] /\ n \in 1 .. N
    BY <1>1, <1>3, FoundFree, SetUp
  <2>2. Clean(Marked(Table, o, n, n), Pool)
    <3>1. Clean(Table, Pool)
      BY SetUp
    <3>2. n # 0
      BY <2>1
    <3> QED BY <3>1, <3>2 DEF Clean, Marked
  <2> QED BY <1>3, <2>1, <2>2 DEF MInv
<1> QED BY <1>2, <1>3 DEF Malloc

LEMMA FreeFine == ASSUME MInv, NEW p \in DOMAIN raw, Free(p) PROVE MInv'
<1>0. Agree(memmap, raw) /\ ready /\ Clean(memmap, mem)
  BY DEF MInv
<1>1. memmap[p] = raw[p]
  BY <1>0, FirstIn DEF Agree, Marks
<1>2. Agree(memmap', raw')
  BY <1>0, <1>1, GiveAgrees DEF Free, Without
<1>3. Clean(memmap', mem')
  BY <1>0, GiveClean DEF Free
<1>4. mem' \in [Block -> Cell]
  BY PoolAssumption DEF Free, Cleared, MInv
<1> QED BY <1>0, <1>2, <1>3, <1>4 DEF Free, MInv

\* What is copied is of the type of cells, and only the new range is written.
LEMMA CopiedType ==
    ASSUME MInv, NEW p \in Block \cup {NULL}, NEW o, NEW n, NEW stray \in Written
    PROVE  /\ Copied(p, o, n, stray) \in [Block -> Cell]
           /\ \A b \in Block \ Span(o, n) : Copied(p, o, n, stray)[b] = Pool[b]
<1>1. Pool \in [Block -> Cell] /\ stray \in Cell
  BY SetUp, PoolAssumption
<1> QED BY <1>1 DEF Copied

\* The new range and the old one, where there was one: the table and the ranges held.
Moved(p, o, n) == /\ memmap' = Marked(Marked(Table, o, n, n), p, raw[p], 0)
                  /\ raw' = With(Without(p), o, n)
                  /\ ready' = TRUE

LEMMA MovedAgrees ==
    ASSUME MInv, NEW p \in DOMAIN raw, NEW o \in Block, NEW n \in Int, Room(n), Found(o, n),
           Moved(p, o, n)
    PROVE  Agree(memmap', raw')
<1> DEFINE f == With(raw, o, n)
           g == [q \in DOMAIN f \ {p} |-> f[q]]
<1>1. o \notin DOMAIN raw /\ Agree(Marked(Table, o, n, n), f)
  BY FoundFree
<1>2. DOMAIN f = DOMAIN raw \cup {o} /\ f[p] = raw[p] /\ p # o
  BY <1>1 DEF With
<1>3. g = raw'
  BY <1>1, <1>2 DEF Moved, With, Without
<1>4. Agree(Marked(Marked(Table, o, n, n), p, f[p], 0), g)
  BY <1>1, <1>2, GiveAgrees
<1> QED BY <1>2, <1>3, <1>4 DEF Moved

\* The steps of myrealloc that find room.
LEMMA ReallocFound ==
    ASSUME MInv, NEW p \in DOMAIN raw \cup {NULL}, NEW size \in Nat,
           Realloc(p, size), ~Refused(NMemb(size))
    PROVE  /\ Room(NMemb(size)) /\ ready' = TRUE
           /\ \E o \in Block, stray \in Written :
                 LET n   == NMemb(size)
                     new == Copied(p, o, n, stray)
                 IN  /\ Found(o, n)
                     /\ IF p = NULL
                        THEN /\ memmap' = Marked(Table, o, n, n)
                             /\ mem' = new /\ raw' = With(raw, o, n)
                        ELSE Moved(p, o, n) /\ mem' = Cleared(new, p, raw[p])
<1> DEFINE n == NMemb(size)
<1>1. PICK o \in Block, stray \in Written :
          /\ Room(n) /\ ready' = TRUE /\ Found(o, n)
          /\ LET map == Marked(Table, o, n, n)
                 new == Copied(p, o, n, stray)
             IN  IF p = NULL
                 THEN memmap' = map /\ mem' = new /\ raw' = With(raw, o, n)
                 ELSE /\ memmap' = Marked(map, p, map[p], 0)
                      /\ mem' = Cleared(new, p, map[p])
                      /\ raw' = With(Without(p), o, n)
  BY DEF Realloc
<1>2. p # NULL => Marked(Table, o, n, n)[p] = raw[p]
  <2>1. SUFFICES ASSUME p # NULL PROVE Marked(Table, o, n, n)[p] = raw[p]
    OBVIOUS
  <2>2. p \in DOMAIN raw /\ n \in Int
    BY <2>1, BlocksNeeded
  <2>3. Agree(Table, raw)
    BY SetUp
  <2>4. p \in Block /\ p \in Span(p, raw[p]) /\ Table[p] = raw[p]
    BY <2>2, <2>3, FirstIn DEF Agree, Marks
  <2>5. p \notin Span(o, n)
    BY <1>1, <2>2, <2>4, FoundFree
  <2> QED BY <2>4, <2>5 DEF Marked
<1> HIDE DEF n
<1>3. /\ Room(n) /\ ready' = TRUE /\ Found(o, n)
      /\ IF p = NULL
         THEN /\ memmap' = Marked(Table, o, n, n)
              /\ mem' = Copied(p, o, n, stray) /\ raw' = With(raw, o, n)
         ELSE Moved(p, o, n) /\ mem' = Cleared(Copied(p, o, n, stray), p, raw[p])
  BY <1>1, <1>2 DEF Moved
<1> QED BY <1>3 DEF n

LEMMA ReallocFine ==
    ASSUME MInv, NEW p \in DOMAIN raw \cup {NULL}, NEW size \in Nat, Realloc(p, size)
    PROVE  MInv'
<1> DEFINE n == NMemb(size)
<1>1. CASE Refused(n)
  BY <1>1, RefusedFine
<1>2. CASE ~Refused(n)
  <2>1. PICK o \in Block, stray \in Written :
            /\ Room(n) /\ ready' = TRUE /\ Found(o, n)
            /\ IF p = NULL
               THEN /\ memmap' = Marked(Table, o, n, n)
                    /\ mem' = Copied(p, o, n, stray) /\ raw' = With(raw, o, n)
               ELSE Moved(p, o, n) /\ mem' = Cleared(Copied(p, o, n, stray), p, raw[p])
    BY <1>2, ReallocFound
  <2>2. n \in Int
    BY BlocksNeeded
  <2> DEFINE new == Copied(p, o, n, stray)
             map == Marked(Table, o, n, n)
  <2>3. /\ p \in Block \cup {NULL} /\ n \in 1 .. N
        /\ Agree(map, With(raw, o, n)) /\ Clean(Table, Pool)
    BY <2>1, <2>2, FoundFree, SetUp DEF Agree, Held
  <2>4. new \in [Block -> Cell] /\ \A b \in Block \ Span(o, n) : new[b] = Pool[b]
    BY <2>3, CopiedType
  <2>5. Clean(map, new)
    BY <2>3, <2>4 DEF Clean, Marked
  <2> HIDE DEF new
  <2>6. CASE p = NULL
    BY <2>1, <2>3, <2>4, <2>5, <2>6 DEF MInv, new
  <2>7. CASE p # NULL
    <3>1. Agree(memmap', raw') /\ mem' = Cleared(new, p, raw[p])
      BY <2>1, <2>2, <2>7, MovedAgrees DEF new
    <3>2. mem' \in [Block -> Cell]
      BY <2>4, <3>1, PoolAssumption DEF Cleared
    <3>3. memmap' = Marked(map, p, raw[p], 0)
      BY <2>1, <2>7 DEF Moved
    <3>4. Clean(memmap', mem')
      BY <2>5, <3>1, <3>3, GiveClean
    <3> QED BY <2>1, <3>1, <3>2, <3>4 DEF MInv
  <2> QED BY <2>6, <2>7
<1> QED BY <1>1, <1>2

LEMMA WriteFine ==
    ASSUME MInv, NEW p \in DOMAIN raw, NEW i \in 0 .. raw[p] - 1, NEW v \in Written,
           Write(p, i, v)
    PROVE  MInv'
<1>1. Agree(memmap, raw) /\ ready /\ Clean(memmap, mem) /\ v \in Cell
  BY PoolAssumption DEF MInv
<1>2. p \in Block /\ raw[p] \in 1 .. N
  BY <1>1, FirstIn DEF Agree
<1>3. p + i \in Span(p, raw[p])
  BY <1>2 DEF Span, Block
<1>4. memmap[p + i] # 0
  BY <1>1, <1>2, <1>3 DEF Agree, Marks
<1>5. Clean(memmap, mem')
  BY <1>1, <1>4 DEF Clean, Write, MInv
<1> QED BY <1>1, <1>5 DEF Write, MInv

LEMMA ClientsFine == ASSUME MInv, [Clients]_poolVars PROVE MInv'
<1>0. Sizes \subseteq Nat
  BY PoolAssumption
<1>1. ASSUME NEW size \in Sizes, Malloc(size) \/ Realloc(NULL, size) PROVE MInv'
  BY <1>0, <1>1, MallocFine, ReallocFine
<1>2. ASSUME NEW p \in DOMAIN raw, NEW size \in Sizes, Realloc(p, size) PROVE MInv'
  BY <1>0, <1>2, ReallocFine
<1>3. CASE UNCHANGED poolVars
  BY <1>3 DEF MInv, poolVars
<1> QED BY <1>1, <1>2, <1>3, FreeFine, WriteFine DEF Clients

LEMMA InitFine == ASSUME PoolInit PROVE MInv
<1>1. memmap \in [Block -> 0 .. N]
  BY Numbers DEF PoolInit
<1>2. mem \in [Block -> Cell]
  BY PoolAssumption DEF PoolInit
<1>3. DOMAIN raw = {}
  BY DEF PoolInit
<1> QED BY <1>1, <1>2, <1>3 DEF PoolInit, MInv, Agree, Held, Disjoint, Marks

\* The ranges held, the table and what lies in free memory agree, whatever the
\* clients take, move, write and give back (malloc.c:185-338).
THEOREM MallocInvariance == MallocSpec => []MInv
<1>1. PoolInit => MInv
  BY InitFine
<1>2. MInv /\ [Clients]_poolVars => MInv'
  BY ClientsFine
<1> QED BY <1>1, <1>2, PTL DEF MallocSpec

\* A free block holds zeros, for every pool and block size (malloc.c:131, 306).
THEOREM FreeStaysZero == MallocSpec => []FreeIsZero
<1>1. MInv => FreeIsZero
  BY DEF MInv, Clean, FreeIsZero
<1> QED BY <1>1, MallocInvariance, PTL

-----------------------------------------------------------------------------
(* The clients' view: Heap.                                                    *)

Contents(f, pool) == [p \in DOMAIN f |-> [i \in 0 .. f[p] - 1 |-> pool[p + i]]]
live == Contents(raw, mem)

\* Ranges whose blocks hold what they held have the same contents.
LEMMA SameContents ==
    ASSUME NEW f, NEW g, NEW p \in DOMAIN f, f[p] \in Nat, p \in Int,
           \A b \in Span(p, f[p]) : g[b] = mem[b]
    PROVE  Contents(f, g)[p] = Contents(f, mem)[p]
<1>1. \A i \in 0 .. f[p] - 1 : p + i \in Span(p, f[p])
  BY DEF Span
<1> QED BY <1>1 DEF Contents

\* The place found for a new range keeps apart from the ranges held.
LEMMA FoundApart ==
    ASSUME MInv, NEW o \in Block, NEW n \in Int, Room(n), Found(o, n)
    PROVE  AsHeap!Apart(o, n)
<1>1. /\ Span(o, n) \subseteq Block /\ Held(raw)
      /\ \A p \in DOMAIN raw : Span(p, raw[p]) \cap Span(o, n) = {}
  BY FoundFree DEF MInv, Agree
<1>2. ASSUME NEW q \in DOMAIN raw, NEW i \in 0 .. raw[q] - 1 PROVE q + i \notin Span(o, n)
  <2>1. q \in Block /\ raw[q] \in 1 .. N
    BY <1>1, FirstIn
  <2>2. q + i \in Span(q, raw[q])
    BY <2>1 DEF Span, Block
  <2> QED BY <1>1, <2>2
<1> QED BY <1>1, <1>2 DEF AsHeap!Apart, AsHeap!Span, AsHeap!Block, Span, Block

\* A new range with nothing else changed.
LEMMA Allocates ==
    ASSUME MInv, NEW o \in Block, NEW n \in Int, Room(n), Found(o, n),
           NEW pool \in [Block -> Cell], \A b \in Block \ Span(o, n) : pool[b] = Pool[b],
           mem' = pool, raw' = With(raw, o, n)
    PROVE  AsHeap!Alloc(o, n)
<1>1. /\ n \in 1 .. N /\ Span(o, n) \subseteq Block /\ o \notin DOMAIN raw
      /\ \A p \in DOMAIN raw : Span(p, raw[p]) \cap Span(o, n) = {}
  BY FoundFree
<1>2. DOMAIN raw' = DOMAIN raw \cup {o} /\ raw'[o] = n /\ \A p \in DOMAIN raw : raw'[p] = raw[p]
  BY <1>1 DEF With
<1>3. live'[o] = [i \in 0 .. n - 1 |-> mem'[o + i]] /\ DOMAIN live' = DOMAIN raw \cup {o}
  BY <1>2 DEF live, Contents
<1>4. live'[o] \in [0 .. n - 1 -> Cell]
  <2>1. \A i \in 0 .. n - 1 : o + i \in Span(o, n)
    BY <1>1 DEF Span, Block
  <2> QED BY <1>1, <1>3, <2>1
<1>5. ASSUME NEW p \in DOMAIN raw PROVE live'[p] = live[p]
  <2>1. p \in Block /\ raw[p] \in 1 .. N /\ Span(p, raw[p]) \subseteq Block /\ Pool = mem
    BY FirstIn, SetUp DEF MInv, Agree, Held
  <2>2. \A b \in Span(p, raw[p]) : mem'[b] = mem[b]
    BY <1>1, <2>1
  <2>3. Contents(raw, mem')[p] = Contents(raw, mem)[p]
    <3>1. raw[p] \in Nat /\ p \in Int
      BY <2>1, Numbers DEF Block
    <3> QED BY <2>2, <3>1, SameContents
  <2> QED BY <1>2, <2>3 DEF live, Contents
<1>6. live' = AsHeap!With(live, o, live'[o])
  <2>1. DOMAIN live = DOMAIN raw
    BY DEF live, Contents
  <2>2. live' = [q \in DOMAIN live' |-> live'[q]]
    BY DEF live, Contents
  <2> QED BY <1>1, <1>3, <1>5, <2>1, <2>2 DEF AsHeap!With
<1> QED BY <1>3, <1>4, <1>6, FoundApart DEF AsHeap!Alloc, live, Contents

LEMMA RefusedHidden == ASSUME MInv, NEW n, Refused(n) PROVE live' = live
<1>1. CASE DOMAIN raw = {}
  BY <1>1 DEF Refused, live, Contents
<1>2. CASE DOMAIN raw # {}
  BY <1>2, SetUp DEF Refused, live, Contents
<1> QED BY <1>1, <1>2

LEMMA HeapBlocks == AsHeap!Block = Block
BY DEF AsHeap!Block, Block

LEMMA MallocMaps ==
    ASSUME MInv, NEW size \in Nat, Malloc(size) PROVE AsHeap!Next \/ live' = live
<1> DEFINE n == NMemb(size)
<1>1. n \in Int
  BY BlocksNeeded
<1>2. ASSUME NEW o \in Block, Room(n), Found(o, n), raw' = With(raw, o, n), mem' = Pool
      PROVE  AsHeap!Next
  <2>1. Pool \in [Block -> Cell]
    BY SetUp
  <2>2. AsHeap!Alloc(o, n) /\ n \in 1 .. N
    BY <1>1, <1>2, <2>1, Allocates, FoundFree
  <2> QED BY <2>2, HeapBlocks DEF AsHeap!Next
<1> QED BY <1>2, RefusedHidden DEF Malloc

LEMMA FreeMaps == ASSUME MInv, NEW p \in DOMAIN raw, Free(p) PROVE AsHeap!Free(p)
<1>1. memmap[p] = raw[p] /\ Agree(memmap, raw)
  BY FirstIn DEF MInv, Agree, Marks
<1>2. ASSUME NEW q \in DOMAIN raw \ {p} PROVE live'[q] = live[q]
  <2>1. q \in Block /\ raw[q] \in 1 .. N /\ Span(q, raw[q]) \subseteq Block
    BY <1>1, FirstIn DEF Agree, Held
  <2>2. Span(q, raw[q]) \cap Span(p, raw[p]) = {}
    BY <1>1 DEF Agree, Disjoint
  <2>3. \A b \in Span(q, raw[q]) : mem'[b] = mem[b]
    BY <1>1, <2>1, <2>2 DEF Free, Cleared
  <2>4. Contents(raw, mem')[q] = Contents(raw, mem)[q]
    BY <2>1, <2>3, SameContents DEF Block
  <2> QED BY <2>4 DEF live, Contents, Free, Without
<1>3. DOMAIN raw' = DOMAIN raw \ {p}
  BY DEF Free, Without
<1>4. /\ DOMAIN live = DOMAIN raw /\ DOMAIN live' = DOMAIN raw \ {p}
      /\ live' = [q \in DOMAIN live' |-> live'[q]]
  BY <1>3 DEF live, Contents
<1>5. live' = [q \in DOMAIN live \ {p} |-> live[q]]
  BY <1>2, <1>4
<1> QED BY <1>5 DEF AsHeap!Free, AsHeap!Without, live, Contents

LEMMA WriteMaps ==
    ASSUME MInv, NEW p \in DOMAIN raw, NEW i \in 0 .. raw[p] - 1, NEW v \in Written,
           Write(p, i, v)
    PROVE  AsHeap!Store(p, i, v)
<1>1. Agree(memmap, raw) /\ mem \in [Block -> Cell]
  BY DEF MInv
<1>2. p \in Block /\ raw[p] \in 1 .. N /\ p + i \in Span(p, raw[p])
  BY <1>1, FirstIn DEF Agree, Span, Block
<1>3. p + i \in Block
  BY <1>1, <1>2 DEF Agree, Held
<1>4. mem' = [mem EXCEPT ![p + i] = v] /\ raw' = raw
  BY DEF Write
<1>5. ASSUME NEW q \in DOMAIN raw, q # p PROVE live'[q] = live[q]
  <2>1. q \in Block /\ raw[q] \in 1 .. N /\ Span(q, raw[q]) \cap Span(p, raw[p]) = {}
    BY <1>1, <1>5, FirstIn DEF Agree, Disjoint
  <2>2. \A b \in Span(q, raw[q]) : mem'[b] = mem[b]
    BY <1>1, <1>2, <1>4, <2>1
  <2>3. Contents(raw, mem')[q] = Contents(raw, mem)[q]
    BY <2>1, <2>2, SameContents DEF Block
  <2> QED BY <1>4, <2>3 DEF live, Contents
<1>6. live'[p] = [live[p] EXCEPT ![i] = v]
  <2>1. \A j \in 0 .. raw[p] - 1 : /\ p + j \in Block
                                   /\ mem'[p + j] = IF j = i THEN v ELSE mem[p + j]
    BY <1>1, <1>2, <1>3, <1>4 DEF Agree, Held, Span, Block
  <2>2. /\ live[p] = [j \in 0 .. raw[p] - 1 |-> mem[p + j]]
        /\ live'[p] = [j \in 0 .. raw[p] - 1 |-> mem'[p + j]]
    BY <1>4 DEF live, Contents
  <2>3. live'[p] = [j \in 0 .. raw[p] - 1 |-> IF j = i THEN v ELSE mem[p + j]]
    BY <2>1, <2>2
  <2>4. live'[p] = [j \in 0 .. raw[p] - 1 |-> IF j = i THEN v ELSE live[p][j]]
    BY <2>2, <2>3
  <2>5. DOMAIN live[p] = 0 .. raw[p] - 1 /\ live[p] = [j \in 0 .. raw[p] - 1 |-> live[p][j]]
    BY <2>2
  <2> QED BY <2>4, <2>5
<1>7. DOMAIN live = DOMAIN raw /\ DOMAIN live' = DOMAIN raw /\ live' = [q \in DOMAIN raw |-> live'[q]]
  BY <1>4 DEF live, Contents
<1>8. live' = [live EXCEPT ![p] = [live[p] EXCEPT ![i] = v]]
  BY <1>5, <1>6, <1>7
<1> QED BY <1>8 DEF AsHeap!Store, live, Contents

\* Up to where the old range or the new one ends, mymemcpy copies it unchanged.
LEMMA CopiesRange ==
    ASSUME MInv, NEW p \in DOMAIN raw, NEW o \in Block, NEW n \in Int, Room(n), Found(o, n),
           NEW stray \in Written, NEW i \in 0 .. n - 1, i < raw[p]
    PROVE  Copied(p, o, n, stray)[o + i] = mem[p + i]
<1>1. /\ n \in 1 .. N /\ Span(o, n) \subseteq Block
      /\ Span(p, raw[p]) \cap Span(o, n) = {}
  BY FoundFree
<1>2. p \in Block /\ raw[p] \in 1 .. N /\ Span(p, raw[p]) \subseteq Block /\ Pool = mem
  BY FirstIn, SetUp DEF MInv, Agree, Held
<1>3. p + i \in Block /\ o + i \in Block /\ o + i \in Span(o, n) /\ i \in Nat
  BY <1>1, <1>2 DEF Span, Block
<1>4. Source(p, o, i) = p + i
  <2>1. CASE p < o
    <3>1. o \in Span(o, n)
      BY <1>1 DEF Span, Block
    <3>2. o \notin Span(p, raw[p])
      BY <1>1, <3>1
    <3>3. o - p >= raw[p] /\ o - p \in Nat
      BY <1>2, <2>1, <3>2 DEF Span, Block
    <3>4. i < o - p
      BY <1>2, <1>3, <3>3 DEF Block
    <3>5. i % (o - p) = i
      BY <1>3, <3>3, <3>4
    <3> QED BY <2>1, <3>5 DEF Source
  <2>2. CASE ~(p < o)
    BY <2>2 DEF Source
  <2> QED BY <2>1, <2>2
<1>5. (o + i) - o = i /\ p # NULL
  BY <1>2, Numbers DEF Block
<1> QED BY <1>2, <1>3, <1>4, <1>5 DEF Copied

\* A range that moves.
LEMMA Moves ==
    ASSUME MInv, NEW p \in DOMAIN raw, NEW o \in Block, NEW n \in Int, Room(n), Found(o, n),
           NEW stray \in Written, Moved(p, o, n),
           mem' = Cleared(Copied(p, o, n, stray), p, raw[p])
    PROVE  AsHeap!Move(p, o, n)
<1> DEFINE new == Copied(p, o, n, stray)
<1>1. /\ n \in 1 .. N /\ Span(o, n) \subseteq Block /\ o \notin DOMAIN raw
      /\ \A q \in DOMAIN raw : Span(q, raw[q]) \cap Span(o, n) = {}
  BY FoundFree
<1>2. /\ p \in Block /\ raw[p] \in 1 .. N /\ Pool = mem /\ Disjoint(raw)
      /\ \A b \in Block \ Span(o, n) : new[b] = mem[b]
      /\ new \in [Block -> Cell]
  BY FirstIn, SetUp, CopiedType DEF MInv, Agree
<1> HIDE DEF new
<1>3. /\ \A b \in Block \ Span(p, raw[p]) : mem'[b] = new[b]
      /\ mem' \in [Block -> Cell]
  BY <1>2, PoolAssumption DEF Cleared, new
<1>4. /\ DOMAIN raw' = (DOMAIN raw \ {p}) \cup {o} /\ raw'[o] = n
      /\ \A q \in DOMAIN raw \ {p} : raw'[q] = raw[q]
  BY <1>1 DEF Moved, With, Without
<1>5. /\ live'[o] = [i \in 0 .. n - 1 |-> mem'[o + i]]
      /\ DOMAIN live' = (DOMAIN raw \ {p}) \cup {o}
      /\ live' = [q \in DOMAIN live' |-> live'[q]]
      /\ DOMAIN live = DOMAIN raw
  BY <1>4 DEF live, Contents
<1>6. \A i \in 0 .. n - 1 : o + i \in Span(o, n) /\ o + i \in Block
  BY <1>1 DEF Span, Block
<1>7. live'[o] \in [0 .. n - 1 -> Cell]
  BY <1>3, <1>5, <1>6
<1>8. ASSUME NEW i \in DOMAIN live[p], i < n PROVE live'[o][i] = live[p][i]
  <2>1. i \in 0 .. raw[p] - 1 /\ live[p][i] = mem[p + i]
    BY DEF live, Contents
  <2>2. i \in 0 .. n - 1 /\ i < raw[p]
    BY <1>1, <1>2, <1>8, <2>1
  <2>3. o + i \in Block \ Span(p, raw[p])
    BY <1>1, <1>6, <2>2
  <2>4. mem'[o + i] = mem[p + i]
    BY <1>3, <2>2, <2>3, CopiesRange DEF new
  <2> QED BY <1>5, <2>1, <2>2, <2>4
<1>9. ASSUME NEW q \in DOMAIN raw \ {p} PROVE live'[q] = live[q]
  <2>1. /\ q \in Block /\ raw[q] \in 1 .. N /\ Span(q, raw[q]) \subseteq Block
        /\ Span(q, raw[q]) \cap Span(p, raw[p]) = {}
    BY <1>2, FirstIn DEF MInv, Agree, Held, Disjoint
  <2>2. \A b \in Span(q, raw[q]) : mem'[b] = mem[b]
    BY <1>1, <1>2, <1>3, <2>1
  <2>3. raw[q] \in Nat /\ q \in Int
    BY <2>1, Numbers DEF Block
  <2>4. Contents(raw, mem')[q] = Contents(raw, mem)[q]
    BY <2>2, <2>3, SameContents
  <2> QED BY <1>4, <2>4 DEF live, Contents
<1>10. live' = AsHeap!With(AsHeap!Without(live, p), o, live'[o])
  <2>1. \A q \in DOMAIN live' : live'[q] = IF q = o THEN live'[o] ELSE live[q]
    BY <1>1, <1>5, <1>9
  <2>2. live' = [q \in (DOMAIN live \ {p}) \cup {o} |-> IF q = o THEN live'[o] ELSE live[q]]
    BY <1>5, <2>1
  <2> HIDE DEF live
  <2>3. /\ AsHeap!Without(live, p) = [q \in DOMAIN live \ {p} |-> live[q]]
        /\ AsHeap!With(AsHeap!Without(live, p), o, live'[o])
              = [q \in DOMAIN AsHeap!Without(live, p) \cup {o} |->
                    IF q = o THEN live'[o] ELSE AsHeap!Without(live, p)[q]]
    BY DEF AsHeap!With, AsHeap!Without
  <2> QED BY <2>2, <2>3
<1>11. AsHeap!Apart(o, n) /\ o \in DOMAIN live'
  BY <1>5, FoundApart
<1> QED BY <1>7, <1>8, <1>10, <1>11 DEF AsHeap!Move, live, Contents

LEMMA ReallocMaps ==
    ASSUME MInv, NEW p \in DOMAIN raw \cup {NULL}, NEW size \in Nat, Realloc(p, size)
    PROVE  AsHeap!Next \/ live' = live
<1> DEFINE n == NMemb(size)
<1>1. CASE Refused(n)
  BY <1>1, RefusedHidden
<1>2. CASE ~Refused(n)
  <2>1. PICK o \in Block, stray \in Written :
            /\ Room(n) /\ ready' = TRUE /\ Found(o, n)
            /\ IF p = NULL
               THEN /\ memmap' = Marked(Table, o, n, n)
                    /\ mem' = Copied(p, o, n, stray) /\ raw' = With(raw, o, n)
               ELSE Moved(p, o, n) /\ mem' = Cleared(Copied(p, o, n, stray), p, raw[p])
    BY <1>2, ReallocFound
  <2>2. n \in Int
    BY BlocksNeeded
  <2>3. n \in 1 .. N /\ p \in Block \cup {NULL}
    BY <2>1, <2>2, FoundFree DEF MInv, Agree, Held
  <2>4. CASE p = NULL
    <3>1. /\ Copied(p, o, n, stray) \in [Block -> Cell]
          /\ \A b \in Block \ Span(o, n) : Copied(p, o, n, stray)[b] = Pool[b]
      BY <2>3, CopiedType
    <3>2. AsHeap!Alloc(o, n)
      BY <2>1, <2>2, <2>4, <3>1, Allocates
    <3> QED BY <2>3, <3>2, HeapBlocks DEF AsHeap!Next
  <2>5. CASE p # NULL
    <3>1. AsHeap!Move(p, o, n) /\ p \in DOMAIN live
      BY <2>1, <2>2, <2>5, Moves DEF live, Contents
    <3> QED BY <2>3, <3>1, HeapBlocks DEF AsHeap!Next, live, Contents
  <2> QED BY <2>4, <2>5
<1> QED BY <1>1, <1>2

LEMMA ClientsMap == ASSUME MInv, [Clients]_poolVars PROVE AsHeap!Next \/ live' = live
<1>0. Sizes \subseteq Nat /\ DOMAIN live = DOMAIN raw
  BY PoolAssumption DEF live, Contents
<1>1. ASSUME NEW size \in Sizes, Malloc(size) \/ Realloc(NULL, size)
      PROVE  AsHeap!Next \/ live' = live
  BY <1>0, <1>1, MallocMaps, ReallocMaps
<1>2. ASSUME NEW p \in DOMAIN raw, NEW size \in Sizes, Realloc(p, size)
      PROVE  AsHeap!Next \/ live' = live
  BY <1>0, <1>2, ReallocMaps
<1>3. ASSUME NEW p \in DOMAIN raw, Free(p) PROVE AsHeap!Next
  BY <1>0, <1>3, FreeMaps DEF AsHeap!Next, live, Contents
<1>4. ASSUME NEW p \in DOMAIN raw, NEW i \in 0 .. raw[p] - 1, NEW v \in Written, Write(p, i, v)
      PROVE  AsHeap!Next
  <2>1. AsHeap!Store(p, i, v) /\ i \in DOMAIN live[p] /\ v \in Cell /\ p \in DOMAIN live
    BY <1>4, WriteMaps, PoolAssumption DEF live, Contents
  <2> QED BY <2>1 DEF AsHeap!Next, live, Contents
<1>5. CASE UNCHANGED poolVars
  BY <1>5 DEF poolVars, live, Contents
<1> QED BY <1>1, <1>2, <1>3, <1>4, <1>5 DEF Clients

\* The allocator is a heap to its clients, for every pool, block size and sizes
\* asked for: their ranges keep apart and keep what is in them, also when one
\* moves to another size (malloc.c:205-211, 321-338).
THEOREM MallocIsHeap == MallocSpec => HeapSpec
<1>1. PoolInit => AsHeap!Init
  BY DEF PoolInit, AsHeap!Init
<1>2. MInv /\ [Clients]_poolVars
          => [AsHeap!Next]_[p \in DOMAIN raw |-> [i \in 0 .. raw[p] - 1 |-> mem[p + i]]]
  BY ClientsMap DEF live, Contents
<1> QED BY <1>1, <1>2, MallocInvariance, PTL DEF MallocSpec, HeapSpec, AsHeap!Spec
=============================================================================
