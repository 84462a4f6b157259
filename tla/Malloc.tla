------------------------------- MODULE Malloc -------------------------------
(***************************************************************************)
(* The block allocator of src/User/lib/src/malloc.c and its clients: one   *)
(* bank, a table with a count for each block of the pool, ranges of blocks *)
(* in a row.  The pool is set up by the first call that finds it is not.   *)
(*                                                                         *)
(* A cell is what a block holds.  What clients tell apart in a block is in *)
(* its first bytes, so a block that is copied in part is copied.  Clients  *)
(* free what they hold and write where they hold it.                       *)
(***************************************************************************)
EXTENDS Integers

CONSTANTS N,         \* memtblsize: the blocks of the pool
          BlkSize,   \* memblksize: the bytes of a block
          Cell,      \* what a block may hold
          Zero,      \* a block of zeros
          Written,   \* what clients write, and what lies about outside the pool
          Sizes,     \* the sizes clients ask for, in bytes
          NULL

Block == 0 .. N - 1

ASSUME PoolAssumption == /\ N \in Nat \ {0}
                         /\ BlkSize \in Nat \ {0}
                         /\ Zero \in Cell
                         /\ Written \subseteq Cell
                         /\ Sizes \subseteq Nat
                         /\ NULL \notin Block

VARIABLES ready,   \* memrdy
          memmap,  \* the table: how many blocks the range has that the block is in
          mem,     \* the pool
          raw      \* what clients hold: the blocks of each range, by its first

poolVars == <<ready, memmap, mem, raw>>

PoolInit == /\ ready = FALSE
            /\ memmap = [b \in Block |-> 0]
            /\ mem \in [Block -> {Zero} \cup Written]
            /\ raw = [p \in {} |-> 0]

-----------------------------------------------------------------------------
Span(p, n)  == p .. p + n - 1
NMemb(size) == (size + BlkSize - 1) \div BlkSize

\* The table and the pool as a call finds them once my_mem_init has run.
Table == IF ready THEN memmap ELSE [b \in Block |-> 0]
Pool  == IF ready THEN mem ELSE [b \in Block |-> Zero]

\* my_mem_malloc goes from the last block to the first, and stops as soon as
\* n free blocks in a row have gone by.
Fits(o, n)  == Span(o, n) \subseteq Block /\ \A b \in Span(o, n) : Table[b] = 0
Found(o, n) == Fits(o, n) /\ \A q \in Block : Fits(q, n) => q <= o
\* slip: a size of 0 is not refused
RoomForNone(n) == \E o \in Block : Fits(o, n)
Room(n)     == n > 0 /\ \E o \in Block : Fits(o, n)

\* The table with the n blocks from p on marked with k, the pool with zeros there.
Marked(map, p, n, k) == [b \in Block |-> IF b \in Span(p, n) THEN k ELSE map[b]]
Cleared(f, p, n)     == [b \in Block |-> IF b \in Span(p, n) THEN Zero ELSE f[b]]

Without(p) == [q \in DOMAIN raw \ {p} |-> raw[q]]
With(f, p, n) == [q \in DOMAIN f \cup {p} |-> IF q = p THEN n ELSE f[q]]

\* A call that finds no room still sets the pool up.
Refused(n) == /\ ~Room(n)
              /\ ready' = TRUE
              /\ memmap' = Table
              /\ mem' = Pool
              /\ UNCHANGED raw

\* mymalloc
Malloc(size) ==
    LET n == NMemb(size) IN
    \/ Refused(n)
    \/ /\ Room(n)
       /\ \E o \in Block :
              /\ Found(o, n)
              /\ memmap' = Marked(Table, o, n, n)
              /\ raw' = With(raw, o, n)
       /\ ready' = TRUE
       /\ mem' = Pool

\* slips: the first block only, the count is read when it is gone
FreeFirst(p) == /\ mem' = Cleared(mem, p, memmap[p])
                /\ memmap' = Marked(memmap, p, 1, 0)
                /\ raw' = Without(p)
                /\ UNCHANGED ready

FreeUncleared(p) == /\ mem' = mem
                    /\ memmap' = Marked(memmap, p, memmap[p], 0)
                    /\ raw' = Without(p)
                    /\ UNCHANGED ready

\* myfree clears as many blocks as the table says, then forgets them.
Free(p) == /\ mem' = Cleared(mem, p, memmap[p])
           /\ memmap' = Marked(memmap, p, memmap[p], 0)
           /\ raw' = Without(p)
           /\ UNCHANGED ready

\* mymemcpy goes upwards from the first byte: where the range it reads runs
\* into the range it writes it reads what it has written.
Source(p, o, i) == IF p < o THEN p + (i % (o - p)) ELSE p + i

\* slip: the old range is freed before it is copied
CopiedFreed(p, o, n, stray) == [b \in Block |-> IF b \in Span(o, n) THEN Zero ELSE Pool[b]]

Copied(p, o, n, stray) ==
    [b \in Block |-> IF b \notin Span(o, n) THEN Pool[b]
                     ELSE IF p # NULL /\ Source(p, o, b - o) \in Block
                          THEN Pool[Source(p, o, b - o)]
                          ELSE stray]

\* myrealloc: a new range is taken first, as many bytes as it was asked for are
\* copied into it whatever the old one had, and the old one is freed.
Realloc(p, size) ==
    LET n == NMemb(size) IN
    \/ Refused(n)
    \/ /\ Room(n)
       /\ \E o \in Block, stray \in Written :
              /\ Found(o, n)
              /\ LET map == Marked(Table, o, n, n)
                     new == Copied(p, o, n, stray)
                 IN  IF p = NULL
                     THEN memmap' = map /\ mem' = new /\ raw' = With(raw, o, n)
                     ELSE /\ memmap' = Marked(map, p, map[p], 0)
                          /\ mem' = Cleared(new, p, map[p])
                          /\ raw' = With(Without(p), o, n)
       /\ ready' = TRUE

\* A client stores into a range it holds.
Write(p, i, v) == /\ mem' = [mem EXCEPT ![p + i] = v]
                  /\ UNCHANGED <<ready, memmap, raw>>

Clients == \/ \E size \in Sizes : Malloc(size) \/ Realloc(NULL, size)
           \/ \E p \in DOMAIN raw :
                  \/ Free(p)
                  \/ \E size \in Sizes : Realloc(p, size)
                  \/ \E i \in 0 .. raw[p] - 1, v \in Written : Write(p, i, v)

MallocSpec == PoolInit /\ [][Clients]_poolVars

-----------------------------------------------------------------------------
\* A free block holds zeros (malloc.c:131, 306): mymalloc hands out cleared
\* memory, and what was stored in a range does not outlive it.
FreeIsZero == ready => \A b \in Block : memmap[b] = 0 => mem[b] = Zero

\* Whatever the others do, a client's ranges keep apart and keep what is in them,
\* also when one moves to another size (malloc.c:205-211, 321-338).
AsHeap == INSTANCE Heap WITH live <- [p \in DOMAIN raw |->
                                          [i \in 0 .. raw[p] - 1 |-> mem[p + i]]]
HeapSpec == AsHeap!Spec
=============================================================================
