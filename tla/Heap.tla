-------------------------------- MODULE Heap --------------------------------
(***************************************************************************)
(* What an allocator promises its clients: the ranges they hold keep apart *)
(* and keep what was stored in them until they are given back.             *)
(***************************************************************************)
EXTENDS Integers

CONSTANTS N,       \* the blocks of the pool
          Cell     \* what a block may hold

VARIABLE live      \* for each range held, by its first block: its contents

Block       == 0 .. N - 1
Span(p, n)  == p .. p + n - 1

\* n blocks from p on are in the pool, and none of them in a range held.
Apart(p, n) == /\ Span(p, n) \subseteq Block
               /\ \A q \in DOMAIN live : \A i \in DOMAIN live[q] : q + i \notin Span(p, n)

Init == live = [p \in {} |-> {}]

\* The ranges of f besides the one at p, and a range with the contents c there.
Without(f, p) == [q \in DOMAIN f \ {p} |-> f[q]]
With(f, p, c) == [q \in DOMAIN f \cup {p} |-> IF q = p THEN c ELSE f[q]]

Alloc(p, n) == /\ Apart(p, n)
               /\ p \in DOMAIN live'
               /\ live'[p] \in [0 .. n - 1 -> Cell]
               /\ live' = With(live, p, live'[p])

Free(p) == live' = Without(live, p)

Store(p, i, v) == live' = [live EXCEPT ![p][i] = v]

\* The range at p moves to q, and as much of it as there is room for stays.
Move(p, q, n) == /\ Apart(q, n)
                 /\ q \in DOMAIN live'
                 /\ live'[q] \in [0 .. n - 1 -> Cell]
                 /\ \A i \in DOMAIN live[p] : i < n => live'[q][i] = live[p][i]
                 /\ live' = With(Without(live, p), q, live'[q])

Next == \/ \E p \in Block, n \in 1 .. N : Alloc(p, n)
        \/ \E p \in DOMAIN live :
               \/ Free(p)
               \/ \E i \in DOMAIN live[p], v \in Cell : Store(p, i, v)
               \/ \E q \in Block, n \in 1 .. N : Move(p, q, n)

Spec == Init /\ [][Next]_live
=============================================================================
