------------------------------ MODULE Listing -------------------------------
(***************************************************************************)
(* What src/User/lib/inc/clist.h has each call do to the list as its user  *)
(* sees it, a sequence, and from which calls the program does not come     *)
(* back: where there is no block, or no value to take away.                *)
(***************************************************************************)
EXTENDS Integers, Sequences, SequencesExt

VARIABLES items,   \* the values of the list, first to last
          room,    \* the allocator has a block for a node
          lost     \* the program did not come back from a call

Becomes(s) == items' = s /\ UNCHANGED lost

\* A value more at some place, if there is a block for it.
Add(i, d) == IF room THEN Becomes(InsertAt(items, i, d)) ELSE lost' /\ UNCHANGED items

\* A value less; where there is none, the program is lost.
Drop(i) == IF i \in 1 .. Len(items) THEN Becomes(RemoveAt(items, i))
           ELSE lost' /\ UNCHANGED items

PushBack(d)    == Add(Len(items) + 1, d)
PushFront(d)   == Add(1, d)
Insert(pos, d) == pos <= Len(items) /\ Add(pos + 1, d)

PopBack    == Drop(Len(items))
PopFront   == Drop(1)
Erase(pos) == pos <= Len(items) /\ Drop(pos + 1)

\* clist_remove: the first of the values d.
RemoveOne(d) == \E i \in 1 .. Len(items) : /\ items[i] = d
                                           /\ \A k \in 1 .. i - 1 : items[k] # d
                                           /\ Drop(i)

\* The values at the places in stay, in their order.
Kept(stay) ==
    LET kept[i \in 0 .. Len(items)] == IF i = 0 THEN <<>>
                                      ELSE IF i \in stay THEN Append(kept[i - 1], items[i])
                                      ELSE kept[i - 1]
    IN  kept[Len(items)]

\* clist_remove_all: every value d.
RemoveAll(d) == items # <<>> /\ Becomes(Kept({i \in 1 .. Len(items) : items[i] # d}))

Destroy == Becomes(<<>>)
=============================================================================
