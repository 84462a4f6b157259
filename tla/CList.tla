------------------------------- MODULE CList --------------------------------
(***************************************************************************)
(* The singly linked list of src/User/lib/src/clist.c, whose nodes are     *)
(* blocks of the allocator, next to the allocator's other clients.         *)
(*                                                                         *)
(* A call is a step: nothing interrupts it.  A call that follows a null    *)
(* pointer, or stands still in a DBG_ASSERT, does not come back: lost.     *)
(***************************************************************************)
EXTENDS Malloc, Sequences, FiniteSets

CONSTANT Data      \* what the list's user puts into it

\* A block is read as a clist_node_t; memory of zeros is a node with no link.
ASSUME CellAssumption == /\ Cell = [data : Data \cup {NULL}, Next : Block \cup {NULL}]
                         /\ Zero = [data |-> NULL, Next |-> NULL]

VARIABLES first,   \* *ppFirst
          lost     \* a call did not come back

vars == <<poolVars, first, lost>>

Init == PoolInit /\ first = NULL /\ lost = FALSE

-----------------------------------------------------------------------------
\* The nodes from first on, as the calls walk along them.
Node[i \in 0 .. N] == IF i = 0 THEN first
                      ELSE LET p == Node[i - 1] IN IF p = NULL THEN NULL ELSE mem[p].Next
Nodes == [i \in 1 .. Cardinality({k \in 0 .. N : Node[k] # NULL}) |-> Node[i - 1]]
Count == Len(Nodes)

Astray == lost' = TRUE /\ UNCHANGED <<poolVars, first>>

\* CreateNode, and the node put between the i-th and the one after it: push_front
\* at 0, push_back at the end, insert and insert_for_node before the i+1-st.  It
\* is not asked whether there is a block for the node.
Link(i, d) ==
    IF ~Room(1) THEN Astray
    ELSE /\ \E o \in Block :
               /\ Found(o, 1)
               /\ memmap' = Marked(Table, o, 1, 1)
               /\ first' = IF i = 0 THEN o ELSE first
               /\ mem' = [b \in Block |->
                            IF b = o THEN [data |-> d, Next |-> IF i = Count THEN NULL
                                                                ELSE Nodes[i + 1]]
                            ELSE IF i > 0 /\ b = Nodes[i] THEN [Pool[b] EXCEPT !.Next = o]
                            ELSE Pool[b]]
         /\ ready' = TRUE
         /\ UNCHANGED <<raw, lost>>

\* The i-th node leaves the list and is freed.
Unlink(i) ==
    LET p == Nodes[i] IN
    /\ first' = IF i = 1 THEN mem[p].Next ELSE first
    /\ mem' = Cleared([b \in Block |-> IF i > 1 /\ b = Nodes[i - 1]
                                       THEN [mem[b] EXCEPT !.Next = mem[p].Next]
                                       ELSE mem[b]], p, memmap[p])
    /\ memmap' = Marked(memmap, p, memmap[p], 0)
    /\ UNCHANGED <<ready, raw, lost>>

PushBack(d)  == Link(Count, d)
PushFront(d) == Link(0, d)

\* clist_insert: a place past the end is refused, the end itself is not.
Insert(pos, d) == pos <= Count /\ Link(pos, d)

PopBack  == IF first = NULL THEN Astray ELSE Unlink(Count)
PopFront == IF first = NULL THEN Astray ELSE Unlink(1)

\* cListErase: at the end of the list it finds no node, and erase_for_node reads
\* the link of the node it has not got.
Erase(pos) == /\ pos <= Count
              /\ IF pos = Count THEN Astray ELSE Unlink(pos + 1)

\* clist_remove: the first node with the value, if there is one.
Remove(d) == \E i \in 1 .. Count : /\ mem[Nodes[i]].data = d
                                   /\ \A k \in 1 .. i - 1 : mem[Nodes[k]].data # d
                                   /\ Unlink(i)

-----------------------------------------------------------------------------
\* clist_remove_all keeps a node behind the one it looks at.
\* The first node goes: the next one is first, and is not looked at.
DropFirst(w) ==
    LET n == w.mem[w.p].Next IN
    [w EXCEPT !.first = n, !.prev = n,
              !.p     = IF n = NULL THEN NULL ELSE w.mem[n].Next,
              !.astray = n = NULL,
              !.map   = Marked(w.map, w.p, w.map[w.p], 0),
              !.mem   = Cleared(w.mem, w.p, w.map[w.p])]

\* slip: as for the first node, the next one is not looked at
DropInnerOn(w) ==
    LET n == w.mem[w.p].Next IN
    [w EXCEPT !.p    = IF n = NULL THEN NULL ELSE w.mem[n].Next,
              !.prev = n,
              !.map  = Marked(w.map, w.p, w.map[w.p], 0),
              !.mem  = Cleared([w.mem EXCEPT ![w.prev].Next = n], w.p, w.map[w.p])]

\* A later node goes: the one behind it stays behind.
DropInner(w) ==
    LET n == w.mem[w.p].Next IN
    [w EXCEPT !.p   = n,
              !.map = Marked(w.map, w.p, w.map[w.p], 0),
              !.mem = Cleared([w.mem EXCEPT ![w.prev].Next = n], w.p, w.map[w.p])]

Look(w, d) == IF w.p = NULL THEN w
              ELSE IF w.mem[w.p].data # d THEN [w EXCEPT !.prev = w.p, !.p = w.mem[w.p].Next]
              ELSE IF w.first = w.p THEN DropFirst(w)
              ELSE DropInner(w)

RemoveAll(d) ==
    LET w[k \in 0 .. N] == IF k = 0
                           THEN [first |-> first, p |-> first, prev |-> NULL,
                                 map |-> memmap, mem |-> mem, astray |-> FALSE]
                           ELSE Look(w[k - 1], d)
        end == w[N]
    IN  /\ first # NULL
        /\ first' = end.first
        /\ memmap' = end.map
        /\ mem' = end.mem
        /\ lost' = end.astray
        /\ UNCHANGED <<ready, raw>>

Destroy == LET nodes == {Nodes[i] : i \in 1 .. Count} IN
           /\ mem' = [b \in Block |-> IF b \in nodes THEN Zero ELSE mem[b]]
           /\ memmap' = [b \in Block |-> IF b \in nodes THEN 0 ELSE memmap[b]]
           /\ first' = NULL
           /\ UNCHANGED <<ready, raw, lost>>

-----------------------------------------------------------------------------
ListCalls == \/ \E d \in Data : \/ RemoveAll(d)
                                \/ PushBack(d)
                                \/ PushFront(d)
                                \/ Remove(d)
                                \/ \E pos \in 0 .. N : Insert(pos, d)
             \/ PopBack
             \/ PopFront
             \/ \E pos \in 0 .. N : Erase(pos)
             \/ Destroy

Next == /\ ~lost
        /\ \/ ListCalls
           \/ Clients /\ UNCHANGED <<first, lost>>

Spec == Init /\ [][Next]_vars

-----------------------------------------------------------------------------
\* The types of the state (malloc.h:42-49, clist.h:14-18).
TypeOK == /\ ready \in BOOLEAN
          /\ memmap \in [Block -> 0 .. N]
          /\ mem \in [Block -> Cell]
          /\ DOMAIN raw \subseteq Block
          /\ \A p \in DOMAIN raw : raw[p] \in 1 .. N
          /\ first \in Block \cup {NULL}
          /\ lost \in BOOLEAN

\* Every block is free, or a node of the list, or in one range of a client, and
\* the table has the length of that range (malloc.c:207-211, 250-256): no call
\* leaks a block or shares one, and no node is in the list twice.
Accounted ==
    LET nodes == {Nodes[i] : i \in 1 .. Count}
        In(p) == Span(p, raw[p])
    IN  /\ Cardinality(nodes) = Count
        /\ \A b \in Block :
               LET held == {p \in DOMAIN raw : b \in In(p)} IN
               /\ Cardinality(held) = (IF b \in nodes \/ memmap[b] = 0 THEN 0 ELSE 1)
               /\ \A p \in held : memmap[b] = raw[p]
               /\ b \in nodes => memmap[b] = 1

\* The values along the links, and what the clients' ranges hold.
Items  == [i \in 1 .. Count |-> mem[Nodes[i]].data]
Ranges == [p \in DOMAIN raw |-> [i \in 0 .. raw[p] - 1 |-> mem[p + i]]]

AsListing == INSTANCE Listing WITH items <- Items, room <- Room(1)

\* The first node goes, and the one behind it is missing or would have to go too:
\* clist_remove_all does not look at it (clist.c:287).
Skips(d) == Items[1] = d /\ (Count = 1 \/ Items[2] = d)

\* Call by call the linked nodes are the sequence their user takes them for, and a call
\* is lost only where that specification says so (clist.h:20-46); but for
\* clist_remove_all where it skips a node, of which AllRemoved speaks.  No call of the
\* list changes what a client holds, and no call of a client the list.
ListSteps ==
    /\ Items = <<>>
    /\ [][/\ \A d \in Data :
                /\ PushBack(d)  => AsListing!PushBack(d)
                /\ PushFront(d) => AsListing!PushFront(d)
                /\ Remove(d)    => AsListing!RemoveOne(d)
                /\ RemoveAll(d) => Skips(d) \/ AsListing!RemoveAll(d)
                /\ \A pos \in 0 .. N : Insert(pos, d) => AsListing!Insert(pos, d)
          /\ PopBack  => AsListing!PopBack
          /\ PopFront => AsListing!PopFront
          /\ \A pos \in 0 .. N : Erase(pos) => AsListing!Erase(pos)
          /\ Destroy  => AsListing!Destroy
          /\ ListCalls => UNCHANGED Ranges
          /\ Clients /\ UNCHANGED <<first, lost>> => UNCHANGED Items]_vars

\* clist_remove_all leaves no node with the value in the list (clist.h:43: it removes
\* all of the value; clist.c:265 says so too).
AllRemoved ==
    [][\A d \in Data : RemoveAll(d) => \A i \in 1 .. Count' : Items'[i] # d]_vars
=============================================================================
