------------------------------- MODULE Fifo -------------------------------
(***************************************************************************)
(* What the ring queue of User/lib/src/sqqueue.c promises its two users: a *)
(* bounded first-in first-out queue, and one item at a time handed out to  *)
(* the reader, which stays what it was until the reader lets go of it.     *)
(* The queue is one value here: there are no slots, no indices, no wrap.   *)
(***************************************************************************)
EXTENDS Integers, Sequences

CONSTANTS Entry,      \* the values a queue element can take
          Capacity,   \* sqq_len of sqqueue_ctrl_init
          None        \* no item is in the reader's hands

VARIABLES q,          \* the queued items, oldest first
          taken       \* the item the reader holds, or None

vars == <<q, taken>>

Init == q = <<>> /\ taken = None

\* The writer appends a run of items, all of them or none.
Put == /\ q' \in Seq(Entry)
       /\ Len(q) <= Len(q') /\ Len(q') <= Capacity
       /\ \A i \in 1..Len(q) : q'[i] = q[i]
       /\ UNCHANGED taken

\* The writer takes back the item it queued last.
Unput == /\ q # <<>>
         /\ q' = [i \in 1..(Len(q) - 1) |-> q[i]]
         /\ UNCHANGED taken

\* The reader takes the oldest item into its hands.
Take == /\ q # <<>> /\ taken = None
        /\ taken' = Head(q)
        /\ q' = Tail(q)

Release == taken # None /\ taken' = None /\ UNCHANGED q

\* The item at position k (1 is the oldest) leaves the queue.
Drop == /\ q # <<>>
        /\ \E k \in 1..Len(q) :
              q' = [i \in 1..(Len(q) - 1) |-> IF i < k THEN q[i] ELSE q[i + 1]]
        /\ UNCHANGED taken

Flush == q' = <<>> /\ UNCHANGED taken

Next == Put \/ Unput \/ Take \/ Release \/ Drop \/ Flush

Spec == Init /\ [][Next]_vars
===========================================================================
