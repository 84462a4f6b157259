------------------------------ MODULE SqQueue ------------------------------
(***************************************************************************)
(* The ring queue of User/lib/src/sqqueue.c as its in-tree clients use it: *)
(* an interrupt handler enters and revokes items (rym_receive,             *)
(* data_char_handle), the main loop takes them out in batches              *)
(* (rym_sqqueue_read, data_read), clears and removes.  The handler runs to *)
(* completion; the main loop can be interrupted between any two of the     *)
(* steps below, each of which makes one access to front or rear.           *)
(*                                                                         *)
(* delete_sqqueue returns a POINTER to the slot it has just given up, and  *)
(* the caller copies the element afterwards; nothing but the spare slot of *)
(* the ring protects it from the interrupt handler in between.             *)
(***************************************************************************)
EXTENDS Integers, Sequences

CONSTANTS Entry,      \* the values of an element (entry_size = 1)
          SqqLen,     \* sqq_len of sqqueue_ctrl_init: the capacity
          HalfRange,  \* values of the uint8_t `half`: 256 in the code
          MaxString,  \* longest run entered at once
          None        \* for the abstract queue: nothing in hand

ASSUME SqqLenAssumption    == SqqLen \in Nat \ {0}
ASSUME HalfRangeAssumption == HalfRange \in Nat \ {0}
ASSUME MaxStringAssumption == MaxString \in Nat \ {0}
ASSUME NoneAssumption      == None \notin Entry

Slots == SqqLen + 1       \* sqqueue_init allocates one slot more
Index == 0 .. Slots - 1

VARIABLES base,       \* the slots
          front, rear,
          rpc,        \* where the reading main loop is
          rem,        \* items its get_len test has entitled it to
          p_elem      \* the slot delete_sqqueue returned

vars == <<base, front, rear, rpc, rem, p_elem>>

RPC == {"idle", "del", "publish", "copy", "clear", "null"}

----------------------------------------------------------------------------
\* Index arithmetic: the code never uses %, it subtracts the length once.
WrapLate(i) == IF i > Slots THEN i - Slots ELSE i    \* slip: > for >=
Wrap(i) == IF i >= Slots THEN i - Slots ELSE i

Back(i) == IF i = 0 THEN Slots - 1 ELSE i - 1

LengthOfNoFold(f, r) == IF r + Slots - f > Slots     \* slip: > for >=
                        THEN r + Slots - f - Slots ELSE r + Slots - f
LengthOf(f, r) == IF r + Slots - f >= Slots THEN r + Slots - f - Slots
                                            ELSE r + Slots - f
Length == LengthOf(front, rear)

\* Slots from i on, n of them, as the items they hold.
Items(b, i, n) == [k \in 1..n |-> b[Wrap(i + k - 1)]]

Contents == Items(base, front, Length)

Strings == UNION {[1..n -> Entry] : n \in 1..MaxString}

----------------------------------------------------------------------------
Init == /\ base \in [Index -> Entry]      \* osel_mem_alloc does not clear
        /\ front = 0 /\ rear = 0
        /\ rpc = "idle" /\ rem = 0
        /\ p_elem = 0

\* slip: the free slots are counted without the spare one
EnterSpare(e) ==
    /\ Length < Slots
    /\ base' = [base EXCEPT ![rear] = e]
    /\ rear' = Wrap(rear + 1)
    /\ UNCHANGED <<front, rpc, rem, p_elem>>

\* enter_sqqueue in the interrupt handler; on a full queue it returns false
\* and changes nothing.
Enter(e) ==
    /\ Wrap(rear + 1) # front
    /\ base' = [base EXCEPT ![rear] = e]
    /\ rear' = Wrap(rear + 1)
    /\ UNCHANGED <<front, rpc, rem, p_elem>>

\* slip: the second copy starts at the head of the run again
WrappedCopyHead(s) ==
    LET half == (Slots - rear) % HalfRange
    IN  [i \in Index |->
            IF rear <= i /\ i < rear + half THEN s[i - rear + 1]
            ELSE IF i < rear + Len(s) - Slots THEN s[i + 1]
            ELSE base[i]]

\* The two osel_memcpy of a run that passes the end of the ring.  `half`, the
\* number of items that fit before the end, is a uint8_t.
WrappedCopy(s) ==
    LET half == (Slots - rear) % HalfRange
    IN  [i \in Index |->
            IF rear <= i /\ i < rear + half THEN s[i - rear + 1]
            ELSE IF i < rear + Len(s) - Slots THEN s[half + i + 1]
            ELSE base[i]]

StraightCopy(s) ==
    [i \in Index |-> IF rear <= i /\ i < rear + Len(s) THEN s[i - rear + 1]
                                                       ELSE base[i]]

\* slip: the spare slot is given away
StringEnterSpare(s) ==
    /\ Len(s) <= Slots - Length
    /\ base' = IF rear + Len(s) >= Slots THEN WrappedCopy(s)
                                         ELSE StraightCopy(s)
    /\ rear' = Wrap(rear + Len(s))
    /\ UNCHANGED <<front, rpc, rem, p_elem>>

\* string_enter_sqqueue in the interrupt handler: all of s or nothing.
StringEnter(s) ==
    /\ Len(s) <= (Slots - 1) - Length
    /\ base' = IF rear + Len(s) >= Slots THEN WrappedCopy(s)
                                         ELSE StraightCopy(s)
    /\ rear' = Wrap(rear + Len(s))
    /\ UNCHANGED <<front, rpc, rem, p_elem>>

\* revoke_sqqueue in the interrupt handler.  Its clients revoke what they
\* entered last; Length > rem is their side of the contract: never an item a
\* read in progress has been promised.
Revoke ==
    /\ rear # front
    /\ Length > rem
    /\ rear' = Back(rear)
    /\ UNCHANGED <<base, front, rpc, rem, p_elem>>

----------------------------------------------------------------------------
\* The main loop asks get_len and commits to n calls of delete_sqqueue.
ReadBegin(n) ==
    /\ rpc = "idle"
    /\ Length >= n
    /\ rpc' = "del" /\ rem' = n
    /\ UNCHANGED <<base, front, rear, p_elem>>

\* delete_sqqueue up to the computation of the new front.  An empty queue
\* returns NULL, which the callers dereference without looking.
DelCheck ==
    /\ rpc = "del"
    /\ \/ rear = front /\ rpc' = "null" /\ UNCHANGED p_elem
       \/ rear # front /\ rpc' = "publish" /\ p_elem' = front
    /\ UNCHANGED <<base, front, rear, rem>>

\* delete_sqqueue stores the new front: the slot is no longer in the queue.
DelPublish ==
    /\ rpc = "publish"
    /\ front' = Wrap(front + 1)
    /\ rem' = rem - 1
    /\ rpc' = "copy"
    /\ UNCHANGED <<base, rear, p_elem>>

\* The caller dereferences the pointer and goes on with its batch.
CopyOut ==
    /\ rpc = "copy"
    /\ rpc' = IF rem > 0 THEN "del" ELSE "idle"
    /\ UNCHANGED <<base, front, rear, rem, p_elem>>

\* clear_sqq: two stores, an interrupt may fall between them.
ClearFront ==
    /\ rpc = "idle"
    /\ front' = 0 /\ rpc' = "clear"
    /\ UNCHANGED <<base, rear, rem, p_elem>>

ClearRear ==
    /\ rpc = "clear"
    /\ rear' = 0 /\ rpc' = "idle"
    /\ UNCHANGED <<base, front, rem, p_elem>>

\* qremove: shift the items before the offset up by one, then drop the front.
\* The code asserts offset < SQQ_LEN, not offset < length.
Remove(offset) ==
    /\ rpc = "idle"
    /\ rear # front
    /\ base' = [i \in Index |->
                  IF 1 <= LengthOf(front, i) /\ LengthOf(front, i) <= offset
                  THEN base[Back(i)] ELSE base[i]]
    /\ front' = Wrap(front + 1)
    /\ UNCHANGED <<rear, rpc, rem, p_elem>>

----------------------------------------------------------------------------
ISR  == \/ \E e \in Entry : Enter(e)
        \/ \E s \in Strings : StringEnter(s)
        \/ Revoke

Main == \/ \E n \in 1..SqqLen : ReadBegin(n)
        \/ DelCheck \/ DelPublish \/ CopyOut
        \/ ClearFront \/ ClearRear
        \/ \E offset \in Index : Remove(offset)

Next == ISR \/ Main

Spec == Init /\ [][Next]_vars

----------------------------------------------------------------------------
TypeOK == /\ base \in [Index -> Entry]
          /\ front \in Index /\ rear \in Index
          /\ rpc \in RPC
          /\ rem \in 0..SqqLen
          /\ p_elem \in Index

\* A batch that get_len let start never meets an empty queue, whatever the
\* interrupt handler does meanwhile: the callers dereference the pointer that
\* delete_sqqueue returns without testing it (ymodem.c:183, data_analysis.c:408).
NoNullRead == rpc # "null"

\* What get_len entitles the reader to stays in the queue until it is taken.
ReaderClaim ==
    /\ rpc \in {"idle", "clear"} => rem = 0
    /\ rpc \in {"del", "publish"} => 1 <= rem
    /\ rpc \in {"del", "publish", "copy"} => rem <= Length
    /\ rpc = "publish" => p_elem = front
    /\ rpc = "copy" => front = Wrap(p_elem + 1)
    /\ rpc = "clear" => front = 0

\* The inductive invariant.
IInv == TypeOK /\ NoNullRead /\ ReaderClaim

\* While the reader has not copied the element yet, the interrupt handler does
\* not write the slot the pointer leads to, although the slot is already out of
\* the queue: the spare slot of the ring (sqqueue.c:33) keeps the writer off it.
HandedSlotUntouched ==
    [][rpc = "copy" => base'[p_elem] = base[p_elem]]_vars

\* string_enter appends exactly its run, in order (sqqueue.c:139).
StringEnterAppends ==
    [][\A s \in Strings :
          StringEnter(s) => Contents' = Contents \o s]_vars

\* The ring implements the bounded queue.  Between the two stores of a clear
\* the queue already counts as empty: what arrives then is lost.
F == INSTANCE Fifo WITH
        Capacity <- SqqLen,
        q        <- IF rpc = "clear" THEN <<>> ELSE Contents,
        taken    <- IF rpc = "copy" THEN base[p_elem] ELSE None

FifoSpec == F!Spec
============================================================================
