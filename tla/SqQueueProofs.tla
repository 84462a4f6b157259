--------------------------- MODULE SqQueueProofs ---------------------------
(***************************************************************************)
(* Theorems about the ring queue for every capacity, every set of element  *)
(* values and every range of the copy counter.                             *)
(***************************************************************************)
EXTENDS SqQueue, SequenceTheorems, TLAPS

\* A remainder is no larger than what was divided.
LEMMA ModBound ==
    ASSUME NEW x \in Nat, NEW y \in Nat \ {0}
    PROVE  x % y \in Nat /\ x % y <= x
  BY SMT

\* Below the divisor the remainder is the number itself.
LEMMA ModSmall ==
    ASSUME NEW x \in Nat, NEW y \in Nat \ {0}, x < y
    PROVE  x % y = x
  BY SMT

\* The length is at most the capacity, and 0 exactly when the indices meet: the
\* spare slot keeps a full queue apart from an empty one.
LEMMA LengthType ==
    ASSUME NEW f \in Index, NEW r \in Index
    PROVE  /\ LengthOf(f, r) \in 0..SqqLen
           /\ LengthOf(f, r) = 0 <=> f = r
  BY SqqLenAssumption DEF LengthOf, Index, Slots

\* Advancing rear over free slots adds as many items.
LEMMA LengthAdvance ==
    ASSUME NEW f \in Index, NEW r \in Index, NEW n \in Nat,
           n <= SqqLen - LengthOf(f, r)
    PROVE  /\ Wrap(r + n) \in Index
           /\ LengthOf(f, Wrap(r + n)) = LengthOf(f, r) + n
  BY SqqLenAssumption DEF LengthOf, Index, Slots, Wrap

\* Advancing front takes one item.
LEMMA LengthTake ==
    ASSUME NEW f \in Index, NEW r \in Index, f # r
    PROVE  /\ Wrap(f + 1) \in Index
           /\ LengthOf(Wrap(f + 1), r) = LengthOf(f, r) - 1
  BY SqqLenAssumption DEF LengthOf, Index, Slots, Wrap

\* Stepping rear back takes one item.
LEMMA LengthRevoke ==
    ASSUME NEW f \in Index, NEW r \in Index, f # r
    PROVE  /\ Back(r) \in Index
           /\ LengthOf(f, Back(r)) = LengthOf(f, r) - 1
  BY SqqLenAssumption DEF LengthOf, Index, Slots, Back

----------------------------------------------------------------------------
\* A run of items is a function on 1..Len(s), with at least one item.
LEMMA StringType ==
    ASSUME NEW s \in Strings
    PROVE  /\ Len(s) \in 1..MaxString
           /\ \A k \in 1..Len(s) : s[k] \in Entry
<1>1. PICK n \in 1..MaxString : s \in [1..n -> Entry]
  BY DEF Strings
<1>2. Len(s) = n
  BY <1>1, MaxStringAssumption
<1>3. QED
  BY <1>1, <1>2

\* The slots a StringEnter leaves behind hold elements, and it writes only
\* slots between rear and the front.
LEMMA CopyType ==
    ASSUME TypeOK, NEW s \in Strings, Len(s) <= SqqLen - Length
    PROVE  /\ rear + Len(s) >= Slots => WrappedCopy(s) \in [Index -> Entry]
           /\ rear + Len(s) < Slots => StraightCopy(s) \in [Index -> Entry]
<1>1. Len(s) \in Nat /\ \A k \in 1..Len(s) : s[k] \in Entry
  BY StringType, MaxStringAssumption
<1>2. ASSUME rear + Len(s) >= Slots
      PROVE  WrappedCopy(s) \in [Index -> Entry]
  <2> DEFINE half == (Slots - rear) % HalfRange
  <2>1. half \in Nat /\ half <= Slots - rear
    BY ModBound, HalfRangeAssumption, SqqLenAssumption DEF TypeOK, Index, Slots
  <2> HIDE DEF half
  <2>2. ASSUME NEW i \in Index, rear <= i, i < rear + half
        PROVE  s[i - rear + 1] \in Entry
    <3>1. i - rear + 1 \in 1..Len(s)
      BY <1>1, <1>2, <2>1, <2>2, SqqLenAssumption DEF TypeOK, Index, Slots
    <3>2. QED
      BY <1>1, <3>1
  <2>3. ASSUME NEW i \in Index, i < rear + Len(s) - Slots
        PROVE  s[half + i + 1] \in Entry
    <3>1. half + i + 1 \in 1..Len(s)
      BY <1>1, <2>1, <2>3, SqqLenAssumption DEF TypeOK, Index, Slots
    <3>2. QED
      BY <1>1, <3>1
  <2>4. QED
    BY <2>2, <2>3 DEF WrappedCopy, TypeOK, half
<1>3. ASSUME rear + Len(s) < Slots
      PROVE  StraightCopy(s) \in [Index -> Entry]
  <2>1. ASSUME NEW i \in Index, rear <= i, i < rear + Len(s)
        PROVE  s[i - rear + 1] \in Entry
    <3>1. i - rear + 1 \in 1..Len(s)
      BY <1>1, <2>1, SqqLenAssumption DEF TypeOK, Index, Slots
    <3>2. QED
      BY <1>1, <3>1
  <2>2. QED
    BY <2>1 DEF StraightCopy, TypeOK
<1>4. QED
  BY <1>2, <1>3

----------------------------------------------------------------------------
\* An empty queue with an idle reader satisfies the invariant.
LEMMA InvariantInit == Init => IInv
  BY SqqLenAssumption DEF Init, IInv, TypeOK, NoNullRead, ReaderClaim, Index,
     Slots, RPC

\* No step, of the interrupt handler or of the main loop, breaks the
\* inductive invariant.
LEMMA InvariantStep == IInv /\ [Next]_vars => IInv'
<1> SUFFICES ASSUME IInv, [Next]_vars PROVE IInv'
  OBVIOUS
<1> USE SqqLenAssumption
<1>0. /\ front \in Index /\ rear \in Index /\ p_elem \in Index
      /\ rem \in 0..SqqLen /\ rpc \in RPC /\ base \in [Index -> Entry]
      /\ Length \in 0..SqqLen
  BY LengthType DEF IInv, TypeOK, Length
<1>1. ASSUME NEW e \in Entry, Enter(e) PROVE IInv'
  <2>1. Length # SqqLen
    BY <1>0, <1>1 DEF Enter, Length, LengthOf, Wrap, Index, Slots
  <2>2. rear' \in Index /\ Length' = Length + 1
    <3>1. 1 \in Nat /\ 1 <= SqqLen - LengthOf(front, rear)
      BY <1>0, <2>1 DEF Length
    <3>2. /\ Wrap(rear + 1) \in Index
          /\ LengthOf(front, Wrap(rear + 1)) = LengthOf(front, rear) + 1
      BY <1>0, <3>1, LengthAdvance
    <3>3. QED
      BY <1>1, <3>2 DEF Enter, Length
  <2>3. base' \in [Index -> Entry]
    BY <1>0, <1>1 DEF Enter
  <2>4. QED
    BY <1>0, <1>1, <2>2, <2>3
       DEF Enter, IInv, TypeOK, NoNullRead, ReaderClaim
<1>2. ASSUME NEW s \in Strings, StringEnter(s) PROVE IInv'
  <2>1. Len(s) \in Nat /\ Len(s) <= SqqLen - Length
    BY <1>0, <1>2, StringType, MaxStringAssumption DEF StringEnter, Slots
  <2>2. rear' \in Index /\ Length' = Length + Len(s)
    BY <1>0, <1>2, <2>1, LengthAdvance DEF StringEnter, Length
  <2>3. base' \in [Index -> Entry]
    BY <1>0, <1>2, <2>1, CopyType DEF StringEnter, IInv, TypeOK, Index, Slots
  <2>4. QED
    BY <1>0, <1>2, <2>1, <2>2, <2>3
       DEF StringEnter, IInv, TypeOK, NoNullRead, ReaderClaim
<1>3. ASSUME Revoke PROVE IInv'
  <2>1. rear' \in Index /\ Length' = Length - 1
    BY <1>0, <1>3, LengthRevoke DEF Revoke, Length
  <2>2. QED
    BY <1>0, <1>3, <2>1 DEF Revoke, IInv, TypeOK, NoNullRead, ReaderClaim
<1>4. ASSUME NEW n \in 1..SqqLen, ReadBegin(n) PROVE IInv'
  BY <1>0, <1>4
     DEF ReadBegin, IInv, TypeOK, NoNullRead, ReaderClaim, RPC, Length
<1>5. ASSUME DelCheck PROVE IInv'
  <2>1. Length # 0
    BY <1>0, <1>5 DEF DelCheck, IInv, ReaderClaim
  <2>2. rear # front
    BY <1>0, <2>1, LengthType DEF Length
  <2>3. QED
    BY <1>0, <1>5, <2>2
       DEF DelCheck, IInv, TypeOK, NoNullRead, ReaderClaim, RPC, Length
<1>6. ASSUME DelPublish PROVE IInv'
  <2>1. Length # 0 /\ 1 <= rem /\ rem <= Length /\ p_elem = front
    BY <1>0, <1>6 DEF DelPublish, IInv, ReaderClaim
  <2>2. front # rear
    BY <1>0, <2>1, LengthType DEF Length
  <2>3. front' \in Index /\ Length' = Length - 1
    BY <1>0, <1>6, <2>2, LengthTake DEF DelPublish, Length
  <2>4. QED
    BY <1>0, <1>6, <2>1, <2>3
       DEF DelPublish, IInv, TypeOK, NoNullRead, ReaderClaim, RPC
<1>7. ASSUME CopyOut PROVE IInv'
  BY <1>0, <1>7
     DEF CopyOut, IInv, TypeOK, NoNullRead, ReaderClaim, RPC, Length
<1>8. ASSUME ClearFront \/ ClearRear PROVE IInv'
  BY <1>0, <1>8 DEF ClearFront, ClearRear, IInv, TypeOK, NoNullRead,
     ReaderClaim, RPC, Index, Slots
<1>9. ASSUME NEW offset \in Index, Remove(offset) PROVE IInv'
  <2>1. front' \in Index
    BY <1>0, <1>9, LengthTake DEF Remove
  <2>2. base' \in [Index -> Entry]
    <3>1. \A i \in Index : Back(i) \in Index
      BY DEF Back, Index, Slots
    <3>2. QED
      BY <1>0, <1>9, <3>1 DEF Remove
  <2>3. QED
    BY <1>0, <1>9, <2>1, <2>2
       DEF Remove, IInv, TypeOK, NoNullRead, ReaderClaim
<1>10. CASE UNCHANGED vars
  BY <1>10 DEF vars, IInv, TypeOK, NoNullRead, ReaderClaim, Length
<1>11. QED
  BY <1>1, <1>2, <1>3, <1>4, <1>5, <1>6, <1>7, <1>8, <1>9, <1>10
     DEF Next, ISR, Main

\* The invariant holds throughout, for every capacity.
THEOREM Invariance == Spec => []IInv
  BY InvariantInit, InvariantStep, PTL DEF Spec

\* Every variable stays in its range, for every capacity.
THEOREM TypeCorrect == Spec => []TypeOK
  BY Invariance, PTL DEF IInv

\* The reader is never handed NULL.
THEOREM NeverNull == Spec => []NoNullRead
  BY Invariance, PTL DEF IInv

----------------------------------------------------------------------------
\* The slot in the reader's hand lies just outside the free slots, so neither
\* enter nor string_enter writes it, whatever their run is.
LEMMA HandedSlotStep ==
    ASSUME IInv, [Next]_vars, rpc = "copy"
    PROVE  base'[p_elem] = base[p_elem]
<1> USE SqqLenAssumption
<1>0. /\ front \in Index /\ rear \in Index /\ p_elem \in Index
      /\ base \in [Index -> Entry]
      /\ front = Wrap(p_elem + 1)
  BY DEF IInv, TypeOK, ReaderClaim
<1>1. ASSUME NEW e \in Entry, Enter(e)
      PROVE  base'[p_elem] = base[p_elem]
  <2>1. rear # p_elem
    BY <1>0, <1>1 DEF Enter
  <2>2. QED
    BY <1>0, <1>1, <2>1 DEF Enter
<1>2. ASSUME NEW s \in Strings, StringEnter(s)
      PROVE  base'[p_elem] = base[p_elem]
  <2>1. Len(s) \in Nat /\ Len(s) <= SqqLen - Length
    BY <1>0, <1>2, StringType, MaxStringAssumption DEF StringEnter, Slots
  <2>2. CASE rear + Len(s) >= Slots
    <3> DEFINE half == (Slots - rear) % HalfRange
    <3>1. half \in Nat /\ half <= Slots - rear
      BY <1>0, ModBound, HalfRangeAssumption DEF Index, Slots
    <3> HIDE DEF half
    <3>2. /\ ~(rear <= p_elem /\ p_elem < rear + half)
          /\ ~(p_elem < rear + Len(s) - Slots)
      BY <1>0, <2>1, <2>2, <3>1 DEF Length, LengthOf, Wrap, Index, Slots
    <3>3. WrappedCopy(s)[p_elem] = base[p_elem]
      BY <1>0, <3>2 DEF WrappedCopy, half
    <3>4. QED
      BY <1>2, <2>2, <3>3 DEF StringEnter
  <2>3. CASE ~(rear + Len(s) >= Slots)
    <3>1. ~(rear <= p_elem /\ p_elem < rear + Len(s))
      BY <1>0, <2>1, <2>3 DEF Length, LengthOf, Wrap, Index, Slots
    <3>2. StraightCopy(s)[p_elem] = base[p_elem]
      BY <1>0, <3>1 DEF StraightCopy
    <3>3. QED
      BY <1>2, <2>3, <3>2 DEF StringEnter
  <2>4. QED
    BY <2>2, <2>3
<1>3. CASE UNCHANGED base
  BY <1>3
<1>4. QED
  BY <1>1, <1>2, <1>3 DEF Next, ISR, Main, vars, Revoke, ReadBegin, DelCheck,
     DelPublish, CopyOut, ClearFront, ClearRear, Remove

\* The element stays what it was while the reader copies it.
THEOREM HandedSlotSafe == Spec => HandedSlotUntouched
<1>1. IInv /\ [Next]_vars
        => [rpc = "copy" => base'[p_elem] = base[p_elem]]_vars
  BY HandedSlotStep
<1>2. QED
  BY <1>1, Invariance, PTL DEF Spec, HandedSlotUntouched

----------------------------------------------------------------------------
\* The run stays clear of the end of the ring, or fewer slots are left before it
\* than `half` has values.
HalfHolds(s) == rear + Len(s) < Slots \/ Slots - rear < HalfRange

\* Such a run is appended, wherever the indices stand.
LEMMA AppendStep ==
    ASSUME IInv, NEW s \in Strings, StringEnter(s), HalfHolds(s)
    PROVE  Contents' = Contents \o s
<1> USE SqqLenAssumption
<1>0. /\ front \in Index /\ rear \in Index /\ base \in [Index -> Entry]
      /\ Length \in 0..SqqLen
  BY LengthType DEF IInv, TypeOK, Length
<1>1. Len(s) \in Nat /\ Len(s) <= SqqLen - Length
  BY <1>0, StringType, MaxStringAssumption DEF StringEnter, Slots
<1>2. Length' = Length + Len(s) /\ front' = front
  BY <1>0, <1>1, LengthAdvance DEF StringEnter, Length
<1>3. ASSUME NEW k \in 1..(Length + Len(s))
      PROVE  /\ Wrap(front + k - 1) \in Index
             /\ base'[Wrap(front + k - 1)] =
                   IF k <= Length THEN base[Wrap(front + k - 1)]
                                  ELSE s[k - Length]
  <2> DEFINE j == Wrap(front + k - 1)
  <2>1. j \in Index
    BY <1>0, <1>1 DEF Wrap, Index, Slots
  <2>2. CASE rear + Len(s) >= Slots
    <3> DEFINE half == (Slots - rear) % HalfRange
    <3>1. half = Slots - rear
      <4>1. rear \in Nat /\ Slots \in Nat /\ rear < Slots
        BY <1>0 DEF Index, Slots
      <4>2. Slots - rear \in Nat /\ Slots - rear < HalfRange
        BY <1>1, <2>2, <4>1, HalfRangeAssumption DEF HalfHolds
      <4>3. QED
        BY <4>2, ModSmall, HalfRangeAssumption
    <3> HIDE DEF half
    <3>2. base'[j] = IF rear <= j /\ j < rear + half THEN s[j - rear + 1]
                     ELSE IF j < rear + Len(s) - Slots THEN s[half + j + 1]
                     ELSE base[j]
      BY <1>0, <2>1, <2>2 DEF StringEnter, WrappedCopy, half
    <3> HIDE DEF j
    <3>3. /\ k <= Length => /\ ~(rear <= j /\ j < rear + half)
                           /\ ~(j < rear + Len(s) - Slots)
          /\ k > Length /\ rear <= j => j - rear + 1 = k - Length
          /\ k > Length /\ ~(rear <= j) => /\ j < rear + Len(s) - Slots
                                           /\ half + j + 1 = k - Length
      BY <1>0, <1>1, <2>1, <2>2, <3>1
         DEF j, Wrap, Length, LengthOf, Index, Slots
    <3>4. k > Length /\ rear <= j => j < rear + half
      BY <1>0, <2>1, <3>1 DEF Index, Slots
    <3>5. CASE k <= Length
      BY <3>2, <3>3, <3>5, <2>1 DEF j
    <3>6. CASE ~(k <= Length)
      <4>1. k > Length
        BY <1>0, <1>1, <3>6
      <4>2. CASE rear <= j
        BY <3>2, <3>3, <3>4, <3>6, <4>1, <4>2, <2>1 DEF j
      <4>3. CASE ~(rear <= j)
        BY <3>2, <3>3, <3>6, <4>1, <4>3, <2>1 DEF j
      <4>4. QED
        BY <4>2, <4>3
    <3>7. QED
      BY <3>5, <3>6
  <2>3. CASE ~(rear + Len(s) >= Slots)
    <3>1. base'[j] = IF rear <= j /\ j < rear + Len(s) THEN s[j - rear + 1]
                                                       ELSE base[j]
      BY <1>0, <2>1, <2>3 DEF StringEnter, StraightCopy
    <3> HIDE DEF j
    <3>2. /\ k <= Length => ~(rear <= j /\ j < rear + Len(s))
          /\ k > Length => /\ rear <= j /\ j < rear + Len(s)
                           /\ j - rear + 1 = k - Length
      BY <1>0, <1>1, <2>1, <2>3 DEF j, Wrap, Length, LengthOf, Index, Slots
    <3>3. k <= Length \/ k > Length
      BY <1>0, <1>1
    <3>4. CASE k <= Length
      BY <3>1, <3>2, <3>4, <2>1 DEF j
    <3>5. CASE k > Length
      <4>1. ~(k <= Length)
        BY <1>0, <1>1, <3>5
      <4>2. QED
        BY <3>1, <3>2, <3>5, <4>1, <2>1 DEF j
    <3>6. QED
      BY <3>3, <3>4, <3>5
  <2>4. QED
    BY <2>2, <2>3
<1>4. Contents' = [k \in 1..(Length + Len(s)) |->
                     IF k <= Length THEN Contents[k] ELSE s[k - Length]]
  <2>1. Contents' = [k \in 1..(Length + Len(s)) |->
                       base'[Wrap(front + k - 1)]]
    BY <1>2 DEF Contents, Items
  <2>2. ASSUME NEW k \in 1..(Length + Len(s))
        PROVE  base'[Wrap(front + k - 1)] =
                 IF k <= Length THEN Contents[k] ELSE s[k - Length]
    <3>1. k <= Length => Contents[k] = base[Wrap(front + k - 1)]
      BY <1>0 DEF Contents, Items
    <3>2. QED
      BY <1>3, <3>1
  <2>3. QED
    BY <2>1, <2>2
<1>5. Contents \in Seq(Entry) /\ Len(Contents) = Length
  <2>1. \A k \in 1..Length : base[Wrap(front + k - 1)] \in Entry
    BY <1>0 DEF Wrap, Index, Slots
  <2>2. QED
    BY <1>0, <2>1 DEF Contents, Items
<1>6. s \in Seq(Entry)
  <2>1. PICK n \in 1..MaxString : s \in [1..n -> Entry]
    BY DEF Strings
  <2>2. QED
    BY <2>1, MaxStringAssumption
<1>7. /\ Contents \o s \in Seq(Entry)
      /\ Len(Contents \o s) = Length + Len(s)
      /\ \A k \in 1..(Length + Len(s)) :
            (Contents \o s)[k] = IF k <= Length THEN Contents[k]
                                               ELSE s[k - Length]
  <2> HIDE DEF Contents
  <2>1. QED
    BY <1>0, <1>1, <1>5, <1>6
<1>8. Contents \o s = [k \in 1..(Length + Len(s)) |->
                        IF k <= Length THEN Contents[k] ELSE s[k - Length]]
  <2> DEFINE c == [k \in 1..(Length + Len(s)) |->
                     IF k <= Length THEN Contents[k] ELSE s[k - Length]]
  <2>1. \A k \in 1..(Length + Len(s)) :
           (IF k <= Length THEN Contents[k] ELSE s[k - Length]) \in Entry
    <3> HIDE DEF Contents
    <3>1. QED
      BY <1>0, <1>1, <1>5, <1>6
  <2>2. c \in Seq(Entry) /\ Len(c) = Length + Len(s)
    BY <1>0, <1>1, <2>1
  <2>3. \A k \in 1..(Length + Len(s)) : (Contents \o s)[k] = c[k]
    BY <1>7
  <2> HIDE DEF c, Contents
  <2>4. Contents \o s = c
    BY <1>7, <2>2, <2>3, SeqEqual
  <2>5. QED
    BY <2>4 DEF c
<1>9. QED
  BY <1>4, <1>8

----------------------------------------------------------------------------
\* The n items from slot f on, as a sequence of elements.
LEMMA ItemsType ==
    ASSUME NEW b \in [Index -> Entry], NEW f \in Index, NEW n \in 0..SqqLen
    PROVE  /\ Items(b, f, n) \in Seq(Entry)
           /\ Len(Items(b, f, n)) = n
           /\ \A k \in 1..n : /\ Wrap(f + k - 1) \in Index
                              /\ Items(b, f, n)[k] = b[Wrap(f + k - 1)]
<1>1. \A k \in 1..n : Wrap(f + k - 1) \in Index
  BY SqqLenAssumption DEF Wrap, Index, Slots
<1>2. Items(b, f, n) = [k \in 1..n |-> b[Wrap(f + k - 1)]]
  BY DEF Items
<1>3. \A k \in 1..n : b[Wrap(f + k - 1)] \in Entry
  BY <1>1
<1>4. n \in Nat
  BY SqqLenAssumption
<1>5. QED
  BY <1>1, <1>2, <1>3, <1>4

\* The queue as a sequence of elements.
LEMMA ContentsType ==
    ASSUME IInv
    PROVE  /\ Contents \in Seq(Entry)
           /\ Len(Contents) = Length /\ Length \in 0..SqqLen
           /\ \A k \in 1..Length : /\ Wrap(front + k - 1) \in Index
                                   /\ Contents[k] = base[Wrap(front + k - 1)]
<1>1. /\ base \in [Index -> Entry] /\ front \in Index
      /\ Length \in 0..SqqLen
  BY LengthType DEF IInv, TypeOK, Length
<1>2. QED
  BY <1>1, ItemsType DEF Contents

\* What enter writes lies behind everything that is queued.
LEMMA EnterKeeps ==
    ASSUME IInv, NEW e \in Entry, Enter(e), NEW k \in 1..Length
    PROVE  base'[Wrap(front + k - 1)] = base[Wrap(front + k - 1)]
<1>1. /\ base \in [Index -> Entry] /\ front \in Index /\ rear \in Index
      /\ Length \in 0..SqqLen
  BY LengthType DEF IInv, TypeOK, Length
<1>2. Wrap(front + k - 1) \in Index /\ Wrap(front + k - 1) # rear
  BY <1>1, SqqLenAssumption DEF Wrap, Length, LengthOf, Index, Slots
<1>3. QED
  BY <1>1, <1>2 DEF Enter

\* So does what string_enter writes, even where `half` has overflowed.
LEMMA StringEnterKeeps ==
    ASSUME IInv, NEW s \in Strings, StringEnter(s), NEW k \in 1..Length
    PROVE  base'[Wrap(front + k - 1)] = base[Wrap(front + k - 1)]
<1> USE SqqLenAssumption
<1>0. /\ front \in Index /\ rear \in Index /\ base \in [Index -> Entry]
      /\ Length \in 0..SqqLen
  BY LengthType DEF IInv, TypeOK, Length
<1>1. Len(s) \in Nat /\ Len(s) <= SqqLen - Length
  BY <1>0, StringType, MaxStringAssumption DEF StringEnter, Slots
<1> DEFINE j == Wrap(front + k - 1)
<1>2. j \in Index
  BY <1>0 DEF Wrap, Index, Slots
<1>3. CASE rear + Len(s) >= Slots
  <2> DEFINE half == (Slots - rear) % HalfRange
  <2>1. half \in Nat /\ half <= Slots - rear
    BY <1>0, ModBound, HalfRangeAssumption DEF Index, Slots
  <2>2. base'[j] = IF rear <= j /\ j < rear + half THEN s[j - rear + 1]
                   ELSE IF j < rear + Len(s) - Slots THEN s[half + j + 1]
                   ELSE base[j]
    BY <1>2, <1>3 DEF StringEnter, WrappedCopy
  <2> HIDE DEF half
  <2>3. /\ ~(rear <= j /\ j < rear + half)
        /\ ~(j < rear + Len(s) - Slots)
    BY <1>0, <1>1, <1>3, <2>1 DEF Wrap, Length, LengthOf, Index, Slots
  <2>4. QED
    BY <2>2, <2>3
<1>4. CASE ~(rear + Len(s) >= Slots)
  <2>1. base'[j] = IF rear <= j /\ j < rear + Len(s) THEN s[j - rear + 1]
                                                     ELSE base[j]
    BY <1>2, <1>4 DEF StringEnter, StraightCopy
  <2>2. ~(rear <= j /\ j < rear + Len(s))
    BY <1>0, <1>1, <1>4 DEF Wrap, Length, LengthOf, Index, Slots
  <2>3. QED
    BY <2>1, <2>2
<1>5. QED
  BY <1>3, <1>4

\* Whatever run string_enter takes, nothing that was queued changes and the queue is
\* longer by the run; and what it has appended is the run (sqqueue.c:139) if that stays
\* clear of the end of the ring or fewer slots are left before it than the uint8_t of
\* sqqueue.c:173 has values.  That is said of the call, not of the ring: it covers the
\* 1030 slots of ymodem.c:584 as well.
THEOREM AppendSafe ==
    Spec => [][\A s \in Strings : StringEnter(s) =>
                 /\ Len(Contents') = Len(Contents) + Len(s)
                 /\ \A k \in 1..Len(Contents) : Contents'[k] = Contents[k]
                 /\ HalfHolds(s) => Contents' = Contents \o s]_vars
<1>1. ASSUME IInv, NEW s \in Strings, StringEnter(s)
      PROVE  /\ Len(Contents') = Len(Contents) + Len(s)
             /\ \A k \in 1..Len(Contents) : Contents'[k] = Contents[k]
  <2>1. /\ front \in Index /\ rear \in Index /\ Length \in 0..SqqLen
        /\ Len(Contents) = Length
        /\ \A k \in 1..Length : Contents[k] = base[Wrap(front + k - 1)]
    BY <1>1, ContentsType DEF IInv, TypeOK
  <2>2. Len(s) \in Nat /\ Len(s) <= SqqLen - Length
    BY <1>1, <2>1, StringType, MaxStringAssumption, SqqLenAssumption DEF StringEnter, Slots
  <2>3. Length' = Length + Len(s) /\ front' = front
    BY <1>1, <2>1, <2>2, LengthAdvance DEF StringEnter, Length
  <2>4. Length' \in Nat /\ \A k \in 1..Length : k \in 1..Length'
    BY <2>1, <2>2, <2>3
  <2>5. Contents' = [k \in 1..Length' |-> base'[Wrap(front + k - 1)]]
    BY <2>3 DEF Contents, Items
  <2>6. Len(Contents') = Length'
    BY <2>4, <2>5
  <2>7. \A k \in 1..Length : Contents'[k] = base[Wrap(front + k - 1)]
    BY <1>1, <2>4, <2>5, StringEnterKeeps
  <2>8. QED
    BY <2>1, <2>3, <2>6, <2>7
<1>2. IInv /\ [Next]_vars
        => [\A s \in Strings : StringEnter(s) =>
              /\ Len(Contents') = Len(Contents) + Len(s)
              /\ \A k \in 1..Len(Contents) : Contents'[k] = Contents[k]
              /\ HalfHolds(s) => Contents' = Contents \o s]_vars
  BY <1>1, AppendStep
<1>3. QED
  BY <1>2, Invariance, PTL DEF Spec

\* What the abstract queue holds, and what its reader has in hand.
Queued == IF rpc = "clear" THEN <<>> ELSE Contents
InHand == IF rpc = "copy" THEN base[p_elem] ELSE None

\* A step of the writer that keeps every queued item and only adds some is a Put,
\* or nothing at all between the two stores of a clear.
LEMMA WriterPuts ==
    ASSUME IInv, IInv', rpc' = rpc, front' = front, Length <= Length',
           \A k \in 1..Length :
              base'[Wrap(front + k - 1)] = base[Wrap(front + k - 1)],
           rpc = "copy" => base'[p_elem] = base[p_elem], p_elem' = p_elem
    PROVE  F!Put \/ UNCHANGED <<Queued, InHand>>
<1>1. InHand' = InHand
  BY DEF InHand
<1>2. CASE rpc = "clear"
  BY <1>1, <1>2 DEF Queued
<1>3. CASE rpc # "clear"
  <2>1. Queued = Contents /\ Queued' = Contents'
    BY <1>3 DEF Queued
  <2>2. /\ Contents \in Seq(Entry) /\ Len(Contents) = Length
        /\ Length \in 0..SqqLen
        /\ \A k \in 1..Length : Contents[k] = base[Wrap(front + k - 1)]
    BY ContentsType
  <2>3. (/\ Contents \in Seq(Entry) /\ Len(Contents) = Length
         /\ Length \in 0..SqqLen
         /\ \A k \in 1..Length : Contents[k] = base[Wrap(front + k - 1)])'
    <3>1. /\ base' \in [Index -> Entry] /\ front' \in Index
          /\ Length' \in 0..SqqLen
      BY LengthType DEF IInv, TypeOK, Length
    <3>2. QED
      BY <3>1, ItemsType DEF Contents
  <2>4. \A k \in 1..Length : Contents'[k] = base'[Wrap(front + k - 1)]
    BY <2>2, <2>3
  <2>5. \A k \in 1..Length : Contents'[k] = Contents[k]
    BY <2>2, <2>4
  <2>6. QED
    BY <1>1, <2>1, <2>2, <2>3, <2>5 DEF F!Put, Queued, InHand
<1>4. QED
  BY <1>2, <1>3

\* The oldest item goes from the queue into the reader's hand.
LEMMA PublishTakes ==
    ASSUME IInv, DelPublish
    PROVE  F!Take
<1>0. /\ front \in Index /\ rear \in Index /\ base \in [Index -> Entry]
      /\ p_elem = front /\ 1 <= rem /\ rem <= Length /\ rpc = "publish"
  BY DEF IInv, TypeOK, ReaderClaim, DelPublish
<1>1. /\ Contents \in Seq(Entry) /\ Len(Contents) = Length
      /\ Length \in 0..SqqLen
      /\ \A k \in 1..Length : Contents[k] = base[Wrap(front + k - 1)]
  BY ContentsType
<1>2. Length \in Nat /\ 1 <= Length /\ rem \in Nat
  BY <1>0, <1>1, SqqLenAssumption DEF IInv, TypeOK
<1>3. front # rear
  BY <1>0, <1>2, LengthType DEF Length
<1>4. front' = Wrap(front + 1) /\ front' \in Index /\ Length' = Length - 1
  BY <1>0, <1>3, LengthTake DEF DelPublish, Length
<1>5. /\ Contents' \in Seq(Entry) /\ Len(Contents') = Length - 1
      /\ \A k \in 1..(Length - 1) : Contents'[k] = base[Wrap(front' + k - 1)]
  <2>1. Length' \in 0..SqqLen
    BY <1>1, <1>2, <1>4, SqqLenAssumption
  <2>2. Contents' = Items(base, front', Length')
    BY DEF Contents, DelPublish, Items, Wrap, Slots
  <2>3. QED
    BY <1>0, <1>4, <2>1, <2>2, ItemsType
<1>6. \A k \in 1..(Length - 1) : Wrap(front' + k - 1) = Wrap(front + (k + 1) - 1)
  BY <1>0, <1>1, <1>4, SqqLenAssumption DEF Wrap, Index, Slots
<1>7. \A k \in 1..(Length - 1) : Contents'[k] = Contents[k + 1]
  BY <1>1, <1>2, <1>5, <1>6
<1>8. Contents[1] = base[p_elem]
  <2>1. Wrap(front + 1 - 1) = front
    BY <1>0, SqqLenAssumption DEF Wrap, Index, Slots
  <2>2. QED
    BY <1>0, <1>1, <1>2, <2>1
<1>9. Contents # <<>> /\ Head(Contents) = base[p_elem]
  BY <1>1, <1>2, <1>8
<1>10. Contents' = Tail(Contents)
  <2>1. /\ Tail(Contents) \in Seq(Entry) /\ Len(Tail(Contents)) = Length - 1
        /\ \A k \in 1..(Length - 1) : Tail(Contents)[k] = Contents[k + 1]
    BY <1>1, <1>2, <1>9
  <2>2. QED
    BY <1>5, <1>7, <2>1, SeqEqual
<1>11. /\ Queued = Contents /\ Queued' = Contents'
       /\ InHand = None /\ InHand' = base[p_elem]
  BY <1>0 DEF DelPublish, Queued, InHand
<1>12. QED
  BY <1>9, <1>10, <1>11 DEF F!Take, Queued, InHand

\* The item a remove drops is the one at its offset, or the last when the queue
\* ends before it; the others keep their order.
LEMMA RemoveDrops ==
    ASSUME IInv, NEW offset \in Index, Remove(offset)
    PROVE  F!Drop
<1> USE SqqLenAssumption
<1>0. /\ front \in Index /\ rear \in Index /\ base \in [Index -> Entry]
      /\ rpc = "idle" /\ front # rear /\ offset \in Nat
  BY DEF IInv, TypeOK, Remove, Index, Slots
<1>1. /\ Contents \in Seq(Entry) /\ Len(Contents) = Length
      /\ Length \in 0..SqqLen
      /\ \A k \in 1..Length : /\ Wrap(front + k - 1) \in Index
                              /\ Contents[k] = base[Wrap(front + k - 1)]
  BY ContentsType
<1>2. Length \in Nat /\ 1 <= Length
  BY <1>0, <1>1, LengthType DEF Length
<1>3. front' = Wrap(front + 1) /\ front' \in Index /\ Length' = Length - 1
  BY <1>0, LengthTake DEF Remove, Length
<1>4. base' \in [Index -> Entry]
  <2>1. \A i \in Index : Back(i) \in Index
    BY DEF Back, Index, Slots
  <2>2. QED
    BY <1>0, <2>1 DEF Remove
<1>5. /\ Contents' \in Seq(Entry) /\ Len(Contents') = Length - 1
      /\ \A k \in 1..(Length - 1) : Contents'[k] = base'[Wrap(front' + k - 1)]
  <2>1. Length' \in 0..SqqLen
    BY <1>1, <1>2, <1>3
  <2>2. Contents' = Items(base', front', Length')
    BY DEF Contents
  <2>3. QED
    BY <1>3, <1>4, <2>1, <2>2, ItemsType, Zenon
<1> DEFINE cut == IF offset + 1 <= Length THEN offset + 1 ELSE Length
<1>6. cut \in 1..Length
  <2>1. offset \in Nat
    BY <1>0
  <2>2. QED
    BY <1>2, <2>1, SMTT(30)
<1>7. ASSUME NEW k \in 1..(Length - 1)
      PROVE  Contents'[k] = IF k < cut THEN Contents[k] ELSE Contents[k + 1]
  <2> DEFINE j == Wrap(front' + k - 1)
  <2>1. k \in 1..Length /\ k + 1 \in 1..Length
    BY <1>2
  <2>2. j \in Index /\ j = Wrap(front + (k + 1) - 1)
    BY <1>0, <1>1, <1>3 DEF Wrap, Index, Slots
  <2>3. LengthOf(front, j) = k /\ Back(j) = Wrap(front + k - 1)
    <3>1. front \in 0..SqqLen /\ k \in 1..SqqLen - 1
      BY <1>0, <1>1 DEF Index, Slots
    <3>2. LengthOf(front, j) = k
      BY <2>2, <3>1 DEF Wrap, LengthOf, Slots
    <3>3. Back(j) = Wrap(front + k - 1)
      BY <2>2, <3>1 DEF Wrap, Back, Slots
    <3>4. QED
      BY <3>2, <3>3
  <2> HIDE DEF j
  <2>4. base'[j] = IF k <= offset THEN base[Back(j)] ELSE base[j]
    <3>1. 1 <= LengthOf(front, j)
      BY <2>3
    <3>2. base'[j] = IF 1 <= LengthOf(front, j) /\ LengthOf(front, j) <= offset
                     THEN base[Back(j)] ELSE base[j]
      BY <2>2 DEF Remove
    <3>3. QED
      BY <2>3, <3>1, <3>2
  <2>5. Contents'[k] = base'[j]
    BY <1>5 DEF j
  <2>6. k <= offset <=> k < cut
    BY <1>0, <1>2
  <2>7. Contents[k] = base[Back(j)] /\ Contents[k + 1] = base[j]
    BY <1>1, <2>1, <2>2, <2>3
  <2> HIDE DEF cut
  <2>8. QED
    BY <2>4, <2>5, <2>6, <2>7
<1>8. Contents' = [k \in 1..(Len(Contents) - 1) |->
                     IF k < cut THEN Contents[k] ELSE Contents[k + 1]]
  <2>1. Contents' = [k \in 1..(Length - 1) |-> Contents'[k]]
    BY <1>2, <1>5
  <2> HIDE DEF cut
  <2>2. QED
    BY <1>1, <1>7, <2>1
<1>9. Contents # <<>>
  BY <1>1, <1>2
<1>10. /\ Queued = Contents /\ Queued' = Contents'
       /\ InHand = None /\ InHand' = None
  BY <1>0 DEF Remove, Queued, InHand
<1>11. cut \in 1..Len(Contents)
  BY <1>1, <1>6
<1> HIDE DEF cut
<1>12. QED
  BY <1>8, <1>9, <1>10, <1>11 DEF F!Drop, Queued, InHand

\* Every step of the ring is a step of the abstract queue, or none.
LEMMA RefinementStep ==
    ASSUME IInv, IInv', [Next]_vars
    PROVE  F!Next \/ UNCHANGED <<Queued, InHand>>
<1>0. /\ front \in Index /\ rear \in Index /\ rpc \in RPC
      /\ Length \in 0..SqqLen /\ Length \in Nat
  BY LengthType, SqqLenAssumption DEF IInv, TypeOK, Length
<1>1. ASSUME NEW e \in Entry, Enter(e)
      PROVE  F!Put \/ UNCHANGED <<Queued, InHand>>
  <2>1. Length # SqqLen
    BY <1>0, <1>1, SqqLenAssumption
       DEF Enter, Length, LengthOf, Wrap, Index, Slots
  <2>2. 1 \in Nat /\ 1 <= SqqLen - LengthOf(front, rear)
    BY <1>0, <2>1, SqqLenAssumption DEF Length
  <2>3. Length' = Length + 1
    BY <1>0, <1>1, <2>2, LengthAdvance DEF Enter, Length
  <2>4. Length <= Length'
    BY <1>0, <2>3
  <2>5. \A k \in 1..Length :
           base'[Wrap(front + k - 1)] = base[Wrap(front + k - 1)]
    BY <1>1, EnterKeeps
  <2>6. rpc = "copy" => base'[p_elem] = base[p_elem]
    BY HandedSlotStep
  <2>7. rpc' = rpc /\ front' = front /\ p_elem' = p_elem
    BY <1>1 DEF Enter
  <2>8. QED
    BY <2>4, <2>5, <2>6, <2>7, WriterPuts
<1>2. ASSUME NEW s \in Strings, StringEnter(s)
      PROVE  F!Put \/ UNCHANGED <<Queued, InHand>>
  <2>1. Len(s) \in Nat /\ Len(s) <= SqqLen - Length
    BY <1>0, <1>2, StringType, MaxStringAssumption, SqqLenAssumption
       DEF StringEnter, Slots
  <2>2. Length' = Length + Len(s)
    BY <1>0, <1>2, <2>1, LengthAdvance DEF StringEnter, Length
  <2>3. Length <= Length'
    BY <1>0, <2>1, <2>2
  <2>4. \A k \in 1..Length :
           base'[Wrap(front + k - 1)] = base[Wrap(front + k - 1)]
    BY <1>2, StringEnterKeeps
  <2>5. rpc = "copy" => base'[p_elem] = base[p_elem]
    BY HandedSlotStep
  <2>6. rpc' = rpc /\ front' = front /\ p_elem' = p_elem
    BY <1>2 DEF StringEnter
  <2>7. QED
    BY <2>3, <2>4, <2>5, <2>6, WriterPuts
<1>3. ASSUME Revoke
      PROVE  F!Unput \/ UNCHANGED <<Queued, InHand>>
  <2>1. Length # 0 /\ Length' = Length - 1
    BY <1>0, <1>3, LengthType, LengthRevoke DEF Revoke, Length
  <2>2. /\ Contents \in Seq(Entry) /\ Len(Contents) = Length
        /\ \A k \in 1..Length : Contents[k] = base[Wrap(front + k - 1)]
    BY ContentsType
  <2>3. Contents' = [k \in 1..(Length - 1) |-> base[Wrap(front + k - 1)]]
    BY <1>3, <2>1 DEF Revoke, Contents, Items, Wrap, Slots
  <2>4. Contents' = [i \in 1..(Len(Contents) - 1) |-> Contents[i]]
    <3>1. \A k \in 1..(Length - 1) : k \in 1..Length
      BY <1>0
    <3>2. QED
      BY <2>2, <2>3, <3>1
  <2>5. Contents # <<>>
    BY <2>1, <2>2
  <2>6. rpc' = rpc /\ InHand' = InHand
    BY <1>3 DEF Revoke, InHand
  <2>7. CASE rpc = "clear"
    BY <2>6, <2>7 DEF Queued
  <2>8. CASE rpc # "clear"
    <3>1. Queued = Contents /\ Queued' = Contents'
      BY <2>6, <2>8 DEF Queued
    <3>2. QED
      BY <2>4, <2>5, <2>6, <3>1 DEF F!Unput, Queued, InHand
  <2>9. QED
    BY <2>7, <2>8
<1>4. ASSUME (\E n \in 1..SqqLen : ReadBegin(n)) \/ DelCheck
      PROVE  UNCHANGED <<Queued, InHand>>
  <2>1. /\ rpc \notin {"clear", "copy"} /\ rpc' \notin {"clear", "copy"}
        /\ base' = base /\ front' = front /\ rear' = rear
    BY <1>4 DEF ReadBegin, DelCheck
  <2>2. Contents' = Contents
    BY <2>1 DEF Contents, Items, Length
  <2>3. QED
    BY <2>1, <2>2 DEF Queued, InHand
<1>5. ASSUME CopyOut PROVE F!Release
  <2>1. /\ rpc = "copy" /\ rpc' \notin {"clear", "copy"}
        /\ base' = base /\ front' = front /\ rear' = rear
    BY <1>5 DEF CopyOut
  <2>2. Contents' = Contents
    BY <2>1 DEF Contents, Items, Length
  <2>3. base[p_elem] \in Entry
    BY DEF IInv, TypeOK
  <2>4. /\ Queued = Contents /\ Queued' = Contents
        /\ InHand = base[p_elem] /\ InHand' = None
    BY <2>1, <2>2 DEF Queued, InHand
  <2>5. InHand # None
    BY <2>3, <2>4, NoneAssumption
  <2>6. QED
    BY <2>4, <2>5 DEF F!Release, Queued, InHand
<1>6. ASSUME ClearFront PROVE F!Flush
  <2>1. Queued' = <<>> /\ InHand' = None /\ InHand = None
    BY <1>6 DEF ClearFront, Queued, InHand
  <2>2. QED
    BY <2>1 DEF F!Flush, Queued, InHand
<1>7. ASSUME ClearRear PROVE UNCHANGED <<Queued, InHand>>
  <2>1. /\ rpc = "clear" /\ rpc' = "idle" /\ front = 0
        /\ front' = 0 /\ rear' = 0
    BY <1>7 DEF ClearRear, IInv, ReaderClaim
  <2>2. Length' = 0
    BY <1>0, <2>1, LengthType DEF Length
  <2>3. Contents' = <<>>
    BY <2>2 DEF Contents, Items
  <2>4. QED
    BY <2>1, <2>3 DEF Queued, InHand
<1>8. CASE UNCHANGED vars
  BY <1>8 DEF vars, Queued, InHand, Contents, Items, Length
<1>9. QED
  BY <1>1, <1>2, <1>3, <1>4, <1>5, <1>6, <1>7, <1>8, PublishTakes, RemoveDrops
     DEF Next, ISR, Main, F!Next

\* The ring, with its reader interrupted anywhere, is a bounded first-in
\* first-out queue that hands out one item at a time and keeps it unchanged
\* until the reader lets go of it: for every capacity and whatever range the
\* counter `half` has.
THEOREM RingRefinesFifo == Spec => FifoSpec
<1>1. Init => F!Init
  <2>1. ASSUME Init PROVE F!Init
    <3>1. Length = 0
      BY <2>1, SqqLenAssumption DEF Init, Length, LengthOf, Slots
    <3>2. Contents = <<>>
      BY <3>1 DEF Contents, Items
    <3>3. QED
      BY <2>1, <3>2 DEF Init, F!Init
  <2>2. QED
    BY <2>1
<1>2. IInv /\ IInv' /\ [Next]_vars => [F!Next]_(F!vars)
  BY RefinementStep DEF F!vars, Queued, InHand
<1>3. QED
  BY <1>1, <1>2, Invariance, PTL DEF Spec, FifoSpec, F!Spec
============================================================================
