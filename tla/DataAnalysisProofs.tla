------------------------ MODULE DataAnalysisProofs -------------------------
(* What the parser keeps between characters: the bounds that every format needs, the     *)
(* part of the queue that belongs to the frame under way, and, for frames without end    *)
(* delimiter, that this is all the queue holds.  A parser that has met a full queue is    *)
(* only bounded: the index into the length field may then be stale.                       *)
EXTENDS DataAnalysis, TLAPS

Running == state \notin {"hung", "wild"}

Bounded == /\ Running => /\ last <= Len(q)
                         /\ fmt.sd # <<>> => sd_index < Len(fmt.sd)
                         /\ state # "end" => payload_len = 0
                         /\ state # "sd" => sd_index = 0
           /\ state = "hung" => lapsed

Item(i) == q[Len(q) - last + i]      \* item i of the frame under way

InHead == state = "sd" => /\ last = sd_index /\ ld_index = 0
                          /\ \A i \in 1..sd_index : Item(i) = fmt.sd[i]

InLength == state = "ld" => /\ last = Len(fmt.sd) + ld_index /\ ld_index < fmt.ldLen
                            /\ sd_index = 0
                            /\ \A i \in 1..Len(fmt.sd) : Item(i) = fmt.sd[i]
                            /\ \A i \in 1..ld_index : Item(Len(fmt.sd) + i) = ld_data[i]

InBody == state = "end" => /\ HeadLen <= last /\ ld_index = 0 /\ sd_index = 0
                           /\ \A i \in 1..Len(fmt.sd) : Item(i) = fmt.sd[i]
                           /\ \A i \in 1..fmt.ldLen : Item(Len(fmt.sd) + i) = ld_data[i]
                           /\ frm_len = Number(ld_data) /\ fmt.lenMin <= frm_len
                           /\ frm_len # 0 => last = HeadLen + payload_len
                           /\ fmt.ed = <<>> /\ frm_len # 0 => payload_len < frm_len

Framed == ~lapsed /\ Running => InHead /\ InLength /\ InBody

Alone == fmt.ed = <<>> /\ fmt.lenMin > 0 => /\ got \notin {"short", "refused"} /\ ~locked
                                            /\ Running /\ Len(q) = last /\ ~lapsed

IInv == TypeOK /\ Bounded /\ Framed /\ Alone
----------------------------------------------------------------------------
LEMMA Format ==
    ASSUME TypeOK
    PROVE  /\ Capacity \in Nat /\ Capacity >= 1
           /\ fmt.sd \in Seq(Char) /\ Len(fmt.sd) \in Nat
           /\ fmt.ldLen \in 1..2 /\ fmt.lenMin \in Nat /\ fmt.lenMax \in Nat
           /\ HeadLen = Len(fmt.sd) + fmt.ldLen /\ HeadLen \in Nat
           /\ HeadLen + fmt.lenMax <= Capacity
           /\ fmt.sd # <<>> => Len(fmt.sd) >= 1
           /\ fmt.sd = <<>> => Len(fmt.sd) = 0
<1>1. fmt \in FormatType /\ Len(fmt.sd) + fmt.ldLen + fmt.lenMax <= Capacity
  BY FormatAssumption DEF TypeOK
<1>2. /\ fmt.sd \in Seq(Char) /\ fmt.ldLen \in 1..2 /\ fmt.lenMin \in Nat /\ fmt.lenMax \in Nat
  BY <1>1 DEF FormatType, LdMax
<1>3. Len(fmt.sd) \in Nat /\ (fmt.sd # <<>> => Len(fmt.sd) >= 1) /\ (fmt.sd = <<>> => Len(fmt.sd) = 0)
  BY <1>2
<1> QED BY <1>1, <1>2, <1>3, SizeAssumption DEF HeadLen

\* The first items of a queue, and what is left without them.
LEMMA Prefix ==
    ASSUME NEW S, NEW s \in Seq(S), NEW n \in Nat, n <= Len(s)
    PROVE  /\ SubSeq(s, 1, n) \in Seq(S) /\ Len(SubSeq(s, 1, n)) = n
           /\ \A j \in 1..n : SubSeq(s, 1, n)[j] = s[j]
<1>1. \A j \in 1..n : j \in 1..Len(s) /\ s[j] \in S
  OBVIOUS
<1> DEFINE r == [j \in 1..n |-> s[j]]
<1>2. SubSeq(s, 1, n) = r
  OBVIOUS
<1>3. r \in Seq(S) /\ Len(r) = n /\ \A j \in 1..n : r[j] = s[j]
  BY <1>1
<1> QED BY <1>2, <1>3

LEMMA Suffix ==
    ASSUME NEW S, NEW s \in Seq(S), NEW n \in Nat
    PROVE  /\ Without(s, n) \in Seq(S)
           /\ Len(Without(s, n)) = IF n <= Len(s) THEN Len(s) - n ELSE 0
           /\ \A j \in 1..Len(Without(s, n)) : Without(s, n)[j] = s[n + j]
<1>0. (IF n <= Len(s) THEN Len(s) - n ELSE 0) \in Nat
  <2>1. Len(s) \in Nat
    OBVIOUS
  <2> QED BY <2>1
<1> PICK m \in Nat : m = IF n <= Len(s) THEN Len(s) - n ELSE 0
  BY <1>0
<1> DEFINE r == [j \in 1..m |-> s[n + j]]
<1>1. \A j \in 1..m : n + j \in 1..Len(s) /\ s[n + j] \in S
  OBVIOUS
<1>2. Without(s, n) = r
  BY DEF Without
<1>3. r \in Seq(S) /\ Len(r) = m /\ \A j \in 1..m : r[j] = s[n + j]
  BY <1>1
<1> QED BY <1>2, <1>3

LEMMA OneMore == \A a, b, c \in Nat : c = a + b => c + 1 = a + (b + 1)
OBVIOUS

LEMMA FieldPlace ==
    \A a \in Nat, k \in 1..2, n, m \in Nat : n = (a + k) + m =>
       \A i \in 1..k : a + i \in 1..n /\ n - n + (a + i) = a + i
OBVIOUS

LEMMA Slice ==
    ASSUME NEW S, NEW s \in Seq(S), NEW m \in Nat, NEW k \in Nat, m + k <= Len(s)
    PROVE  \A i \in 1..k : SubSeq(s, m + 1, m + k)[i] = s[m + i]
<1> DEFINE r == [i \in 1..k |-> s[m + i]]
<1>1. \A i \in 1..k : m + i \in 1..Len(s) /\ s[m + i] \in S
  OBVIOUS
<1>2. SubSeq(s, m + 1, m + k) = r
  OBVIOUS
<1> QED BY <1>2

LEMMA SameItems ==
    ASSUME NEW S, NEW s \in Seq(S), NEW t \in Seq(S), Len(s) = Len(t),
           \A k \in 1..Len(s) : s[k] = t[k]
    PROVE  s = t
OBVIOUS

\* Revoking takes back the items of the frame under way and no other.
LEMMA RevokedIsBefore ==
    ASSUME TypeOK, last <= Len(q)
    PROVE  /\ Revoked = Before /\ Revoked \in Seq(Char) /\ Len(Revoked) = Len(q) - last
           /\ Len(Revoked) <= Capacity
<1>1. q \in Seq(Char) /\ Len(q) \in Nat /\ Len(q) <= Capacity /\ last \in Nat /\ Capacity \in Nat
  BY Format DEF TypeOK
<1>2. Len(q) - last \in Nat /\ Len(q) - last <= Len(q) /\ Len(q) - last <= Capacity
  BY <1>1
<1>3. Revoked = Before
  <2>1. (IF last < Len(q) THEN Len(q) - last ELSE 0) = Len(q) - last
    BY <1>1
  <2> QED BY <2>1 DEF Revoked, Before
<1> QED BY <1>1, <1>2, <1>3, Prefix DEF Before

\* A character that goes into the queue is one more item of the frame.
LEMMA GoesOn ==
    ASSUME TypeOK, last <= Len(q), HasRoom, NEW ch \in Char, q' = Append(q, ch), last' = last + 1
    PROVE  /\ q' \in Seq(Char) /\ Len(q') = Len(q) + 1 /\ Len(q') <= Capacity
           /\ last' \in 0..Capacity /\ last' <= Len(q')
           /\ \A i \in 1..last : q'[Len(q') - last' + i] = q[Len(q) - last + i]
           /\ q'[Len(q') - last' + (last + 1)] = ch
           /\ Before' = Before
<1>1. q \in Seq(Char) /\ Len(q) \in Nat /\ Len(q) < Capacity /\ last \in Nat /\ Capacity \in Nat
  BY Format DEF TypeOK, HasRoom
<1>2. /\ q' \in Seq(Char) /\ Len(q') = Len(q) + 1 /\ q'[Len(q) + 1] = ch
      /\ \A k \in 1..Len(q) : q'[k] = q[k]
  BY <1>1
<1>3. /\ Len(q') <= Capacity /\ last' \in 0..Capacity /\ last' <= Len(q')
      /\ Len(q') - last' = Len(q) - last /\ Len(q') - last' + (last + 1) = Len(q) + 1
      /\ \A i \in 1..last : Len(q) - last + i \in 1..Len(q)
  BY <1>1, <1>2
<1>4. Before' = Before
  <2>1. Len(q) - last \in Nat /\ Len(q) - last <= Len(q) /\ Len(q) - last <= Len(q')
        /\ \A k \in 1..Len(q) - last : k \in 1..Len(q)
    BY <1>1, <1>2
  <2>2. /\ SubSeq(q, 1, Len(q) - last) \in Seq(Char) /\ Len(SubSeq(q, 1, Len(q) - last)) = Len(q) - last
        /\ \A k \in 1..Len(q) - last : SubSeq(q, 1, Len(q) - last)[k] = q[k]
    BY <1>1, <2>1, Prefix
  <2>3. /\ SubSeq(q', 1, Len(q) - last) \in Seq(Char) /\ Len(SubSeq(q', 1, Len(q) - last)) = Len(q) - last
        /\ \A k \in 1..Len(q) - last : SubSeq(q', 1, Len(q) - last)[k] = q'[k]
    BY <1>2, <2>1, Prefix
  <2>4. SubSeq(q', 1, Len(q) - last) = SubSeq(q, 1, Len(q) - last)
    BY <1>2, <2>1, <2>2, <2>3, SameItems
  <2> QED BY <1>3, <2>4 DEF Before
<1> QED BY <1>2, <1>3, <1>4

----------------------------------------------------------------------------
\* A full queue: what had entered of the frame goes, and the parser waits for a start
\* delimiter, or revokes for ever.
LEMMA Locks ==
    ASSUME IInv, Running, LockData, UNCHANGED fmt, ld_index' \in 0..LdMax,
           ld_data' \in [1..LdMax -> Char], ~(fmt.ed = <<>> /\ fmt.lenMin > 0)
    PROVE  IInv'
<1>1. /\ TypeOK /\ last <= Len(q) /\ (fmt.sd # <<>> => sd_index < Len(fmt.sd))
      /\ q \in Seq(Char) /\ last \in 0..Capacity /\ payload_len \in Nat
      /\ sd_index \in 0..Len(fmt.sd) /\ frm_len \in 0..fmt.lenMax
  BY DEF IInv, Bounded, TypeOK
<1>2. /\ locked' = TRUE /\ lapsed' = TRUE /\ got' = "none" /\ q' \in Seq(Char)
      /\ Len(q') = Len(q) - last /\ Len(q') <= Capacity
  BY <1>1, RevokedIsBefore DEF LockData
<1>3. Len(q') >= 0 /\ 0 \in 0..Capacity /\ 0 \in 0..Len(fmt.sd) /\ 0 \in 0..fmt.lenMax
  BY <1>1, <1>2, Format
<1>4. CASE Endless
  <2>1. state' = "hung" /\ UNCHANGED <<sd_index, frm_len, payload_len, last>>
    BY <1>4 DEF LockData
  <2>2. TypeOK'
    BY <1>1, <1>2, <2>1 DEF TypeOK
  <2> QED BY <1>2, <2>1, <2>2 DEF IInv, Bounded, Running, Framed, Alone
<1>5. CASE ~Endless
  <2>1. state' = "sd" /\ last' = 0 /\ sd_index' = 0 /\ frm_len' = 0 /\ payload_len' = 0
    BY <1>5 DEF LockData
  <2>2. TypeOK'
    BY <1>1, <1>2, <1>3, <2>1 DEF TypeOK
  <2>3. Bounded'
    <3>1. fmt'.sd # <<>> => 0 < Len(fmt'.sd)
      BY <1>1, Format
    <3> QED BY <1>2, <1>3, <2>1, <3>1 DEF Bounded, Running
  <2> QED BY <1>2, <2>2, <2>3 DEF IInv, Framed, Alone
<1> QED BY <1>4, <1>5

\* A character that does not belong to the frame.
LEMMA Rejects ==
    ASSUME IInv, Running, Rejected, UNCHANGED fmt, sd_index' = 0, ld_index' \in 0..LdMax,
           ~lapsed => ld_index' = 0, ld_data' \in [1..LdMax -> Char],
           frm_len' \in 0..fmt.lenMax, state # "end"
    PROVE  IInv'
<1>1. /\ TypeOK /\ last <= Len(q) /\ payload_len = 0 /\ q \in Seq(Char) /\ last \in 0..Capacity
  BY DEF IInv, Bounded, TypeOK
<1>2. /\ q' \in Seq(Char) /\ Len(q') = Len(q) - last /\ Len(q') <= Capacity
      /\ last' = 0 /\ state' = "sd" /\ got' = "none"
      /\ UNCHANGED <<payload_len, locked, lapsed>>
  BY <1>1, RevokedIsBefore DEF Rejected
<1>3. /\ Len(q') >= 0 /\ 0 \in 0..Capacity /\ 0 \in 0..Len(fmt.sd)
      /\ fmt.sd # <<>> => 0 < Len(fmt.sd)
  BY <1>1, <1>2, Format
<1>4. TypeOK'
  BY <1>1, <1>2, <1>3 DEF TypeOK
<1>5. Bounded'
  BY <1>1, <1>2, <1>3 DEF Bounded, Running
<1>6. Framed'
  BY <1>2 DEF Framed, InHead, InLength, InBody
<1>7. Alone'
  <2> SUFFICES ASSUME fmt.ed = <<>>, fmt.lenMin > 0
               PROVE  /\ got' \notin {"short", "refused"} /\ ~locked' /\ Running'
                      /\ Len(q') = last' /\ ~lapsed'
    BY DEF Alone
  <2>1. ~locked /\ ~lapsed /\ Len(q) = last
    BY DEF IInv, Alone
  <2>2. Len(q') = 0
    BY <1>1, <1>2, <2>1
  <2> QED BY <1>2, <2>1, <2>2 DEF Running
<1> QED BY <1>4, <1>5, <1>6, <1>7 DEF IInv

\* What a frame's format promises of the room there is: a frame without end delimiter
\* always finds some.
LEMMA AloneHasRoom ==
    ASSUME IInv, fmt.ed = <<>>, fmt.lenMin > 0
    PROVE  /\ HasRoom /\ Running /\ ~lapsed /\ ~locked /\ Len(q) = last
           /\ InHead /\ InLength /\ InBody
<1>1. /\ Running /\ ~lapsed /\ ~locked /\ Len(q) = last /\ TypeOK
      /\ InHead /\ InLength /\ InBody /\ (fmt.sd # <<>> => sd_index < Len(fmt.sd))
  BY DEF IInv, Alone, Framed, Bounded
<1>2. state \in {"sd", "ld", "end"}
  BY <1>1 DEF TypeOK, Running
<1>3. /\ sd_index \in 0..Len(fmt.sd) /\ ld_index \in 0..2 /\ frm_len \in 0..fmt.lenMax
      /\ payload_len \in Nat /\ last \in Nat
  BY <1>1, Format DEF TypeOK, LdMax
<1>4. CASE state = "sd"
  <2>1. last = sd_index
    BY <1>1, <1>4 DEF InHead
  <2>2. last < HeadLen
    BY <1>1, <1>3, <2>1, Format
  <2> QED BY <1>1, <1>3, <2>2, Format DEF HasRoom
<1>5. CASE state = "ld"
  <2>1. last = Len(fmt.sd) + ld_index /\ ld_index < fmt.ldLen
    BY <1>1, <1>5 DEF InLength
  <2>2. last < HeadLen
    BY <1>1, <1>3, <2>1, Format
  <2> QED BY <1>1, <1>3, <2>2, Format DEF HasRoom
<1>6. CASE state = "end"
  <2>1. frm_len >= fmt.lenMin /\ (frm_len # 0 => last = HeadLen + payload_len /\ payload_len < frm_len)
    BY <1>1, <1>6 DEF InBody
  <2>2. frm_len # 0
    BY <1>1, <1>3, <2>1, Format
  <2> QED BY <1>1, <1>3, <2>1, <2>2, Format DEF HasRoom
<1> QED BY <1>1, <1>2, <1>4, <1>5, <1>6

----------------------------------------------------------------------------
\* Places in the one part and in the other.
LEMMA Within ==
    ASSUME NEW a \in Nat, NEW b \in Nat, NEW l \in Nat, a + b <= l
    PROVE  /\ \A i \in 1..a : i \in 1..l
           /\ \A i \in 1..b : a + i \in 1..l
OBVIOUS

\* What every step that takes a character in keeps, whatever the state it goes to.
LEMMA Takes ==
    ASSUME IInv, Running, HasRoom, NEW ch \in Char, NEW s \in {"sd", "ld", "end"}, Goes(ch, s),
           UNCHANGED fmt, sd_index' \in 0..Len(fmt.sd), fmt.sd # <<>> => sd_index' < Len(fmt.sd),
           s # "sd" => sd_index' = 0, ld_index' \in 0..LdMax, ld_data' \in [1..LdMax -> Char],
           frm_len' \in 0..fmt.lenMax, payload_len' \in Nat, s # "end" => payload_len' = 0
    PROVE  TypeOK' /\ Bounded' /\ Alone'
<1>1. TypeOK /\ last <= Len(q) /\ q \in Seq(Char) /\ last \in Nat /\ Len(q) \in Nat
  <2>1. TypeOK /\ last <= Len(q)
    BY DEF IInv, Bounded
  <2> QED BY <2>1, SMTT(20) DEF TypeOK
<1>2. /\ q' = Append(q, ch) /\ last' = last + 1 /\ state' = s /\ got' = "none"
      /\ UNCHANGED <<locked, lapsed>>
  BY DEF Goes
<1>3. /\ q' \in Seq(Char) /\ Len(q') = Len(q) + 1 /\ Len(q') <= Capacity
      /\ last' \in 0..Capacity /\ last' <= Len(q')
  BY <1>1, <1>2, GoesOn
<1>4. TypeOK'
  BY <1>1, <1>2, <1>3 DEF TypeOK
<1>5. Bounded'
  BY <1>2, <1>3 DEF Bounded, Running
<1>6. Alone'
  <2> SUFFICES ASSUME fmt.ed = <<>>, fmt.lenMin > 0
               PROVE  /\ got' \notin {"short", "refused"} /\ ~locked' /\ Running'
                      /\ Len(q') = last' /\ ~lapsed'
    BY DEF Alone
  <2>1. ~locked /\ ~lapsed /\ Len(q) = last
    BY AloneHasRoom
  <2> QED BY <1>2, <1>3, <2>1 DEF Running
<1> QED BY <1>4, <1>5, <1>6

LEMMA WaitSdStep == ASSUME IInv, NEW ch \in Char, WaitSd(ch), UNCHANGED fmt PROVE IInv'
<1>1. /\ state = "sd" /\ fmt.sd # <<>> /\ Running /\ TypeOK /\ last <= Len(q)
      /\ sd_index < Len(fmt.sd) /\ payload_len = 0
      /\ UNCHANGED <<ld_index, ld_data>>
  BY DEF WaitSd, InSd, IInv, Bounded, Running
<1>2. /\ ld_index \in 0..LdMax /\ ld_data \in [1..LdMax -> Char] /\ frm_len \in 0..fmt.lenMax
      /\ sd_index \in Nat /\ last \in Nat /\ Len(fmt.sd) \in Nat
  BY <1>1, Format DEF TypeOK
<1>3. ~lapsed => InHead
  BY <1>1 DEF IInv, Framed
<1>4. CASE Rejected /\ sd_index' = 0 /\ UNCHANGED frm_len
  <2>1. ~lapsed => ld_index' = 0
    BY <1>1, <1>3 DEF InHead
  <2> QED BY <1>1, <1>2, <1>4, <2>1, Rejects
<1>5. CASE ~HasRoom /\ LockData
  <2>1. ~(fmt.ed = <<>> /\ fmt.lenMin > 0)
    BY <1>5, AloneHasRoom
  <2> QED BY <1>1, <1>2, <1>5, <2>1, Locks
<1>6. CASE /\ fmt.sd[sd_index + 1] = ch /\ HasRoom
           /\ IF sd_index + 1 = Len(fmt.sd)
              THEN sd_index' = 0 /\ Goes(ch, "ld")
              ELSE sd_index' = sd_index + 1 /\ Goes(ch, "sd")
           /\ UNCHANGED <<frm_len, payload_len>>
  <2>1. /\ q' = Append(q, ch) /\ last' = last + 1 /\ UNCHANGED <<locked, lapsed>>
        /\ state' = IF sd_index + 1 = Len(fmt.sd) THEN "ld" ELSE "sd"
    BY <1>6 DEF Goes
  <2>2. /\ \A i \in 1..last : q'[Len(q') - last' + i] = q[Len(q) - last + i]
        /\ q'[Len(q') - last' + (last + 1)] = ch
    BY <1>1, <1>6, <2>1, GoesOn
  <2>3. /\ sd_index' \in 0..Len(fmt.sd) /\ sd_index' < Len(fmt.sd)
    BY <1>1, <1>2, <1>6
  <2>4. TypeOK' /\ Bounded' /\ Alone'
    <3>1. CASE sd_index + 1 = Len(fmt.sd)
      BY <1>1, <1>2, <1>6, <2>3, <3>1, Takes
    <3>2. CASE sd_index + 1 # Len(fmt.sd)
      BY <1>1, <1>2, <1>6, <2>3, <3>2, Takes
    <3> QED BY <3>1, <3>2
  <2>5. ASSUME ~lapsed PROVE InHead' /\ InLength' /\ InBody'
    <3>1. /\ last = sd_index /\ ld_index = 0
          /\ \A i \in 1..sd_index : q[Len(q) - last + i] = fmt.sd[i]
      BY <1>1, <1>3, <2>5 DEF InHead, Item
    <3>2. \A i \in 1..sd_index + 1 : q'[Len(q') - last' + i] = fmt.sd[i]
      <4> SUFFICES ASSUME NEW i \in 1..sd_index + 1 PROVE q'[Len(q') - last' + i] = fmt.sd[i]
        OBVIOUS
      <4>1. CASE i = sd_index + 1
        BY <1>6, <2>2, <3>1, <4>1
      <4>2. CASE i # sd_index + 1
        <5>1. i \in 1..sd_index
          BY <1>2, <4>2
        <5> QED BY <2>2, <3>1, <5>1
      <4> QED BY <4>1, <4>2
    <3>3. CASE sd_index + 1 = Len(fmt.sd)
      <4>1. state' = "ld" /\ sd_index' = 0
        BY <1>6, <2>1, <3>3
      <4>2. last' = Len(fmt.sd) + ld_index /\ ld_index < fmt.ldLen
        BY <1>1, <1>2, <2>1, <3>1, <3>3, Format
      <4>3. \A i \in 1..Len(fmt.sd) : q'[Len(q') - last' + i] = fmt.sd[i]
        BY <3>2, <3>3
      <4>4. ld_index' = 0 /\ \A i \in 1..0 : FALSE
        BY <1>1, <3>1
      <4>5. InLength'
        BY <1>1, <4>1, <4>2, <4>3, <4>4 DEF InLength, Item
      <4> QED BY <4>1, <4>5 DEF InHead, InBody
    <3>4. CASE sd_index + 1 # Len(fmt.sd)
      <4>1. state' = "sd" /\ sd_index' = sd_index + 1
        BY <1>6, <2>1, <3>4
      <4> QED BY <1>1, <2>1, <3>1, <3>2, <4>1 DEF InHead, InLength, InBody, Item
    <3> QED BY <3>3, <3>4
  <2> QED BY <2>1, <2>4, <2>5 DEF IInv, Framed
<1> QED BY <1>4, <1>5, <1>6 DEF WaitSd

\* The length field: its bytes, and whether it is one the format allows.
LEMMA WaitLdStep == ASSUME IInv, NEW ch \in Char, WaitLd(ch), UNCHANGED fmt PROVE IInv'
<1>1. /\ Running /\ TypeOK /\ last <= Len(q) /\ payload_len = 0 /\ ld_index < LdMax
      /\ state \in {"sd", "ld"} /\ (state = "sd" => fmt.sd = <<>>)
      /\ (fmt.sd # <<>> => sd_index < Len(fmt.sd))
      /\ ld_data' = [ld_data EXCEPT ![ld_index + 1] = ch]
  BY DEF WaitLd, InLd, IInv, Bounded, Running
<1>2. /\ ld_index \in 0..2 /\ ld_data \in [1..LdMax -> Char] /\ frm_len \in 0..fmt.lenMax
      /\ sd_index \in 0..Len(fmt.sd) /\ last \in Nat /\ Len(fmt.sd) \in Nat /\ fmt.ldLen \in 1..2
      /\ q \in Seq(Char) /\ Len(q) \in Nat
      /\ (fmt.sd = <<>> => Len(fmt.sd) = 0) /\ HeadLen = Len(fmt.sd) + fmt.ldLen
  BY <1>1, Format DEF TypeOK, LdMax
<1>9. sd_index = 0
  <2>1. state = "ld" => sd_index = 0
    BY <1>1 DEF IInv, Bounded
  <2> QED BY <1>1, <1>2, <2>1
<1>3. /\ ld_data' \in [1..LdMax -> Char] /\ ld_index + 1 \in 0..LdMax
      /\ ld_index + 1 \in 1..LdMax
      /\ ld_data'[ld_index + 1] = ch /\ \A i \in 1..ld_index : ld_data'[i] = ld_data[i]
  BY <1>1, <1>2 DEF LdMax
<1>4. ~lapsed => /\ last = Len(fmt.sd) + ld_index /\ ld_index < fmt.ldLen /\ sd_index = 0
                 /\ \A i \in 1..Len(fmt.sd) : q[Len(q) - last + i] = fmt.sd[i]
                 /\ \A i \in 1..ld_index : q[Len(q) - last + (Len(fmt.sd) + i)] = ld_data[i]
  <2> SUFFICES ASSUME ~lapsed
               PROVE  /\ last = Len(fmt.sd) + ld_index /\ ld_index < fmt.ldLen /\ sd_index = 0
                      /\ \A i \in 1..Len(fmt.sd) : q[Len(q) - last + i] = fmt.sd[i]
                      /\ \A i \in 1..ld_index : q[Len(q) - last + (Len(fmt.sd) + i)] = ld_data[i]
    OBVIOUS
  <2>1. InHead /\ InLength
    BY <1>1 DEF IInv, Framed
  <2>2. CASE state = "ld"
    BY <2>1, <2>2 DEF InLength, Item
  <2>3. CASE state = "sd"
    <3>1. Len(fmt.sd) = 0 /\ last = sd_index /\ ld_index = 0
      BY <1>1, <1>2, <2>1, <2>3 DEF InHead
    <3> QED BY <1>2, <3>1
  <2> QED BY <1>1, <2>2, <2>3
<1>5. CASE ~HasRoom /\ ld_index' = ld_index + 1 /\ LockData
  <2>1. ~(fmt.ed = <<>> /\ fmt.lenMin > 0)
    BY <1>5, AloneHasRoom
  <2> QED BY <1>1, <1>3, <1>5, <2>1, Locks
<1>6. CASE HasRoom /\ (Goes(ch, "ld") \/ Goes(ch, "end"))
  <2>1. /\ q' = Append(q, ch) /\ last' = last + 1 /\ UNCHANGED <<locked, lapsed>>
        /\ state' \in {"ld", "end"} /\ HasRoom
    BY <1>6 DEF Goes
  <2>2. /\ \A i \in 1..last : q'[Len(q') - last' + i] = q[Len(q) - last + i]
        /\ q'[Len(q') - last' + (last + 1)] = ch
    BY <1>1, <2>1, GoesOn
  <2>3. ~lapsed => /\ last' = Len(fmt.sd) + (ld_index + 1)
                   /\ \A i \in 1..Len(fmt.sd) : q'[Len(q') - last' + i] = fmt.sd[i]
                   /\ \A i \in 1..ld_index + 1 :
                         q'[Len(q') - last' + (Len(fmt.sd) + i)] = ld_data'[i]
    <3> SUFFICES ASSUME ~lapsed
                 PROVE  /\ last' = Len(fmt.sd) + (ld_index + 1)
                        /\ \A i \in 1..Len(fmt.sd) : q'[Len(q') - last' + i] = fmt.sd[i]
                        /\ \A i \in 1..ld_index + 1 :
                              q'[Len(q') - last' + (Len(fmt.sd) + i)] = ld_data'[i]
      OBVIOUS
    <3>1. last = Len(fmt.sd) + ld_index
      BY <1>4
    <3>0. ld_index \in Nat /\ Len(fmt.sd) \in Nat /\ last \in Nat
      BY <1>2
    <3>2. last' = Len(fmt.sd) + (ld_index + 1) /\ last + 1 = Len(fmt.sd) + (ld_index + 1)
      <4>1. last + 1 = Len(fmt.sd) + (ld_index + 1)
        BY <3>0, <3>1, OneMore, Zenon
      <4> QED BY <2>1, <4>1, Zenon
    <3>3. \A i \in 1..Len(fmt.sd) : i \in 1..last
      BY <3>0, <3>1
    <3>4. \A i \in 1..Len(fmt.sd) : q'[Len(q') - last' + i] = fmt.sd[i]
      BY <1>4, <2>2, <3>3
    <3>5. ASSUME NEW i \in 1..ld_index + 1
          PROVE  q'[Len(q') - last' + (Len(fmt.sd) + i)] = ld_data'[i]
      <4>1. CASE i = ld_index + 1
        <5>1. Len(fmt.sd) + i = last + 1
          BY <3>2, <4>1, Zenon
        <5> QED BY <1>3, <2>2, <4>1, <5>1
      <4>2. CASE i # ld_index + 1
        <5>1. i \in 1..ld_index /\ Len(fmt.sd) + i \in 1..last
          BY <3>0, <3>1, <4>2
        <5>2. q'[Len(q') - last' + (Len(fmt.sd) + i)] = q[Len(q) - last + (Len(fmt.sd) + i)]
          BY <2>2, <5>1
        <5> QED BY <1>3, <1>4, <5>1, <5>2
      <4> QED BY <4>1, <4>2
    <3> QED BY <3>2, <3>4, <3>5
  <2>4. CASE /\ ld_index + 1 # fmt.ldLen /\ ld_index' = ld_index + 1 /\ Goes(ch, "ld")
             /\ UNCHANGED <<sd_index, frm_len, payload_len>>
    <3>1. TypeOK' /\ Bounded' /\ Alone'
      BY <1>1, <1>2, <1>3, <1>9, <2>1, <2>4, Takes
    <3>2. state' = "ld"
      BY <2>4 DEF Goes
    <3>3. ~lapsed => InHead' /\ InLength' /\ InBody'
      <4>1. ~lapsed => ld_index' < fmt.ldLen
        BY <1>2, <1>4, <2>4
      <4> QED BY <1>4, <2>3, <2>4, <3>2, <4>1 DEF InHead, InLength, InBody, Item
    <3> QED BY <2>1, <3>1, <3>3 DEF IInv, Framed
  <2>5. CASE /\ ld_index + 1 = fmt.ldLen /\ ld_index' = 0
             /\ Number(ld_data') \in fmt.lenMin .. fmt.lenMax /\ frm_len' = Number(ld_data')
             /\ Goes(ch, "end") /\ UNCHANGED <<sd_index, payload_len>>
    <3>1. frm_len' \in 0..fmt.lenMax /\ fmt.lenMin <= frm_len' /\ frm_len' \in Nat
      <4>1. fmt.lenMin \in Nat /\ fmt.lenMax \in Nat
        BY <1>1, Format
      <4> QED BY <2>5, <4>1
    <3>2. TypeOK' /\ Bounded' /\ Alone'
      <4>1. 0 \in 0..LdMax
        BY DEF LdMax
      <4> QED BY <1>1, <1>2, <1>3, <1>9, <2>1, <2>5, <3>1, <4>1, Takes
    <3>3. state' = "end"
      BY <2>5 DEF Goes
    <3>4. ~lapsed => InHead' /\ InLength' /\ InBody'
      <4>1. ~lapsed => last' = HeadLen + payload_len' /\ HeadLen <= last'
        <5> SUFFICES ASSUME ~lapsed PROVE last' = HeadLen + payload_len' /\ HeadLen <= last'
          OBVIOUS
        <5>1. last' = Len(fmt.sd) + fmt.ldLen /\ payload_len' = 0
          BY <1>1, <2>3, <2>5, Zenon
        <5>2. Len(fmt.sd) \in Nat /\ fmt.ldLen \in Nat /\ HeadLen = Len(fmt.sd) + fmt.ldLen
          BY <1>2
        <5> QED BY <5>1, <5>2
      <4>2. frm_len' # 0 => payload_len' < frm_len'
        BY <1>1, <2>5, <3>1
      <4>3. frm_len' = IF fmt.ldLen = 1 THEN ld_data'[1] ELSE ld_data'[1] * Radix + ld_data'[2]
        BY <2>5 DEF Number
      <4>4. ~lapsed => /\ \A i \in 1..Len(fmt.sd) : q'[Len(q') - last' + i] = fmt.sd[i]
                       /\ \A i \in 1..fmt.ldLen : q'[Len(q') - last' + (Len(fmt.sd) + i)] = ld_data'[i]
        BY <2>3, <2>5
      <4>5. ~lapsed => InBody'
        BY <1>4, <2>5, <3>1, <4>1, <4>2, <4>3, <4>4 DEF InBody, Item, HeadLen, Number
      <4> QED BY <3>3, <4>5 DEF InHead, InLength
    <3> QED BY <2>1, <3>2, <3>4 DEF IInv, Framed
  <2>6. HasRoom /\ Goes(ch, "ld") => state' = "ld"
    BY DEF Goes
  <2> QED BY <2>1, <2>4, <2>5, <2>6 DEF WaitLd, Rejected, LockData, Goes
<1>7. CASE ld_index' = 0 /\ frm_len' = 0 /\ Rejected /\ UNCHANGED sd_index
  <2>1. 0 \in 0..LdMax /\ 0 \in 0..fmt.lenMax
    BY <1>1, <1>2, Format DEF LdMax
  <2> QED BY <1>1, <1>3, <1>7, <1>9, <2>1, Rejects
<1>8. \/ ~HasRoom /\ ld_index' = ld_index + 1 /\ LockData
      \/ HasRoom /\ (Goes(ch, "ld") \/ Goes(ch, "end"))
      \/ ld_index' = 0 /\ frm_len' = 0 /\ Rejected /\ UNCHANGED sd_index
  BY Zenon DEF WaitLd
<1> QED BY <1>5, <1>6, <1>7, <1>8

LEMMA BeyondStep == ASSUME IInv, WaitLdBeyond, UNCHANGED fmt PROVE IInv'
<1>1. TypeOK /\ Running /\ UNCHANGED <<sd_index, ld_index, ld_data, frm_len, payload_len,
                                       last, locked, q, got, lapsed>> /\ state' = "wild"
      /\ ld_index >= 2 /\ InLd /\ ld_index \in 0..2
  BY DEF IInv, WaitLdBeyond, InLd, Running, LdMax, TypeOK
<1>2. TypeOK'
  BY <1>1 DEF TypeOK
<1>3. lapsed
  <2> SUFFICES ASSUME ~lapsed PROVE FALSE
    OBVIOUS
  <2>1. InHead /\ InLength
    BY <1>1 DEF IInv, Framed
  <2>2. fmt.ldLen \in 1..2
    BY <1>1, Format
  <2>3. CASE state = "ld"
    <3>1. ld_index < fmt.ldLen
      BY <2>1, <2>3 DEF InLength
    <3> QED BY <1>1, <2>2, <3>1
  <2>4. CASE state = "sd"
    <3>1. ld_index = 0
      BY <2>1, <2>4 DEF InHead
    <3> QED BY <1>1, <3>1
  <2> QED BY <1>1, <2>3, <2>4 DEF InLd
<1>4. ~(fmt.ed = <<>> /\ fmt.lenMin > 0)
  BY <1>3, AloneHasRoom
<1> QED BY <1>1, <1>2, <1>3, <1>4 DEF IInv, Bounded, Running, Framed, Alone

----------------------------------------------------------------------------
\* A frame that has ended is taken out of the queue, and nothing else.
LEMMA Taken ==
    ASSUME TypeOK, NEW items \in Seq(Char), Event(items)
    PROVE  /\ q' \in Seq(Char) /\ Len(q') <= Len(items)
           /\ got' \in {"whole", "short", "refused"}
<1> DEFINE n == BodyLen(SubSeq(items, 1, HeadLen))
           rest == Without(items, HeadLen)
<1>1. \/ q' = rest /\ got' = "refused"
      \/ n \in 0..fmt.lenMax /\ q' = Without(rest, n) /\ got' \in {"whole", "short"}
  BY DEF Event
<1>2. rest \in Seq(Char) /\ Len(rest) \in Nat /\ Len(rest) <= Len(items)
  <2>1. HeadLen \in Nat
    BY Format
  <2>2. /\ rest \in Seq(Char)
        /\ Len(rest) = IF HeadLen <= Len(items) THEN Len(items) - HeadLen ELSE 0
    BY <2>1, Suffix
  <2> HIDE DEF rest
  <2>3. Len(items) \in Nat
    OBVIOUS
  <2> QED BY <2>1, <2>2, <2>3
<1> HIDE DEF n, rest
<1>3. CASE n \in 0..fmt.lenMax /\ q' = Without(rest, n)
  <2>1. n \in Nat
    BY <1>3, Format
  <2>2. /\ q' \in Seq(Char) /\ Len(q') = IF n <= Len(rest) THEN Len(rest) - n ELSE 0
    BY <1>2, <1>3, <2>1, Suffix
  <2>3. Len(q') <= Len(rest)
    BY <1>2, <2>1, <2>2
  <2>4. Len(items) \in Nat
    OBVIOUS
  <2> QED BY <1>1, <1>2, <2>2, <2>3, <2>4
<1> QED BY <1>1, <1>2, <1>3

\* A frame that is all the queue holds, and as long as it says, is read whole.
LEMMA ReadWhole ==
    ASSUME TypeOK, fmt.ed = <<>>, NEW items \in Seq(Char), Event(items),
           frm_len \in Nat, frm_len <= fmt.lenMax, Len(items) = HeadLen + frm_len,
           frm_len = Number(ld_data),
           \A i \in 1..fmt.ldLen : items[Len(fmt.sd) + i] = ld_data[i]
    PROVE  got' = "whole" /\ q' = <<>>
<1>1. /\ HeadLen \in Nat /\ HeadLen = Len(fmt.sd) + fmt.ldLen /\ Len(fmt.sd) \in Nat
      /\ fmt.ldLen \in 1..2 /\ fmt.lenMax \in Nat
  BY Format
<1> DEFINE head == SubSeq(items, 1, HeadLen)
<1>2. head \in Seq(Char) /\ Len(head) = HeadLen /\ \A j \in 1..HeadLen : head[j] = items[j]
  <2>1. HeadLen <= Len(items)
    BY <1>1
  <2> QED BY <1>1, <2>1, Prefix
<1>3. SubSeq(head, Len(fmt.sd) + 1, HeadLen) = Without(head, Len(fmt.sd))
  BY <1>2 DEF Without
<1> DEFINE field == Without(head, Len(fmt.sd))
<1>4. /\ field \in Seq(Char) /\ Len(field) = fmt.ldLen
      /\ \A j \in 1..fmt.ldLen : field[j] = head[Len(fmt.sd) + j]
  <2> HIDE DEF head
  <2>1. /\ field \in Seq(Char)
        /\ Len(field) = IF Len(fmt.sd) <= Len(head) THEN Len(head) - Len(fmt.sd) ELSE 0
        /\ \A j \in 1..Len(field) : field[j] = head[Len(fmt.sd) + j]
    <3> HIDE DEF head
    <3>1. head \in Seq(Char) /\ Len(fmt.sd) \in Nat
      BY <1>1, <1>2, Zenon
    <3>2. /\ Without(head, Len(fmt.sd)) \in Seq(Char)
          /\ Len(Without(head, Len(fmt.sd)))
                = IF Len(fmt.sd) <= Len(head) THEN Len(head) - Len(fmt.sd) ELSE 0
          /\ \A j \in 1..Len(Without(head, Len(fmt.sd))) :
                Without(head, Len(fmt.sd))[j] = head[Len(fmt.sd) + j]
      BY <3>1, Suffix
    <3> QED BY <3>2
  <2>2. Len(field) = fmt.ldLen
    <3> HIDE DEF field
    <3> HIDE DEF head
    <3>1. Len(fmt.sd) <= Len(head) /\ Len(head) - Len(fmt.sd) = fmt.ldLen
      <4>1. Len(head) = Len(fmt.sd) + fmt.ldLen
        BY <1>1, <1>2, Zenon
      <4>2. Len(fmt.sd) \in Nat /\ fmt.ldLen \in Nat
        BY <1>1
      <4> QED BY <4>1, <4>2
    <3> QED BY <2>1, <3>1, Zenon
  <2> QED BY <2>1, <2>2
<1>5. \A j \in 1..fmt.ldLen : field[j] = ld_data[j]
  <2> HIDE DEF head, field
  <2>1. \A j \in 1..fmt.ldLen : Len(fmt.sd) + j \in 1..HeadLen
    <3>1. Len(fmt.sd) + fmt.ldLen <= HeadLen /\ Len(fmt.sd) \in Nat /\ fmt.ldLen \in Nat
          /\ HeadLen \in Nat
      BY <1>1
    <3> QED BY <3>1, Within, Zenon
  <2> QED BY <1>2, <1>4, <2>1
<1>6. BodyLen(head) = frm_len
  <2>1. BodyLen(head) = Number(field) - 0
    BY <1>3 DEF BodyLen
  <2>2. Number(field) = Number(ld_data)
    <3> HIDE DEF field
    <3>1. 1 \in 1..fmt.ldLen /\ (fmt.ldLen # 1 => 2 \in 1..fmt.ldLen)
      BY <1>1
    <3> QED BY <1>5, <3>1 DEF Number
  <2> QED BY <2>1, <2>2
<1> DEFINE rest == Without(items, HeadLen)
<1>7. rest \in Seq(Char) /\ Len(rest) = frm_len
  <2>1. /\ rest \in Seq(Char)
        /\ Len(rest) = IF HeadLen <= Len(items) THEN Len(items) - HeadLen ELSE 0
    BY <1>1, Suffix
  <2> HIDE DEF rest
  <2> QED BY <1>1, <2>1
<1>8. q' = Without(rest, frm_len) /\ got' = "whole"
  <2>1. BodyLen(head) \in 0..fmt.lenMax
    BY <1>1, <1>6
  <2>2. q' = Without(rest, BodyLen(head)) /\ got' = IF Len(rest) < BodyLen(head) THEN "short" ELSE "whole"
    BY <2>1, Zenon DEF Event
  <2>3. ~(Len(rest) < BodyLen(head))
    BY <1>6, <1>7
  <2> HIDE DEF rest, head
  <2> QED BY <1>6, <2>2, <2>3
<1>9. q' \in Seq(Char) /\ Len(q') = 0
  <2> HIDE DEF rest, head
  <2>1. /\ Without(rest, frm_len) \in Seq(Char)
        /\ Len(Without(rest, frm_len)) = IF frm_len <= Len(rest) THEN Len(rest) - frm_len ELSE 0
    BY <1>7, Suffix
  <2> QED BY <1>7, <1>8, <2>1
<1> QED BY <1>8, <1>9

\* The end of a frame.
LEMMA Ends ==
    ASSUME IInv, state = "end", NEW items \in Seq(Char), Len(items) <= Capacity, EndState(items),
           UNCHANGED <<fmt, ld_index, ld_data>>,
           fmt.ed = <<>> /\ fmt.lenMin > 0 => got' = "whole" /\ q' = <<>>
    PROVE  IInv'
<1>1. /\ TypeOK /\ Running /\ sd_index = 0
  BY DEF IInv, Bounded, Running
<1>2. /\ state' = "sd" /\ frm_len' = 0 /\ payload_len' = 0 /\ last' = 0 /\ locked' = FALSE
      /\ UNCHANGED <<sd_index, lapsed>> /\ Event(items)
  BY DEF EndState
<1>3. /\ q' \in Seq(Char) /\ Len(q') \in Nat /\ Len(q') <= Capacity
      /\ got' \in {"whole", "short", "refused"}
  <2>1. q' \in Seq(Char) /\ Len(q') <= Len(items) /\ got' \in {"whole", "short", "refused"}
    BY <1>1, <1>2, Taken
  <2>2. Len(items) \in Nat /\ Capacity \in Nat /\ Len(q') \in Nat
    BY <1>1, <2>1, Format
  <2> QED BY <2>1, <2>2
<1>4. /\ 0 \in 0..Capacity /\ 0 \in 0..fmt.lenMax /\ (fmt.sd # <<>> => 0 < Len(fmt.sd))
  BY <1>1, Format
<1>5. TypeOK'
  BY <1>1, <1>2, <1>3, <1>4 DEF TypeOK
<1>6. Bounded'
  BY <1>1, <1>2, <1>3, <1>4 DEF Bounded, Running
<1>7. Framed'
  <2>1. ~lapsed => ld_index = 0
    BY <1>1 DEF IInv, Framed, InBody
  <2> QED BY <1>1, <1>2, <2>1 DEF Framed, InHead, InLength, InBody
<1>8. Alone'
  <2> SUFFICES ASSUME fmt.ed = <<>>, fmt.lenMin > 0
               PROVE  /\ got' \notin {"short", "refused"} /\ ~locked' /\ Running'
                      /\ Len(q') = last' /\ ~lapsed'
    BY DEF Alone
  <2>1. ~lapsed
    BY AloneHasRoom
  <2>2. Len(q') = 0
    OBVIOUS
  <2> QED BY <1>2, <2>1, <2>2 DEF Running
<1> QED BY <1>5, <1>6, <1>7, <1>8 DEF IInv

LEMMA WaitEndStep == ASSUME IInv, NEW ch \in Char, WaitEnd(ch), UNCHANGED fmt PROVE IInv'
<1>1. /\ state = "end" /\ TypeOK /\ Running /\ last <= Len(q) /\ sd_index = 0
      /\ (fmt.sd # <<>> => sd_index < Len(fmt.sd)) /\ UNCHANGED <<ld_index, ld_data>>
  BY DEF WaitEnd, IInv, Bounded, Running
<1>2. /\ ld_index \in 0..LdMax /\ ld_data \in [1..LdMax -> Char] /\ frm_len \in 0..fmt.lenMax
      /\ frm_len \in Nat /\ payload_len \in Nat /\ sd_index \in 0..Len(fmt.sd)
      /\ q \in Seq(Char) /\ Len(q) <= Capacity
  BY <1>1, Format DEF TypeOK
<1>3. /\ last \in Nat /\ Len(q) \in Nat /\ HeadLen \in Nat /\ Capacity \in Nat
      /\ Len(fmt.sd) \in Nat /\ fmt.ldLen \in 1..2 /\ HeadLen = Len(fmt.sd) + fmt.ldLen
      /\ fmt.lenMin \in Nat /\ fmt.lenMax \in Nat
  BY <1>1, <1>2, Format DEF TypeOK
<1>4. ~lapsed => InBody
  BY <1>1 DEF IInv, Framed
<1>5. CASE fmt.ed = <<>> /\ frm_len = 0 /\ EndState(q)
  <2>1. ~(fmt.ed = <<>> /\ fmt.lenMin > 0)
    <3> SUFFICES ASSUME fmt.ed = <<>>, fmt.lenMin > 0 PROVE FALSE
      OBVIOUS
    <3>1. fmt.lenMin <= frm_len
      BY <1>1, AloneHasRoom DEF InBody
    <3> QED BY <1>3, <1>5, <3>1
  <2> QED BY <1>1, <1>2, <1>5, <2>1, Ends
<1>6. CASE (fmt.ed # <<>> \/ frm_len # 0) /\ HasRoom /\ Complete(ch) /\ EndState(Append(q, ch))
  <2>1. /\ Append(q, ch) \in Seq(Char) /\ Len(Append(q, ch)) = Len(q) + 1
        /\ \A i \in 1..Len(q) : Append(q, ch)[i] = q[i]
    BY <1>2
  <2>2. Len(Append(q, ch)) <= Capacity
    BY <1>3, <1>6, <2>1 DEF HasRoom
  <2>3. ASSUME fmt.ed = <<>>, fmt.lenMin > 0 PROVE got' = "whole" /\ q' = <<>>
    <3>1. /\ frm_len # 0 /\ Len(q) = last /\ InBody /\ Event(Append(q, ch))
      BY <1>6, <2>3, AloneHasRoom DEF EndState
    <3>2. /\ last = HeadLen + payload_len /\ frm_len = Number(ld_data) /\ payload_len + 1 = frm_len
          /\ \A i \in 1..fmt.ldLen : q[Len(q) - last + (Len(fmt.sd) + i)] = ld_data[i]
      BY <1>1, <1>6, <2>3, <3>1 DEF InBody, Item, Complete
    <3>3. Len(Append(q, ch)) = HeadLen + frm_len /\ frm_len <= fmt.lenMax
      BY <1>2, <1>3, <2>1, <3>1, <3>2
    <3>4. \A i \in 1..fmt.ldLen : Append(q, ch)[Len(fmt.sd) + i] = ld_data[i]
      <4>1. \A i \in 1..fmt.ldLen : /\ Len(fmt.sd) + i \in 1..Len(q)
                                   /\ Len(q) - last + (Len(fmt.sd) + i) = Len(fmt.sd) + i
        <5>1. /\ payload_len \in Nat /\ Len(q) = last /\ last = (Len(fmt.sd) + fmt.ldLen) + payload_len
              /\ last \in Nat /\ Len(fmt.sd) \in Nat /\ fmt.ldLen \in 1..2
          BY <1>2, <1>3, <3>1, <3>2
        <5>2. \A i \in 1..fmt.ldLen : /\ Len(fmt.sd) + i \in 1..last
                                     /\ last - last + (Len(fmt.sd) + i) = Len(fmt.sd) + i
          BY <5>1, FieldPlace, Zenon
        <5> QED BY <5>1, <5>2, Zenon
      <4> QED BY <2>1, <3>2, <4>1
    <3> QED BY <1>1, <1>2, <2>1, <2>3, <3>1, <3>2, <3>3, <3>4, ReadWhole
  <2> QED BY <1>1, <1>6, <2>1, <2>2, <2>3, Ends
<1>7. CASE /\ fmt.ed # <<>> \/ frm_len # 0
           /\ HasRoom /\ ~Complete(ch)
           /\ payload_len' = IF frm_len = 0 THEN payload_len ELSE payload_len + 1
           /\ Goes(ch, "end")
           /\ UNCHANGED <<sd_index, frm_len>>
  <2>1. q' = Append(q, ch) /\ last' = last + 1 /\ state' = "end" /\ UNCHANGED lapsed
    BY <1>7 DEF Goes
  <2>2. payload_len' \in Nat
    BY <1>2, <1>7
  <2>3. TypeOK' /\ Bounded' /\ Alone'
    BY <1>1, <1>2, <1>7, <2>2, Takes
  <2>4. ASSUME ~lapsed PROVE InBody'
    <3>1. /\ HeadLen <= last /\ ld_index = 0 /\ frm_len = Number(ld_data) /\ fmt.lenMin <= frm_len
          /\ frm_len # 0 => last = HeadLen + payload_len
          /\ fmt.ed = <<>> /\ frm_len # 0 => payload_len < frm_len
          /\ \A i \in 1..Len(fmt.sd) : q[Len(q) - last + i] = fmt.sd[i]
          /\ \A i \in 1..fmt.ldLen : q[Len(q) - last + (Len(fmt.sd) + i)] = ld_data[i]
      BY <1>1, <1>4, <2>4 DEF InBody, Item
    <3>2. \A i \in 1..last : q'[Len(q') - last' + i] = q[Len(q) - last + i]
      BY <1>1, <1>7, <2>1, GoesOn
    <3>3. /\ \A i \in 1..Len(fmt.sd) : i \in 1..last
          /\ \A i \in 1..fmt.ldLen : Len(fmt.sd) + i \in 1..last
      <4>1. Len(fmt.sd) + fmt.ldLen <= last /\ Len(fmt.sd) \in Nat /\ fmt.ldLen \in Nat
            /\ last \in Nat
        BY <1>3, <3>1
      <4> QED BY <4>1, Within, Zenon
    <3>4. /\ \A i \in 1..Len(fmt.sd) : q'[Len(q') - last' + i] = fmt.sd[i]
          /\ \A i \in 1..fmt.ldLen : q'[Len(q') - last' + (Len(fmt.sd) + i)] = ld_data[i]
      BY <3>1, <3>2, <3>3
    <3>5. /\ HeadLen <= last'
          /\ frm_len # 0 => last' = HeadLen + payload_len'
      BY <1>2, <1>3, <1>7, <2>1, <3>1
    <3>6. fmt.ed = <<>> /\ frm_len # 0 => payload_len' < frm_len
      <4> SUFFICES ASSUME fmt.ed = <<>>, frm_len # 0 PROVE payload_len' < frm_len
        OBVIOUS
      <4>1. payload_len < frm_len /\ payload_len + 1 # frm_len /\ payload_len' = payload_len + 1
        BY <1>7, <3>1 DEF Complete
      <4> QED BY <1>2, <4>1
    <3>7. frm_len' = frm_len /\ ld_data' = ld_data /\ ld_index' = 0 /\ sd_index' = 0
      BY <1>1, <1>7, <3>1
    <3> QED BY <3>1, <3>4, <3>5, <3>6, <3>7 DEF InBody, Item, HeadLen, Number
  <2> QED BY <2>1, <2>3, <2>4 DEF IInv, Framed, InHead, InLength
<1>8. CASE ~HasRoom /\ LockData
  <2>1. ~(fmt.ed = <<>> /\ fmt.lenMin > 0)
    BY <1>8, AloneHasRoom
  <2> QED BY <1>1, <1>2, <1>8, <2>1, Locks
<1> QED BY <1>5, <1>6, <1>7, <1>8 DEF WaitEnd

----------------------------------------------------------------------------
LEMMA Initially == Init => IInv
<1> SUFFICES ASSUME Init PROVE IInv
  OBVIOUS
<1>0. fmt \in Formats /\ fmt \in FormatType /\ Capacity \in Nat
  BY FormatAssumption, SizeAssumption DEF Init
<1>1. TypeOK
  <2>1. 0 \in Char
    BY SizeAssumption DEF Char
  <2>2. 0 \in 0..Len(fmt.sd) /\ 0 \in 0..fmt.lenMax /\ 0 \in 0..LdMax /\ 0 \in 0..Capacity
    BY <1>0 DEF FormatType, LdMax
  <2>3. q \in Seq(Char) /\ Len(q) <= Capacity
    BY <1>0 DEF Init
  <2>4. ld_data \in [1..LdMax -> Char]
    BY <2>1 DEF Init
  <2>5. /\ sd_index \in 0..Len(fmt.sd) /\ ld_index \in 0..LdMax /\ frm_len \in 0..fmt.lenMax
        /\ payload_len \in Nat /\ last \in 0..Capacity
    BY <2>2 DEF Init
  <2>6. /\ state \in {"sd", "ld", "end", "hung", "wild"} /\ locked \in BOOLEAN
        /\ lapsed \in BOOLEAN /\ got \in {"none", "whole", "short", "refused"}
    BY DEF Init
  <2> QED BY <1>0, <2>3, <2>4, <2>5, <2>6, Zenon DEF TypeOK
<1>2. Bounded
  <2>1. fmt.sd # <<>> => 0 < Len(fmt.sd)
    BY <1>1, Format
  <2> QED BY <2>1 DEF Init, Bounded, Running
<1>3. Framed /\ Alone
  BY DEF Init, Framed, Alone, Running, InHead, InLength, InBody
<1> QED BY <1>1, <1>2, <1>3 DEF IInv

LEMMA EveryStep == IInv /\ [Next]_vars => IInv'
<1> SUFFICES ASSUME IInv, [Next]_vars PROVE IInv'
  OBVIOUS
<1>1. CASE Lost \/ UNCHANGED vars
  <2>1. UNCHANGED <<fmt, state, sd_index, ld_index, ld_data, frm_len, payload_len, last, locked,
                    q, got, lapsed>>
    BY <1>1 DEF Lost, vars
  <2>2. TypeOK'
    BY <2>1 DEF IInv, TypeOK
  <2>3. Bounded' /\ Alone'
    BY <2>1 DEF IInv, Bounded, Alone, Running
  <2>4. Framed'
    BY <2>1 DEF IInv, Framed, Running, InHead, InLength, InBody, Item, HeadLen, Number
  <2> QED BY <2>2, <2>3, <2>4 DEF IInv
<1>2. ASSUME NEW ch \in Char, CharHandle(ch) PROVE IInv'
  BY <1>2, WaitSdStep, WaitLdStep, BeyondStep, WaitEndStep DEF CharHandle
<1> QED BY <1>1, <1>2 DEF Next

\* What the parser keeps between characters holds throughout, for every format and every
\* input (data_char_handle, lock_data).
THEOREM ParserInvariance == Spec => []IInv
BY Initially, EveryStep, PTL DEF Spec

\* Every index of the parser and every count of items stays within its type, for every
\* format and every input, a full queue included.
THEOREM ParserTypeCorrect == Spec => []TypeOK
BY ParserInvariance, PTL DEF IInv

\* What would be revoked is the frame under way and nothing else: the items counted in
\* last_enter_q_num one by one by the three states are its start delimiter, its length
\* field and its body, until the queue has been full once.
THEOREM RevocableIsFrame == Spec => []OwnIsFrame
<1>1. IInv => OwnIsFrame
  <2> SUFFICES ASSUME IInv, ~lapsed, state # "wild"
               PROVE  /\ last <= Len(q)
                      /\ state = "sd" /\ fmt.sd # <<>> => Own = SubSeq(fmt.sd, 1, sd_index)
                      /\ state \in {"ld", "end"} => SubSeq(Own, 1, Len(fmt.sd)) = fmt.sd
                      /\ state = "ld" => last = Len(fmt.sd) + ld_index
                      /\ state = "end" =>
                            /\ Number(SubSeq(Own, Len(fmt.sd) + 1, HeadLen)) = frm_len
                            /\ frm_len # 0 => last = HeadLen + payload_len
    BY DEF OwnIsFrame
  <2>1. /\ TypeOK /\ last <= Len(q) /\ Running /\ InHead /\ InLength /\ InBody
    BY DEF IInv, Bounded, Framed, Running
  <2>2. /\ q \in Seq(Char) /\ Len(q) \in Nat /\ last \in Nat /\ fmt.sd \in Seq(Char)
        /\ Len(fmt.sd) \in Nat /\ sd_index \in Nat /\ sd_index <= Len(fmt.sd)
        /\ HeadLen = Len(fmt.sd) + fmt.ldLen /\ fmt.ldLen \in 1..2 /\ HeadLen \in Nat
        /\ ld_index \in Nat
    BY <2>1, Format DEF TypeOK, LdMax
  <2> DEFINE base == Len(q) - last
  <2>3. base \in Nat /\ base <= Len(q) /\ Len(q) - base = last
    BY <2>1, <2>2
  <2>4. /\ Own \in Seq(Char) /\ Len(Own) = last
        /\ \A i \in 1..last : Own[i] = q[Len(q) - last + i]
    <3>1. Own = Without(q, base)
      BY DEF Own, Without
    <3> HIDE DEF base
    <3>2. /\ Without(q, base) \in Seq(Char)
          /\ Len(Without(q, base)) = IF base <= Len(q) THEN Len(q) - base ELSE 0
          /\ \A j \in 1..Len(Without(q, base)) : Without(q, base)[j] = q[base + j]
      BY <2>2, <2>3, Suffix
    <3>3. Len(Own) = last
      BY <2>3, <3>1, <3>2
    <3> QED BY <3>1, <3>2, <3>3 DEF base
  <2> HIDE DEF base
  <2>5. ASSUME state = "sd" PROVE Own = SubSeq(fmt.sd, 1, sd_index)
    <3>1. last = sd_index /\ \A i \in 1..sd_index : q[Len(q) - last + i] = fmt.sd[i]
      BY <2>1, <2>5 DEF InHead, Item
    <3>2. /\ SubSeq(fmt.sd, 1, sd_index) \in Seq(Char) /\ Len(SubSeq(fmt.sd, 1, sd_index)) = sd_index
          /\ \A j \in 1..sd_index : SubSeq(fmt.sd, 1, sd_index)[j] = fmt.sd[j]
      BY <2>2, Prefix
    <3> QED BY <2>4, <3>1, <3>2, SameItems
  <2>6. ASSUME state \in {"ld", "end"} PROVE SubSeq(Own, 1, Len(fmt.sd)) = fmt.sd
    <3>1. Len(fmt.sd) <= last /\ \A i \in 1..Len(fmt.sd) : q[Len(q) - last + i] = fmt.sd[i]
      <4>1. CASE state = "ld"
        <5>1. /\ last = Len(fmt.sd) + ld_index
              /\ \A i \in 1..Len(fmt.sd) : q[Len(q) - last + i] = fmt.sd[i]
          BY <2>1, <4>1 DEF InLength, Item
        <5>2. Len(fmt.sd) <= Len(fmt.sd) + ld_index
          BY <2>2
        <5> QED BY <5>1, <5>2
      <4>2. CASE state = "end"
        <5>1. /\ HeadLen <= last
              /\ \A i \in 1..Len(fmt.sd) : q[Len(q) - last + i] = fmt.sd[i]
          BY <2>1, <4>2 DEF InBody, Item
        <5> QED BY <2>2, <5>1
      <4> QED BY <2>6, <4>1, <4>2
    <3>2. /\ SubSeq(Own, 1, Len(fmt.sd)) \in Seq(Char)
          /\ Len(SubSeq(Own, 1, Len(fmt.sd))) = Len(fmt.sd)
          /\ \A j \in 1..Len(fmt.sd) : SubSeq(Own, 1, Len(fmt.sd))[j] = Own[j]
      BY <2>2, <2>4, <3>1, Prefix
    <3>3. \A j \in 1..Len(fmt.sd) : j \in 1..last
      <4>1. Len(fmt.sd) \in Nat /\ last \in Nat /\ Len(fmt.sd) <= last
        BY <2>2, <3>1
      <4> QED BY <4>1
    <3>4. fmt.sd \in Seq(Char) /\ \A j \in 1..Len(fmt.sd) : Own[j] = fmt.sd[j]
      BY <2>2, <2>4, <3>1, <3>3
    <3> QED BY <3>2, <3>4, SameItems
  <2>7. ASSUME state = "end"
        PROVE  /\ Number(SubSeq(Own, Len(fmt.sd) + 1, HeadLen)) = frm_len
               /\ frm_len # 0 => last = HeadLen + payload_len
    <3>1. /\ HeadLen <= last /\ frm_len = Number(ld_data)
          /\ frm_len # 0 => last = HeadLen + payload_len
          /\ \A i \in 1..fmt.ldLen : q[Len(q) - last + (Len(fmt.sd) + i)] = ld_data[i]
      BY <2>1, <2>7 DEF InBody, Item
    <3> DEFINE field == SubSeq(Own, Len(fmt.sd) + 1, HeadLen)
    <3>2. \A i \in 1..fmt.ldLen : field[i] = Own[Len(fmt.sd) + i]
      <4>1. /\ Own \in Seq(Char) /\ Len(fmt.sd) \in Nat /\ fmt.ldLen \in Nat
            /\ Len(fmt.sd) + fmt.ldLen <= Len(Own)
        BY <2>2, <2>4, <3>1
      <4>2. \A i \in 1..fmt.ldLen :
                SubSeq(Own, Len(fmt.sd) + 1, Len(fmt.sd) + fmt.ldLen)[i] = Own[Len(fmt.sd) + i]
        BY <4>1, Slice, Zenon
      <4> QED BY <2>2, <4>2, Zenon
    <3> HIDE DEF field
    <3>3. \A i \in 1..fmt.ldLen : Len(fmt.sd) + i \in 1..last
      <4>1. Len(fmt.sd) + fmt.ldLen <= last /\ Len(fmt.sd) \in Nat /\ fmt.ldLen \in Nat
            /\ last \in Nat
        BY <2>2, <3>1
      <4> QED BY <4>1, Within, Zenon
    <3>4. \A i \in 1..fmt.ldLen : field[i] = ld_data[i]
      BY <2>4, <3>1, <3>2, <3>3
    <3>5. 1 \in 1..fmt.ldLen /\ (fmt.ldLen # 1 => 2 \in 1..fmt.ldLen)
      BY <2>2
    <3>6. Number(field) = Number(ld_data)
      BY <3>4, <3>5 DEF Number
    <3> QED BY <3>1, <3>6 DEF field
  <2> QED BY <2>1, <2>5, <2>6, <2>7 DEF InLength
<1> QED BY <1>1, ParserInvariance, PTL

\* Frames without end delimiter: each is handed over with exactly the body its length
\* field gives, and read whole, whatever the input; the queue is never full.
THEOREM UntailedNeverSlips == Spec => []UntailedInStep
<1>1. IInv => UntailedInStep
  BY DEF IInv, Alone, UntailedInStep, Running
<1> QED BY <1>1, ParserInvariance, PTL

\* A character that completes no frame leaves alone what was in the queue before the
\* frame under way, for every format and every input, full queue or not.
THEOREM EarlierItemsKept == Spec => BeforeKept
<1>1. IInv /\ [Next]_vars =>
          [got' = "none" /\ state' \notin {"hung", "wild"} => Before' = Before]_vars
  <2> SUFFICES ASSUME IInv, Next, got' = "none", state' \notin {"hung", "wild"}
               PROVE  Before' = Before
    OBVIOUS
  <2>0. TypeOK
    BY DEF IInv
  <2>1. PICK ch \in Char : CharHandle(ch)
    BY DEF Next, Lost, vars
  <2>2. Running /\ last <= Len(q)
    <3>1. Running
      BY <2>1 DEF CharHandle, WaitSd, WaitLd, WaitLdBeyond, WaitEnd, InSd, InLd, Running
    <3> QED BY <3>1 DEF IInv, Bounded
  <2>3. CASE \E s : HasRoom /\ Goes(ch, s)
    <3>1. HasRoom /\ q' = Append(q, ch) /\ last' = last + 1
      BY <2>3 DEF Goes
    <3> QED BY <2>0, <2>2, <3>1, GoesOn
  <2>4. CASE Rejected \/ LockData
    <3>1. q' = Revoked /\ last' = 0
      BY <2>4 DEF Rejected, LockData
    <3>2. q' \in Seq(Char) /\ Len(q') \in Nat /\ q' = Before
      BY <2>0, <2>2, <3>1, RevokedIsBefore
    <3>3. Before' = SubSeq(q', 1, Len(q'))
      <4>1. Len(q') - 0 = Len(q')
        BY <3>2
      <4> QED BY <3>1, <4>1 DEF Before
    <3>4. SubSeq(q', 1, Len(q')) = q'
      BY <3>2, Prefix, SameItems
    <3> QED BY <3>2, <3>3, <3>4
  <2>5. CASE \E items \in Seq(Char) : EndState(items)
    <3>1. PICK items \in Seq(Char) : Event(items)
      BY <2>5 DEF EndState
    <3> QED BY <2>0, <3>1, Taken
  <2>6. q \in Seq(Char) /\ Append(q, ch) \in Seq(Char)
    BY <2>0 DEF TypeOK
  <2>7. WaitSd(ch) => Rejected \/ LockData \/ \E s : HasRoom /\ Goes(ch, s)
    BY DEF WaitSd
  <2>8. WaitLd(ch) => Rejected \/ LockData \/ \E s : HasRoom /\ Goes(ch, s)
    BY DEF WaitLd
  <2>9. WaitEnd(ch) => \/ LockData \/ \E s : HasRoom /\ Goes(ch, s)
                       \/ \E items \in Seq(Char) : EndState(items)
    BY <2>6 DEF WaitEnd
  <2>10. ~WaitLdBeyond
    BY DEF WaitLdBeyond
  <2> QED BY <2>1, <2>3, <2>4, <2>5, <2>7, <2>8, <2>9, <2>10 DEF CharHandle
<1> QED BY <1>1, ParserInvariance, PTL DEF Spec, BeforeKept
============================================================================
