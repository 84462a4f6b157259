----------------------------- MODULE CListProofs -----------------------------
(* What holds of the list and of the allocator under it for every pool and all *)
(* values: the nodes are linked in one row, each once; they and the clients'   *)
(* ranges share the pool out, block by block; and the values along the row are *)
(* the sequence the list's user takes them for, also while clist_remove_all    *)
(* frees nodes of the row it walks.                                            *)
EXTENDS CList, MallocProofs, FiniteSetTheorems, SequenceTheorems, LeastNumber

-----------------------------------------------------------------------------
(* Nodes in a row.                                                             *)

\* From f on n blocks are linked in m, each once: c is their row.
Linked(f, m, n, c) ==
    /\ n \in Nat /\ c \in [1 .. n -> Block]
    /\ \A i, j \in 1 .. n : c[i] = c[j] => i = j
    /\ f = IF n = 0 THEN NULL ELSE c[1]
    /\ \A i \in 1 .. n : m[c[i]].Next = IF i = n THEN NULL ELSE c[i + 1]

On(n, c) == {c[i] : i \in 1 .. n}

\* What the calls walk along.
NodesFrom(f, m) ==
    LET at[i \in 0 .. N] == IF i = 0 THEN f
                            ELSE LET p == at[i - 1] IN IF p = NULL THEN NULL ELSE m[p].Next
    IN  at

\* A row is no longer than there are blocks.
LEMMA RowShort ==
    ASSUME NEW f, NEW m, NEW n, NEW c, Linked(f, m, n, c)
    PROVE  n <= N /\ n \in Nat /\ Cardinality(On(n, c)) = n
<1>1. n \in Nat /\ N \in Nat /\ N >= 1
  BY Numbers DEF Linked
<1>2. IsFiniteSet(1 .. n) /\ Cardinality(1 .. n) = n
  <2>1. IsFiniteSet(1 .. n) /\ Cardinality(1 .. n) = IF 1 > n THEN 0 ELSE n - 1 + 1
    BY <1>1, FS_Interval
  <2> QED BY <1>1, <2>1
<1>3. IsFiniteSet(Block) /\ Cardinality(Block) = N
  <2>1. IsFiniteSet(0 .. N - 1) /\ Cardinality(0 .. N - 1) = IF 0 > N - 1 THEN 0 ELSE (N - 1) - 0 + 1
    BY <1>1, FS_Interval
  <2> QED BY <1>1, <2>1 DEF Block
<1>4. c \in Injection(1 .. n, Block)
  BY DEF Linked, Injection, IsInjective
<1>5. n <= N
  <2>1. Cardinality(1 .. n) <= Cardinality(Block)
    BY <1>3, <1>4, FS_Injection
  <2> QED BY <1>2, <1>3, <2>1
<1>6. c \in Bijection(1 .. n, On(n, c))
  <2>1. c \in [1 .. n -> On(n, c)] /\ \A y \in On(n, c) : \E i \in 1 .. n : c[i] = y
    BY DEF Linked, On
  <2> QED BY <2>1 DEF Linked, Bijection, Injection, Surjection, IsInjective
<1>7. Cardinality(On(n, c)) = n
  <2>1. ExistsBijection(1 .. n, On(n, c))
    BY <1>6 DEF ExistsBijection
  <2> QED BY <1>2, <2>1, FS_Bijection
<1> QED BY <1>1, <1>5, <1>7

\* One step along the links, and the row with nothing after it.
Along(f, m, h) == [i \in 0 .. N |->
                      IF i = 0 THEN f
                      ELSE LET p == h[i - 1] IN IF p = NULL THEN NULL ELSE m[p].Next]
Row(n, c) == [i \in 0 .. N |-> IF i < n THEN c[i + 1] ELSE NULL]

LEMMA StepOfNodes ==
    ASSUME NEW f, NEW m, NEW n, NEW c, Linked(f, m, n, c)
    PROVE  Row(n, c) = Along(f, m, Row(n, c))
<1> DEFINE g == [i \in 0 .. N |-> IF i < n THEN c[i + 1] ELSE NULL]
<1>0. /\ n \in Nat /\ N \in Nat /\ NULL \notin Block /\ f = IF n = 0 THEN NULL ELSE c[1]
      /\ \A i \in 1 .. n : c[i] \in Block /\ c[i] # NULL
      /\ \A i \in 1 .. n : m[c[i]].Next = IF i = n THEN NULL ELSE c[i + 1]
  BY Numbers DEF Linked
<1>1. ASSUME NEW i \in 0 .. N
      PROVE  g[i] = IF i = 0 THEN f
                    ELSE LET p == g[i - 1] IN IF p = NULL THEN NULL ELSE m[p].Next
  <2>1. CASE i = 0
    <3>1. g[0] = f
      BY <1>0, <2>1
    <3> QED BY <2>1, <3>1
  <2>2. CASE i # 0
    <3>1. i - 1 \in 0 .. N /\ i \in Nat /\ (i - 1) + 1 = i
      BY <1>0, <2>2
    <3>2. CASE i <= n
      <4>1. i - 1 < n /\ i \in 1 .. n
        BY <1>0, <3>1, <3>2, <2>2
      <4>2. g[i - 1] = c[i] /\ c[i] # NULL
        BY <1>0, <3>1, <4>1
      <4>3. g[i] = IF i = n THEN NULL ELSE c[i + 1]
        BY <1>0, <3>2
      <4> HIDE DEF g
      <4> QED BY <1>0, <2>2, <4>1, <4>2, <4>3
    <3>3. CASE ~(i <= n)
      <4>1. ~(i - 1 < n) /\ ~(i < n)
        BY <1>0, <3>1, <3>3
      <4>2. g[i - 1] = NULL /\ g[i] = NULL
        BY <3>1, <4>1
      <4> HIDE DEF g
      <4> QED BY <2>2, <4>2
    <3> QED BY <3>2, <3>3
  <2> QED BY <2>1, <2>2
<1>2. g = [i \in 0 .. N |-> g[i]]
  OBVIOUS
<1>3. g = Along(f, m, g)
  <2> HIDE DEF g
  <2> QED BY <1>1, <1>2, Zenon DEF Along
<1> QED BY <1>3 DEF Row

\* What the calls walk along is the row, and then nothing.
LEMMA NodesAre ==
    ASSUME NEW f, NEW m, NEW n, NEW c, Linked(f, m, n, c)
    PROVE  /\ DOMAIN NodesFrom(f, m) = 0 .. N
           /\ \A i \in 0 .. N : NodesFrom(f, m)[i] = IF i < n THEN c[i + 1] ELSE NULL
<1> DEFINE g == Row(n, c)
           w == NodesFrom(f, m)
<1>0. N \in Nat /\ n \in Nat
  BY Numbers DEF Linked
<1>1. g = Along(f, m, g)
  BY StepOfNodes
<1> HIDE DEF g
<1>2. w = Along(f, m, w)
  BY <1>1, Zenon DEF NodesFrom, Along
<1> DEFINE T == {i \in Nat : w[i] = g[i]}
<1> HIDE DEF w
<1>3. 0 \in T
  <2>1. 0 \in 0 .. N
    BY <1>0
  <2>2. w[0] = f
    <3>1. w[0] = Along(f, m, w)[0]
      BY <1>2, Zenon
    <3> QED BY <2>1, <3>1 DEF Along
  <2>3. g[0] = f
    <3>1. g[0] = Along(f, m, g)[0]
      BY <1>1, Zenon
    <3> QED BY <2>1, <3>1 DEF Along
  <2> QED BY <2>2, <2>3
<1>4. \A i \in Nat : i < N /\ i \in T => i + 1 \in T
  <2> SUFFICES ASSUME NEW i \in Nat, i < N, i \in T PROVE i + 1 \in T
    OBVIOUS
  <2>0. w[i] = g[i]
    OBVIOUS
  <2>1. i + 1 \in 0 .. N /\ i + 1 # 0 /\ (i + 1) - 1 = i
    BY <1>0
  <2>2. w[i + 1] = Along(f, m, w)[i + 1]
    BY <1>2, Zenon
  <2>3. g[i + 1] = Along(f, m, g)[i + 1]
    BY <1>1, Zenon
  <2> QED BY <2>0, <2>1, <2>2, <2>3 DEF Along
<1>5. \A i \in 0 .. N : i \in T
  <2> HIDE DEF T
  <2> QED BY <1>0, <1>3, <1>4, InductionUpTo
<1>6. \A i \in 0 .. N : g[i] = IF i < n THEN c[i + 1] ELSE NULL
  BY DEF g, Row
<1>7. DOMAIN w = 0 .. N
  <2>1. DOMAIN Along(f, m, w) = 0 .. N
    BY Zenon DEF Along
  <2> QED BY <1>2, <2>1
<1> QED BY <1>5, <1>6, <1>7 DEF w

\* So the nodes are the row, in its order.
RowOf(at) == [i \in 1 .. Cardinality({k \in 0 .. N : at[k] # NULL}) |-> at[i - 1]]

LEMMA RowIs ==
    ASSUME NEW f, NEW m, NEW n, NEW c, Linked(f, m, n, c)
    PROVE  RowOf(NodesFrom(f, m)) = c /\ Len(RowOf(NodesFrom(f, m))) = n
<1> DEFINE at == NodesFrom(f, m)
<1>0. n \in Nat /\ N \in Nat /\ n <= N /\ c \in [1 .. n -> Block] /\ NULL \notin Block
  <2>1. n \in Nat /\ c \in [1 .. n -> Block]
    BY Zenon DEF Linked
  <2>2. n <= N
    BY RowShort
  <2> QED BY <2>1, <2>2, Numbers
<1>1. \A i \in 0 .. N : at[i] = IF i < n THEN c[i + 1] ELSE NULL
  BY NodesAre
<1> HIDE DEF at
<1>2. {k \in 0 .. N : at[k] # NULL} = 0 .. n - 1
  <2>1. ASSUME NEW k \in 0 .. N PROVE at[k] # NULL <=> k \in 0 .. n - 1
    <3>1. k < n => k + 1 \in 1 .. n
      BY <1>0
    <3> QED BY <1>0, <1>1, <3>1
  <2>2. \A k \in 0 .. n - 1 : k \in 0 .. N
    BY <1>0
  <2> QED BY <2>1, <2>2
<1>3. Cardinality(0 .. n - 1) = n
  <2>1. Cardinality(0 .. n - 1) = IF 0 > n - 1 THEN 0 ELSE (n - 1) - 0 + 1
    BY <1>0, FS_Interval
  <2> QED BY <1>0, <2>1
<1>4. RowOf(at) = [i \in 1 .. n |-> at[i - 1]]
  BY <1>2, <1>3 DEF RowOf
<1>5. \A i \in 1 .. n : at[i - 1] = c[i]
  <2>1. \A i \in 1 .. n : i - 1 \in 0 .. N /\ i - 1 < n /\ (i - 1) + 1 = i
    BY <1>0
  <2> QED BY <1>1, <2>1
<1>6. RowOf(at) = c
  BY <1>0, <1>4, <1>5
<1>7. Len(c) = n
  <2>1. c \in Seq(Block) /\ DOMAIN c = 1 .. n
    BY <1>0
  <2> QED BY <1>0, <2>1
<1> QED BY <1>6, <1>7 DEF at

-----------------------------------------------------------------------------
(* A node more, a node less.                                                   *)

With1(n, c, i, o)  == [j \in 1 .. n + 1 |-> IF j <= i THEN c[j] ELSE IF j = i + 1 THEN o ELSE c[j - 1]]
Without1(n, c, k) == [j \in 1 .. n - 1 |-> IF j < k THEN c[j] ELSE c[j + 1]]

\* Sequences with an element more and one less.
LEMMA SeqIs ==
    ASSUME NEW V, NEW n \in Nat, NEW y \in Seq(V), Len(y) = n PROVE y = [t \in 1 .. n |-> y[t]]
<1>1. y \in [1 .. Len(y) -> V]
  OBVIOUS
<1> QED BY <1>1

LEMMA InsertedAt ==
    ASSUME NEW V, NEW n \in Nat, NEW s \in [1 .. n -> V], NEW i \in 0 .. n, NEW e \in V
    PROVE  SubSeq(s, 1, (i + 1) - 1) \o <<e>> \o SubSeq(s, i + 1, Len(s)) = With1(n, s, i, e)
<1> DEFINE a == SubSeq(s, 1, (i + 1) - 1)
           z == SubSeq(s, i + 1, Len(s))
           r == With1(n, s, i, e)
<1>0. s \in Seq(V) /\ Len(s) = n
  OBVIOUS
<1>1. a \in Seq(V) /\ Len(a) = i /\ \A t \in 1 .. i : a[t] = s[t]
  <2>1. 1 \in Int /\ (i + 1) - 1 \in Int /\ \A t \in 1 .. (i + 1) - 1 : s[t] \in V
    OBVIOUS
  <2>2. /\ a \in Seq(V)
        /\ Len(a) = IF 1 <= (i + 1) - 1 THEN ((i + 1) - 1) - 1 + 1 ELSE 0
        /\ \A t \in 1 .. ((i + 1) - 1) - 1 + 1 : a[t] = s[1 + t - 1]
    BY <2>1, SubSeqProperties
  <2> HIDE DEF a
  <2>3. \A t \in 1 .. i : t \in 1 .. ((i + 1) - 1) - 1 + 1 /\ 1 + t - 1 = t
    OBVIOUS
  <2>4. Len(a) = i
    BY <2>2
  <2> QED BY <2>2, <2>3, <2>4
<1>2. z \in Seq(V) /\ Len(z) = n - i /\ \A t \in 1 .. n - i : z[t] = s[i + t]
  <2>1. i + 1 \in Int /\ n \in Int /\ \A t \in i + 1 .. n : s[t] \in V
    OBVIOUS
  <2>2. /\ z \in Seq(V)
        /\ Len(z) = IF i + 1 <= n THEN n - (i + 1) + 1 ELSE 0
        /\ \A t \in 1 .. n - (i + 1) + 1 : z[t] = s[(i + 1) + t - 1]
    BY <1>0, <2>1, SubSeqProperties
  <2> HIDE DEF z
  <2>3. \A t \in 1 .. n - i : t \in 1 .. n - (i + 1) + 1 /\ (i + 1) + t - 1 = i + t
    OBVIOUS
  <2>4. Len(z) = n - i
    BY <2>2
  <2> QED BY <2>2, <2>3, <2>4
<1> HIDE DEF a, z
<1>3. <<e>> \in Seq(V) /\ Len(<<e>>) = 1 /\ <<e>>[1] = e
  OBVIOUS
<1>4. /\ a \o <<e>> \in Seq(V) /\ Len(a \o <<e>>) = i + 1
      /\ \A t \in 1 .. i + 1 : (a \o <<e>>)[t] = IF t <= i THEN s[t] ELSE e
  <2>1. /\ a \o <<e>> \in Seq(V) /\ Len(a \o <<e>>) = Len(a) + Len(<<e>>)
        /\ \A t \in 1 .. Len(a) + Len(<<e>>) : (a \o <<e>>)[t] = IF t <= Len(a) THEN a[t] ELSE <<e>>[t - Len(a)]
    BY <1>1, <1>3, ConcatProperties
  <2>2. \A t \in 1 .. i + 1 : (t <= i => t \in 1 .. i) /\ (~(t <= i) => t - i = 1)
    OBVIOUS
  <2> QED BY <1>1, <1>3, <2>1, <2>2
<1> DEFINE b == a \o <<e>>
<1> HIDE DEF b
<1>5. /\ b \o z \in Seq(V) /\ Len(b \o z) = n + 1
      /\ \A t \in 1 .. n + 1 : (b \o z)[t] = IF t <= i THEN s[t] ELSE IF t = i + 1 THEN e ELSE s[t - 1]
  <2>1. b \in Seq(V) /\ Len(b) = i + 1 /\ \A t \in 1 .. i + 1 : b[t] = IF t <= i THEN s[t] ELSE e
    BY <1>4 DEF b
  <2>2. /\ b \o z \in Seq(V) /\ Len(b \o z) = Len(b) + Len(z)
        /\ \A t \in 1 .. Len(b) + Len(z) : (b \o z)[t] = IF t <= Len(b) THEN b[t] ELSE z[t - Len(b)]
    BY <1>2, <2>1, ConcatProperties
  <2>3. (i + 1) + (n - i) = n + 1
    OBVIOUS
  <2>4. ASSUME NEW t \in 1 .. n + 1
        PROVE  (b \o z)[t] = IF t <= i THEN s[t] ELSE IF t = i + 1 THEN e ELSE s[t - 1]
    <3>1. t \in 1 .. Len(b) + Len(z) /\ (b \o z)[t] = IF t <= i + 1 THEN b[t] ELSE z[t - (i + 1)]
      BY <1>2, <2>1, <2>2, <2>3
    <3>2. CASE t <= i + 1
      <4>1. t \in 1 .. i + 1 /\ (t <= i \/ t = i + 1) /\ ~(i + 1 <= i)
        BY <3>2
      <4> QED BY <2>1, <3>1, <3>2, <4>1
    <3>3. CASE ~(t <= i + 1)
      <4>1. t - (i + 1) \in 1 .. n - i /\ i + (t - (i + 1)) = t - 1 /\ ~(t <= i) /\ t # i + 1
        BY <3>3
      <4> QED BY <1>2, <3>1, <3>3, <4>1
    <3> QED BY <3>2, <3>3
  <2>5. Len(b \o z) = n + 1
    BY <1>2, <2>1, <2>2, <2>3
  <2> QED BY <2>2, <2>4, <2>5
<1>6. b \o z = r
  <2> DEFINE y == b \o z
  <2>0. y \in Seq(V) /\ Len(y) = n + 1 /\ n + 1 \in Nat
    BY <1>5
  <2> HIDE DEF y
  <2>1. y = [t \in 1 .. n + 1 |-> y[t]]
    BY <2>0, SeqIs
  <2>2. \A t \in 1 .. n + 1 : y[t] = IF t <= i THEN s[t] ELSE IF t = i + 1 THEN e ELSE s[t - 1]
    BY <1>5 DEF y
  <2>3. y = r
    BY <2>1, <2>2, Zenon DEF With1
  <2> QED BY <2>3 DEF y
<1> QED BY <1>6 DEF a, b, z

LEMMA RemovedAt ==
    ASSUME NEW V, NEW n \in Nat, NEW s \in [1 .. n -> V], NEW k \in 1 .. n
    PROVE  SubSeq(s, 1, k - 1) \o SubSeq(s, k + 1, Len(s)) = Without1(n, s, k)
<1> DEFINE a == SubSeq(s, 1, k - 1)
           z == SubSeq(s, k + 1, Len(s))
<1>0. s \in Seq(V) /\ Len(s) = n
  OBVIOUS
<1>1. a \in Seq(V) /\ Len(a) = k - 1 /\ \A t \in 1 .. k - 1 : a[t] = s[t]
  <2>1. 1 \in Int /\ k - 1 \in Int /\ \A t \in 1 .. k - 1 : s[t] \in V
    OBVIOUS
  <2>2. /\ a \in Seq(V)
        /\ Len(a) = IF 1 <= k - 1 THEN (k - 1) - 1 + 1 ELSE 0
        /\ \A t \in 1 .. (k - 1) - 1 + 1 : a[t] = s[1 + t - 1]
    BY <2>1, SubSeqProperties
  <2> HIDE DEF a
  <2>3. \A t \in 1 .. k - 1 : t \in 1 .. (k - 1) - 1 + 1 /\ 1 + t - 1 = t
    OBVIOUS
  <2>4. Len(a) = k - 1
    BY <2>2
  <2> QED BY <2>2, <2>3, <2>4
<1>2. z \in Seq(V) /\ Len(z) = n - k /\ \A t \in 1 .. n - k : z[t] = s[k + t]
  <2>1. k + 1 \in Int /\ n \in Int /\ \A t \in k + 1 .. n : s[t] \in V
    OBVIOUS
  <2>2. /\ z \in Seq(V)
        /\ Len(z) = IF k + 1 <= n THEN n - (k + 1) + 1 ELSE 0
        /\ \A t \in 1 .. n - (k + 1) + 1 : z[t] = s[(k + 1) + t - 1]
    BY <1>0, <2>1, SubSeqProperties
  <2> HIDE DEF z
  <2>3. \A t \in 1 .. n - k : t \in 1 .. n - (k + 1) + 1 /\ (k + 1) + t - 1 = k + t
    OBVIOUS
  <2>4. Len(z) = n - k
    BY <2>2
  <2> QED BY <2>2, <2>3, <2>4
<1> HIDE DEF a, z
<1>3. /\ a \o z \in Seq(V) /\ Len(a \o z) = Len(a) + Len(z)
      /\ \A t \in 1 .. Len(a) + Len(z) : (a \o z)[t] = IF t <= Len(a) THEN a[t] ELSE z[t - Len(a)]
  BY <1>1, <1>2, ConcatProperties
<1>4. (k - 1) + (n - k) = n - 1
  OBVIOUS
<1>5. ASSUME NEW t \in 1 .. n - 1 PROVE (a \o z)[t] = IF t < k THEN s[t] ELSE s[t + 1]
  <2>1. t \in 1 .. Len(a) + Len(z) /\ (a \o z)[t] = IF t <= k - 1 THEN a[t] ELSE z[t - (k - 1)]
    BY <1>1, <1>2, <1>3, <1>4
  <2>2. CASE t < k
    <3>1. t <= k - 1 /\ t \in 1 .. k - 1
      BY <2>2
    <3> QED BY <1>1, <2>1, <2>2, <3>1
  <2>3. CASE ~(t < k)
    <3>1. ~(t <= k - 1) /\ t - (k - 1) \in 1 .. n - k /\ k + (t - (k - 1)) = t + 1
      BY <2>3
    <3> QED BY <1>2, <2>1, <2>3, <3>1
  <2> QED BY <2>2, <2>3
<1>6. Len(a \o z) = n - 1 /\ a \o z \in Seq(V)
  BY <1>1, <1>2, <1>3, <1>4
<1> DEFINE y == a \o z
<1>7. y \in Seq(V) /\ Len(y) = n - 1 /\ n - 1 \in Nat
  BY <1>6
<1>8. \A t \in 1 .. n - 1 : y[t] = IF t < k THEN s[t] ELSE s[t + 1]
  BY <1>5
<1> HIDE DEF y
<1>9. y = [t \in 1 .. n - 1 |-> y[t]]
  BY <1>7, SeqIs
<1>10. y = Without1(n, s, k)
  BY <1>8, <1>9, Zenon DEF Without1
<1> QED BY <1>10 DEF a, z, y

LEMMA SameLinks ==
    ASSUME NEW f, NEW m, NEW n, NEW c, Linked(f, m, n, c),
           NEW g, \A b \in On(n, c) : g[b].Next = m[b].Next
    PROVE  Linked(f, g, n, c)
BY DEF Linked, On

\* A node put behind the i-th: g and k are the links with it.
PutIn(f, m, n, c, i, o, g, k) ==
    /\ i \in 0 .. n /\ o \in Block /\ o \notin On(n, c)
    /\ g = IF i = 0 THEN o ELSE f
    /\ k[o].Next = IF i = n THEN NULL ELSE c[i + 1]
    /\ i > 0 => k[c[i]].Next = o
    /\ \A j \in 1 .. n : j # i => k[c[j]].Next = m[c[j]].Next

LEMMA LinkedMore ==
    ASSUME NEW f, NEW m, NEW n, NEW c, Linked(f, m, n, c),
           NEW i, NEW o, NEW g, NEW k, PutIn(f, m, n, c, i, o, g, k)
    PROVE  /\ Linked(g, k, n + 1, With1(n, c, i, o))
           /\ On(n + 1, With1(n, c, i, o)) = On(n, c) \cup {o}
<1> DEFINE e == With1(n, c, i, o)
<1>p. /\ i \in 0 .. n /\ o \in Block /\ o \notin On(n, c)
      /\ g = IF i = 0 THEN o ELSE f
      /\ k[o].Next = IF i = n THEN NULL ELSE c[i + 1]
      /\ i > 0 => k[c[i]].Next = o
      /\ \A j \in 1 .. n : j # i => k[c[j]].Next = m[c[j]].Next
  BY DEF PutIn
<1>0. /\ n \in Nat /\ i \in Nat /\ i <= n /\ f = IF n = 0 THEN NULL ELSE c[1]
      /\ \A j \in 1 .. n : c[j] \in Block /\ c[j] # o
      /\ \A j \in 1 .. n : m[c[j]].Next = IF j = n THEN NULL ELSE c[j + 1]
      /\ \A x, y \in 1 .. n : c[x] = c[y] => x = y
  BY <1>p DEF Linked, On
<1>1. /\ \A j \in 1 .. n + 1 : j <= i => e[j] = c[j]
      /\ e[i + 1] = o /\ i + 1 \in 1 .. n + 1
      /\ \A j \in 1 .. n + 1 : j > i + 1 => e[j] = c[j - 1]
  BY <1>p, <1>0 DEF With1
<1>2. \A j \in 1 .. n + 1 : \/ j <= i /\ j \in 1 .. n
                            \/ j = i + 1
                            \/ j > i + 1 /\ j - 1 \in 1 .. n /\ j - 1 > i
  BY <1>p, <1>0
<1>3. \A j \in 1 .. n + 1 : e[j] \in Block
  BY <1>p, <1>0, <1>1, <1>2
<1>4. e = [j \in 1 .. n + 1 |-> e[j]]
  BY DEF With1
<1> HIDE DEF e
<1>5. e \in [1 .. n + 1 -> Block]
  BY <1>p, <1>3, <1>4
<1>b. ASSUME NEW j \in 1 .. n + 1, j # i + 1
      PROVE  \E a \in 1 .. n : e[j] = c[a] /\ ((a <= i /\ a = j) \/ (a > i /\ a = j - 1))
  <2>1. CASE j <= i
    <3>1. j \in 1 .. n /\ e[j] = c[j]
      BY <1>p, <1>1, <1>2, <2>1, <1>0
    <3> QED BY <2>1, <3>1
  <2>2. CASE j > i + 1
    <3>1. j - 1 \in 1 .. n /\ j - 1 > i /\ e[j] = c[j - 1]
      BY <1>p, <1>0, <1>1, <1>2, <2>2
    <3> QED BY <3>1
  <2> QED BY <1>p, <1>0, <1>b, <2>1, <2>2
<1>6. ASSUME NEW x \in 1 .. n + 1, NEW y \in 1 .. n + 1, e[x] = e[y] PROVE x = y
  <2>1. CASE x = i + 1 \/ y = i + 1
    BY <1>p, <1>0, <1>1, <1>2, <1>6, <2>1
  <2>2. CASE x # i + 1 /\ y # i + 1
    <3>1. PICK a \in 1 .. n : e[x] = c[a] /\ ((a <= i /\ a = x) \/ (a > i /\ a = x - 1))
      BY <1>b, <2>2
    <3>2. PICK z \in 1 .. n : e[y] = c[z] /\ ((z <= i /\ z = y) \/ (z > i /\ z = y - 1))
      BY <1>b, <2>2
    <3>3. a = z
      BY <1>p, <1>0, <1>6, <3>1, <3>2
    <3> QED BY <1>p, <1>0, <3>1, <3>2, <3>3
  <2> QED BY <2>1, <2>2
<1>7. g = e[1]
  <2>1. 1 \in 1 .. n + 1
    BY <1>p, <1>0
  <2>2. CASE i = 0
    BY <1>p, <1>1, <2>1, <2>2
  <2>3. CASE i # 0
    BY <1>p, <1>0, <1>1, <2>1, <2>3
  <2> QED BY <2>2, <2>3
<1>8. ASSUME NEW j \in 1 .. n + 1 PROVE k[e[j]].Next = IF j = n + 1 THEN NULL ELSE e[j + 1]
  <2>0. j = n + 1 \/ (j # n + 1 /\ j + 1 \in 1 .. n + 1)
    BY <1>p, <1>0
  <2>1. CASE j <= i
    <3>1. j \in 1 .. n /\ e[j] = c[j] /\ j # n + 1 /\ j + 1 \in 1 .. n + 1
      BY <1>p, <1>0, <1>1, <2>1
    <3>2. CASE j = i
      BY <1>p, <1>0, <1>1, <3>1, <3>2
    <3>3. CASE j # i
      <4>1. j + 1 <= i /\ j # n
        BY <1>p, <1>0, <2>1, <3>3
      <4>2. k[c[j]].Next = c[j + 1]
        BY <1>p, <1>0, <3>1, <3>3, <4>1
      <4>3. e[j + 1] = c[j + 1]
        BY <1>p, <1>1, <3>1, <4>1
      <4> QED BY <3>1, <4>2, <4>3
    <3> QED BY <3>2, <3>3
  <2>2. CASE j = i + 1
    <3>1. CASE i = n
      BY <1>p, <1>1, <2>2, <3>1
    <3>2. CASE i # n
      <4>1. j # n + 1 /\ j + 1 \in 1 .. n + 1 /\ j + 1 > i + 1 /\ (j + 1) - 1 = i + 1
        BY <1>p, <1>0, <2>2, <3>2
      <4>2. e[j + 1] = c[i + 1]
        BY <1>p, <1>1, <4>1
      <4> QED BY <1>p, <1>1, <2>2, <3>2, <4>1, <4>2
    <3> QED BY <3>1, <3>2
  <2>3. CASE j > i + 1
    <3>1. j - 1 \in 1 .. n /\ j - 1 # i /\ e[j] = c[j - 1] /\ (j - 1) + 1 = j /\ (j = n + 1 <=> j - 1 = n)
      BY <1>p, <1>0, <1>1, <1>2, <2>3
    <3>2. k[c[j - 1]].Next = IF j = n + 1 THEN NULL ELSE c[j]
      BY <1>p, <1>0, <3>1
    <3>3. j # n + 1 => e[j + 1] = c[j]
      <4>1. j # n + 1 => j + 1 \in 1 .. n + 1 /\ j + 1 > i + 1 /\ (j + 1) - 1 = j
        BY <1>p, <1>0, <2>3
      <4> QED BY <1>p, <1>1, <4>1
    <3> QED BY <3>1, <3>2, <3>3
  <2> QED BY <1>p, <1>0, <2>1, <2>2, <2>3
<1>9. On(n + 1, e) = On(n, c) \cup {o}
  <2>1. ASSUME NEW j \in 1 .. n + 1 PROVE e[j] \in On(n, c) \cup {o}
    BY <1>p, <1>1, <1>2 DEF On
  <2>2. ASSUME NEW j \in 1 .. n PROVE c[j] \in On(n + 1, e)
    <3>1. j \in 1 .. n + 1 /\ j + 1 \in 1 .. n + 1 /\ (j + 1) - 1 = j /\ (j <= i \/ j + 1 > i + 1)
      BY <1>p, <1>0
    <3>2. \E x \in 1 .. n + 1 : e[x] = c[j]
      BY <1>p, <1>1, <3>1
    <3> QED BY <3>2 DEF On
  <2>3. o \in On(n + 1, e)
    BY <1>p, <1>1 DEF On
  <2> QED BY <2>1, <2>2, <2>3 DEF On
<1>10. n + 1 \in Nat /\ n + 1 # 0
  BY <1>p, <1>0
<1>11. Linked(g, k, n + 1, e)
  BY <1>5, <1>6, <1>7, <1>8, <1>10 DEF Linked
<1> QED BY <1>9, <1>11 DEF e

\* The k-th node taken out: g and h are the links without it.
TakenOut(f, m, n, c, k, g, h) ==
    /\ k \in 1 .. n
    /\ g = IF k = 1 THEN m[c[1]].Next ELSE f
    /\ k > 1 => h[c[k - 1]].Next = m[c[k]].Next
    /\ \A j \in 1 .. n : j # k /\ j # k - 1 => h[c[j]].Next = m[c[j]].Next

LEMMA LinkedLess ==
    ASSUME NEW f, NEW m, NEW n, NEW c, Linked(f, m, n, c),
           NEW k, NEW g, NEW h, TakenOut(f, m, n, c, k, g, h)
    PROVE  /\ Linked(g, h, n - 1, Without1(n, c, k))
           /\ On(n - 1, Without1(n, c, k)) = On(n, c) \ {c[k]}
<1> DEFINE e == Without1(n, c, k)
<1>p. /\ k \in 1 .. n
      /\ g = IF k = 1 THEN m[c[1]].Next ELSE f
      /\ k > 1 => h[c[k - 1]].Next = m[c[k]].Next
      /\ \A j \in 1 .. n : j # k /\ j # k - 1 => h[c[j]].Next = m[c[j]].Next
  BY DEF TakenOut
<1>0. /\ n \in Nat /\ k \in Nat /\ 1 <= k /\ k <= n /\ f = c[1]
      /\ \A j \in 1 .. n : c[j] \in Block
      /\ \A j \in 1 .. n : m[c[j]].Next = IF j = n THEN NULL ELSE c[j + 1]
      /\ \A x, y \in 1 .. n : c[x] = c[y] => x = y
  BY <1>p DEF Linked
<1>1. /\ \A j \in 1 .. n - 1 : j < k => e[j] = c[j]
      /\ \A j \in 1 .. n - 1 : j >= k => e[j] = c[j + 1]
  BY <1>p, <1>0 DEF Without1
<1>2. \A j \in 1 .. n - 1 : j \in 1 .. n /\ j + 1 \in 1 .. n /\ (j < k \/ j >= k)
  BY <1>p, <1>0
<1>3. \A j \in 1 .. n - 1 : e[j] \in Block
  BY <1>p, <1>0, <1>1, <1>2
<1>4. e = [j \in 1 .. n - 1 |-> e[j]]
  BY DEF Without1
<1> HIDE DEF e
<1>5. e \in [1 .. n - 1 -> Block]
  BY <1>3, <1>4
<1>b. ASSUME NEW j \in 1 .. n - 1
      PROVE  \E a \in 1 .. n : e[j] = c[a] /\ ((a < k /\ a = j) \/ (a > k /\ a = j + 1))
  <2>1. CASE j < k
    <3>1. j \in 1 .. n /\ e[j] = c[j]
      BY <1>p, <1>1, <1>2, <2>1
    <3> QED BY <2>1, <3>1
  <2>2. CASE j >= k
    <3>1. j + 1 \in 1 .. n /\ j + 1 > k /\ e[j] = c[j + 1]
      BY <1>p, <1>0, <1>1, <1>2, <2>2
    <3> QED BY <3>1
  <2> QED BY <1>2, <2>1, <2>2
<1>6. ASSUME NEW x \in 1 .. n - 1, NEW y \in 1 .. n - 1, e[x] = e[y] PROVE x = y
  <2>1. PICK a \in 1 .. n : e[x] = c[a] /\ ((a < k /\ a = x) \/ (a > k /\ a = x + 1))
    BY <1>b
  <2>2. PICK z \in 1 .. n : e[y] = c[z] /\ ((z < k /\ z = y) \/ (z > k /\ z = y + 1))
    BY <1>b
  <2>3. a = z
    BY <1>p, <1>0, <1>6, <2>1, <2>2
  <2> QED BY <1>p, <1>0, <2>1, <2>2, <2>3
<1>7. g = IF n - 1 = 0 THEN NULL ELSE e[1]
  <2>1. CASE k = 1
    <3>1. 1 \in 1 .. n /\ (n - 1 = 0 <=> 1 = n)
      BY <1>p, <1>0
    <3>2. g = IF 1 = n THEN NULL ELSE c[2]
      BY <1>p, <1>0, <2>1, <3>1
    <3>3. 1 # n => e[1] = c[2]
      <4>1. 1 # n => 1 \in 1 .. n - 1
        BY <1>p, <1>0
      <4> QED BY <1>p, <1>1, <2>1, <4>1
    <3> QED BY <3>1, <3>2, <3>3
  <2>2. CASE k # 1
    <3>1. 1 \in 1 .. n - 1 /\ 1 < k /\ n - 1 # 0
      BY <1>p, <1>0, <2>2
    <3> QED BY <1>p, <1>0, <1>1, <2>2, <3>1
  <2> QED BY <2>1, <2>2
<1>8. ASSUME NEW j \in 1 .. n - 1 PROVE h[e[j]].Next = IF j = n - 1 THEN NULL ELSE e[j + 1]
  <2>1. CASE j < k - 1
    <3>1. j \in 1 .. n /\ j # k /\ j # k - 1 /\ j # n /\ j # n - 1 /\ j + 1 \in 1 .. n - 1 /\ j + 1 < k /\ j < k
      BY <1>p, <1>0, <2>1
    <3>2. h[c[j]].Next = c[j + 1]
      BY <1>p, <1>0, <3>1
    <3> QED BY <1>p, <1>1, <3>1, <3>2
  <2>2. CASE j = k - 1
    <3>1. j < k /\ k > 1 /\ k \in 1 .. n /\ (k = n <=> j = n - 1)
      BY <1>p, <1>0, <2>2
    <3>2. h[e[j]].Next = IF k = n THEN NULL ELSE c[k + 1]
      BY <1>p, <1>0, <1>1, <2>2, <3>1
    <3>3. k # n => e[j + 1] = c[k + 1]
      <4>1. k # n => j + 1 \in 1 .. n - 1 /\ j + 1 = k /\ j + 1 >= k
        BY <1>p, <1>0, <2>2
      <4> QED BY <1>p, <1>1, <4>1
    <3> QED BY <3>1, <3>2, <3>3
  <2>3. CASE j >= k
    <3>1. /\ j + 1 \in 1 .. n /\ j + 1 # k /\ j + 1 # k - 1 /\ (j = n - 1 <=> j + 1 = n)
          /\ j + 1 \in Int
      BY <1>p, <1>0, <2>3
    <3>2. h[e[j]].Next = IF j = n - 1 THEN NULL ELSE c[(j + 1) + 1]
      BY <1>p, <1>0, <1>1, <2>3, <3>1
    <3>3. j # n - 1 => e[j + 1] = c[(j + 1) + 1]
      <4>1. j # n - 1 => j + 1 \in 1 .. n - 1 /\ j + 1 >= k
        BY <1>p, <1>0, <2>3
      <4> QED BY <1>p, <1>1, <4>1
    <3> QED BY <3>2, <3>3
  <2> QED BY <1>p, <1>0, <2>1, <2>2, <2>3
<1>9. On(n - 1, e) = On(n, c) \ {c[k]}
  <2>1. ASSUME NEW j \in 1 .. n - 1 PROVE e[j] \in On(n, c) \ {c[k]}
    <3>1. PICK a \in 1 .. n : e[j] = c[a] /\ a # k
      BY <1>p, <1>0, <1>1, <1>2
    <3>2. c[a] # c[k]
      BY <1>p, <1>0, <3>1
    <3> QED BY <3>1, <3>2 DEF On
  <2>2. ASSUME NEW j \in 1 .. n, c[j] # c[k] PROVE c[j] \in On(n - 1, e)
    <3>1. j < k \/ j > k
      BY <1>p, <1>0, <2>2
    <3>2. \E x \in 1 .. n - 1 : e[x] = c[j]
      <4>1. CASE j < k
        <5>1. j \in 1 .. n - 1
          BY <1>p, <1>0, <4>1
        <5> QED BY <1>p, <1>1, <4>1, <5>1
      <4>2. CASE j > k
        <5>1. j - 1 \in 1 .. n - 1 /\ j - 1 >= k /\ (j - 1) + 1 = j
          BY <1>p, <1>0, <4>2
        <5>2. e[j - 1] = c[j]
          BY <1>p, <1>1, <5>1
        <5> QED BY <5>1, <5>2
      <4> QED BY <3>1, <4>1, <4>2
    <3> QED BY <3>2 DEF On
  <2>3. \A y \in On(n - 1, e) : y \in On(n, c) \ {c[k]}
    BY <2>1 DEF On
  <2>4. \A y \in On(n, c) \ {c[k]} : y \in On(n - 1, e)
    <3> SUFFICES ASSUME NEW y \in On(n, c) \ {c[k]} PROVE y \in On(n - 1, e)
      OBVIOUS
    <3>1. PICK j \in 1 .. n : y = c[j]
      BY DEF On
    <3> QED BY <2>2, <3>1
  <2> QED BY <2>3, <2>4
<1>10. n - 1 \in Nat
  BY <1>p, <1>0
<1>11. Linked(g, h, n - 1, e)
  BY <1>5, <1>6, <1>7, <1>8, <1>10 DEF Linked
<1> QED BY <1>9, <1>11 DEF e

-----------------------------------------------------------------------------
(* The list and the allocator.                                                 *)

\* The nodes c and the ranges f share out what the table has marked.
Shared(n, c, map, f) ==
    /\ \A b \in On(n, c) : b \in Block /\ map[b] = 1
    /\ \A p \in DOMAIN f : Span(p, f[p]) \cap On(n, c) = {}
    /\ \A b \in Block : map[b] # 0 => b \in On(n, c) \/ \E p \in DOMAIN f : b \in Span(p, f[p])

InRow(n, c) == Linked(first, mem, n, c) /\ Shared(n, c, memmap, raw)

LInv == /\ MInv /\ lost \in BOOLEAN
        /\ \E n, c : InRow(n, c)
        /\ ~ready => first = NULL /\ \A b \in Block : memmap[b] = 0

\* In the state the calls begin in.
LEMMA NodesHere ==
    ASSUME NEW n, NEW c, InRow(n, c)
    PROVE  Nodes = c /\ Count = n /\ n \in Nat
<1>1. Node = NodesFrom(first, mem)
  BY Zenon DEF Node, NodesFrom
<1>2. Nodes = RowOf(Node)
  BY DEF Nodes, RowOf
<1> QED BY <1>1, <1>2, RowIs, RowShort DEF InRow, Count

\* The values of a row; those of the list are Items.
Shown(m, n, c) == [t \in 1 .. n |-> m[c[t]].data]

LEMMA ItemsHere ==
    ASSUME NEW n, NEW c, InRow(n, c) PROVE Items = Shown(mem, n, c)
BY NodesHere DEF Items, Shown

\* In the state they leave.
LEMMA ItemsThere ==
    ASSUME NEW n, NEW c, Linked(first', mem', n, c) PROVE Items' = Shown(mem', n, c)
<1>1. Node' = NodesFrom(first', mem')
  BY Zenon DEF Node, NodesFrom
<1>2. Nodes' = RowOf(Node')
  BY DEF Nodes, RowOf
<1>3. Nodes' = c /\ Count' = n
  BY <1>1, <1>2, RowIs DEF Count
<1> QED BY <1>3 DEF Items, Shown

LEMMA FirstNode ==
    ASSUME NEW n, NEW c, InRow(n, c) PROVE first = NULL <=> n = 0
<1>1. n \in Nat /\ (n # 0 => 1 \in 1 .. n) /\ NULL \notin Block
  BY Numbers DEF InRow, Linked
<1> QED BY <1>1 DEF InRow, Linked

\* As a call finds the list once the pool is set up.
LEMMA SetUpRow ==
    ASSUME LInv, NEW n, NEW c, InRow(n, c)
    PROVE  /\ Linked(first, Pool, n, c) /\ Shared(n, c, Table, raw)
           /\ \A b \in On(n, c) : Pool[b] = mem[b]
<1>1. CASE ready
  BY <1>1 DEF Pool, Table, InRow
<1>2. CASE ~ready
  <2>1. n = 0 /\ \A b \in Block : Table[b] = 0
    BY <1>2, FirstNode DEF LInv, Table
  <2>2. On(n, c) = {} /\ DOMAIN raw = {}
    BY <1>2, <2>1 DEF On, LInv, MInv
  <2>3. Linked(first, Pool, n, c)
    BY <2>2, SameLinks DEF InRow
  <2> QED BY <2>1, <2>2, <2>3 DEF Shared
<1> QED BY <1>1, <1>2

\* A client's range more.
LEMMA TakeShares ==
    ASSUME NEW n, NEW c, NEW map, NEW f, Shared(n, c, map, f),
           NEW o \in Block, NEW k, o \notin DOMAIN f,
           \A b \in Span(o, k) : map[b] = 0
    PROVE  /\ Span(o, k) \cap On(n, c) = {}
           /\ Shared(n, c, Marked(map, o, k, k), With(f, o, k))
<1>1. Span(o, k) \cap On(n, c) = {}
  BY DEF Shared
<1> DEFINE g == With(f, o, k)
<1>2. /\ DOMAIN g = DOMAIN f \cup {o} /\ g[o] = k
      /\ \A p \in DOMAIN f : g[p] = f[p]
  BY DEF With
<1> HIDE DEF g
<1>3. \A b \in On(n, c) : b \in Block /\ Marked(map, o, k, k)[b] = 1
  BY <1>1 DEF Shared, Marked
<1>4. \A p \in DOMAIN g : Span(p, g[p]) \cap On(n, c) = {}
  BY <1>1, <1>2 DEF Shared
<1>5. ASSUME NEW b \in Block, Marked(map, o, k, k)[b] # 0
      PROVE  b \in On(n, c) \/ \E p \in DOMAIN g : b \in Span(p, g[p])
  <2>1. CASE b \in Span(o, k)
    BY <1>2, <2>1
  <2>2. CASE b \notin Span(o, k)
    <3>1. map[b] # 0
      BY <1>5, <2>2 DEF Marked
    <3> QED BY <1>2, <3>1 DEF Shared
  <2> QED BY <2>1, <2>2
<1> QED BY <1>1, <1>3, <1>4, <1>5 DEF Shared, g

\* A client's range less.
LEMMA GiveShares ==
    ASSUME NEW n, NEW c, NEW map, NEW f, Shared(n, c, map, f), NEW p \in DOMAIN f
    PROVE  /\ Span(p, f[p]) \cap On(n, c) = {}
           /\ Shared(n, c, Marked(map, p, f[p], 0), [q \in DOMAIN f \ {p} |-> f[q]])
<1>1. Span(p, f[p]) \cap On(n, c) = {}
  BY DEF Shared
<1>2. \A b \in On(n, c) : b \in Block /\ Marked(map, p, f[p], 0)[b] = 1
  BY <1>1 DEF Shared, Marked
<1>3. ASSUME NEW b \in Block, Marked(map, p, f[p], 0)[b] # 0
      PROVE  b \in On(n, c) \/ \E q \in DOMAIN f \ {p} : b \in Span(q, f[q])
  <2>1. b \notin Span(p, f[p]) /\ map[b] # 0
    BY <1>3 DEF Marked
  <2> QED BY <2>1 DEF Shared
<1> QED BY <1>1, <1>2, <1>3 DEF Shared

-----------------------------------------------------------------------------
(* What the clients do leaves the list alone.                                  *)

\* The nodes are what they were, where they were.
KeptRow(n, c) == InRow(n, c)' /\ \A b \in On(n, c) : mem'[b] = mem[b]

LEMMA RefusedRow ==
    ASSUME LInv, NEW n, NEW c, InRow(n, c), NEW k, Refused(k), first' = first
    PROVE  KeptRow(n, c)
BY SetUpRow DEF Refused, InRow, KeptRow

LEMMA MallocRow ==
    ASSUME LInv, NEW n, NEW c, InRow(n, c), NEW size \in Nat, Malloc(size), first' = first
    PROVE  KeptRow(n, c)
<1> DEFINE k == NMemb(size)
<1>1. CASE Refused(k)
  BY <1>1, RefusedRow
<1>2. ASSUME Room(k), NEW o \in Block, Found(o, k), memmap' = Marked(Table, o, k, k),
             raw' = With(raw, o, k), mem' = Pool
      PROVE  KeptRow(n, c)
  <2>1. /\ o \notin DOMAIN raw /\ \A b \in Span(o, k) : Table[b] = 0
    BY <1>2, BlocksNeeded, FoundFree DEF LInv
  <2>2. Shared(n, c, memmap', raw')
    BY <1>2, <2>1, SetUpRow, TakeShares
  <2> QED BY <1>2, <2>2, SetUpRow DEF InRow, KeptRow
<1> QED BY <1>1, <1>2 DEF Malloc

LEMMA FreeRow ==
    ASSUME LInv, NEW n, NEW c, InRow(n, c), NEW p \in DOMAIN raw, Free(p), first' = first
    PROVE  KeptRow(n, c)
<1>1. memmap[p] = raw[p]
  BY FirstIn DEF LInv, MInv, Agree, Marks
<1>2. Span(p, raw[p]) \cap On(n, c) = {} /\ Shared(n, c, memmap', raw')
  BY <1>1, GiveShares DEF InRow, Free, Without
<1>3. \A b \in On(n, c) : mem'[b] = mem[b]
  BY <1>1, <1>2 DEF Free, Cleared, InRow, Shared
<1> QED BY <1>2, <1>3, SameLinks DEF InRow, KeptRow

LEMMA ReallocRow ==
    ASSUME LInv, NEW n, NEW c, InRow(n, c), NEW p \in DOMAIN raw \cup {NULL},
           NEW size \in Nat, Realloc(p, size), first' = first
    PROVE  KeptRow(n, c)
<1> DEFINE k == NMemb(size)
<1>0. MInv
  BY DEF LInv
<1>1. CASE Refused(k)
  BY <1>1, RefusedRow
<1>2. CASE ~Refused(k)
  <2>1. PICK o \in Block, stray \in Written :
            /\ Room(k) /\ ready' = TRUE /\ Found(o, k)
            /\ IF p = NULL
               THEN /\ memmap' = Marked(Table, o, k, k)
                    /\ mem' = Copied(p, o, k, stray) /\ raw' = With(raw, o, k)
               ELSE Moved(p, o, k) /\ mem' = Cleared(Copied(p, o, k, stray), p, raw[p])
    BY <1>0, <1>2, ReallocFound
  <2>2. k \in Int
    BY BlocksNeeded
  <2>3. /\ o \notin DOMAIN raw /\ \A b \in Span(o, k) : Table[b] = 0
    BY <1>0, <2>1, <2>2, FoundFree
  <2> DEFINE new == Copied(p, o, k, stray)
             map == Marked(Table, o, k, k)
             f   == With(raw, o, k)
  <2>4. p \in Block \cup {NULL}
    BY <1>0 DEF MInv, Agree, Held
  <2>5. \A b \in Block \ Span(o, k) : new[b] = Pool[b]
    BY <1>0, <2>4, CopiedType
  <2> HIDE DEF new
  <2>6. Shared(n, c, map, f) /\ Span(o, k) \cap On(n, c) = {} /\ Linked(first, Pool, n, c)
    BY <2>3, SetUpRow, TakeShares
  <2>7. \A b \in On(n, c) : b \in Block /\ new[b] = Pool[b]
    BY <2>5, <2>6 DEF Shared
  <2>10. \A b \in On(n, c) : Pool[b] = mem[b]
    BY SetUpRow
  <2>8. CASE p = NULL
    <3>1. memmap' = map /\ mem' = new /\ raw' = f
      BY <2>1, <2>8 DEF new
    <3>2. Linked(first, new, n, c)
      BY <2>6, <2>7, SameLinks
    <3> QED BY <2>6, <2>7, <2>10, <3>1, <3>2 DEF InRow, KeptRow
  <2>9. CASE p # NULL
    <3>1. /\ memmap' = Marked(map, p, raw[p], 0) /\ raw' = With(Without(p), o, k)
          /\ mem' = Cleared(new, p, raw[p])
      BY <2>1, <2>9 DEF Moved, new
    <3>2. DOMAIN f = DOMAIN raw \cup {o} /\ f[p] = raw[p] /\ p # o /\ p \in DOMAIN f
      BY <2>3, <2>9 DEF With
    <3>3. raw' = [q \in DOMAIN f \ {p} |-> f[q]]
      BY <2>3, <3>1, <3>2 DEF With, Without
    <3> HIDE DEF map, f
    <3>4. Shared(n, c, memmap', raw') /\ Span(p, raw[p]) \cap On(n, c) = {}
      BY <2>6, <3>1, <3>2, <3>3, GiveShares
    <3>5. \A b \in On(n, c) : mem'[b] = Pool[b]
      BY <2>7, <3>1, <3>4 DEF Cleared
    <3>6. Linked(first, mem', n, c)
      BY <2>6, <3>5, SameLinks
    <3> QED BY <2>10, <3>4, <3>5, <3>6 DEF InRow, KeptRow
  <2> QED BY <2>8, <2>9
<1> QED BY <1>1, <1>2

LEMMA WriteRow ==
    ASSUME LInv, NEW n, NEW c, InRow(n, c), NEW p \in DOMAIN raw, NEW i \in 0 .. raw[p] - 1,
           NEW v, Write(p, i, v), first' = first
    PROVE  KeptRow(n, c)
<1>1. Held(raw) /\ mem \in [Block -> Cell]
  BY DEF LInv, MInv, Agree
<1>2. p \in Block /\ raw[p] \in 1 .. N
  BY <1>1, FirstIn
<1>3. p + i \in Span(p, raw[p])
  BY <1>2 DEF Span, Block
<1>4. p + i \notin On(n, c)
  BY <1>3 DEF InRow, Shared
<1>5. \A b \in On(n, c) : mem'[b] = mem[b]
  BY <1>1, <1>4 DEF InRow, Shared, Write
<1>6. Linked(first, mem', n, c)
  BY <1>5, SameLinks DEF InRow
<1> QED BY <1>5, <1>6 DEF InRow, Write, KeptRow

LEMMA ClientsKeep ==
    ASSUME LInv, Clients, UNCHANGED <<first, lost>> PROVE LInv' /\ Items' = Items
<1>0. Sizes \subseteq Nat /\ MInv
  BY PoolAssumption DEF LInv
<1>1. MInv'
  BY <1>0, ClientsFine
<1>2. PICK n, c : InRow(n, c)
  BY DEF LInv
<1>3. KeptRow(n, c)
  <2>1. ASSUME NEW size \in Sizes, Malloc(size) \/ Realloc(NULL, size) PROVE KeptRow(n, c)
    BY <1>0, <1>2, <2>1, MallocRow, ReallocRow
  <2>2. ASSUME NEW p \in DOMAIN raw, Free(p) PROVE KeptRow(n, c)
    BY <1>2, <2>2, FreeRow
  <2>3. ASSUME NEW p \in DOMAIN raw, NEW size \in Sizes, Realloc(p, size) PROVE KeptRow(n, c)
    BY <1>0, <1>2, <2>3, ReallocRow
  <2>4. ASSUME NEW p \in DOMAIN raw, NEW i \in 0 .. raw[p] - 1, NEW v \in Written, Write(p, i, v)
        PROVE  KeptRow(n, c)
    BY <1>2, <2>4, WriteRow
  <2> QED BY <2>1, <2>2, <2>3, <2>4 DEF Clients
<1>4. ready'
  <2>1. DOMAIN raw # {} => ready
    BY <1>0 DEF MInv
  <2> QED BY <2>1 DEF Clients, Malloc, Realloc, Refused, Free, Write
<1>5. \E k, e : InRow(k, e)'
  BY <1>3 DEF KeptRow
<1>6. Items' = Items
  <2>1. Items = Shown(mem, n, c)
    BY <1>2, ItemsHere
  <2>2. Items' = Shown(mem', n, c)
    BY <1>3, ItemsThere DEF KeptRow, InRow
  <2>3. \A t \in 1 .. n : mem'[c[t]] = mem[c[t]]
    BY <1>3 DEF KeptRow, On
  <2> QED BY <2>1, <2>2, <2>3 DEF Shown
<1> QED BY <1>1, <1>4, <1>5, <1>6 DEF LInv, InRow

-----------------------------------------------------------------------------
(* The calls of the list.                                                      *)

LEMMA SameMarks ==
    ASSUME NEW map, NEW f, Agree(map, f), NEW new \in [Block -> 0 .. N],
           \A p \in DOMAIN f : \A b \in Span(p, f[p]) : new[b] = map[b]
    PROVE  Agree(new, f)
BY DEF Agree, Marks

\* The blocks of the clients.
Clients0(f) == UNION {Span(p, f[p]) : p \in DOMAIN f}

\* The list, the allocator's table and the pool go together.
Fine(f, m, n, c, map) == /\ m \in [Block -> Cell] /\ Linked(f, m, n, c)
                         /\ Shared(n, c, map, raw) /\ Agree(map, raw) /\ Clean(map, m)

\* The pool with a node put behind the i-th, and with the j-th taken out.
Put(m, n, c, i, o, d) ==
    [b \in Block |-> IF b = o THEN [data |-> d, Next |-> IF i = n THEN NULL ELSE c[i + 1]]
                     ELSE IF i > 0 /\ b = c[i] THEN [m[b] EXCEPT !.Next = o]
                     ELSE m[b]]
Taken(m, c, j) ==
    Cleared([b \in Block |-> IF j > 1 /\ b = c[j - 1] THEN [m[b] EXCEPT !.Next = m[c[j]].Next]
                             ELSE m[b]], c[j], 1)

LEMMA NodeMore ==
    ASSUME NEW f, NEW m, NEW n, NEW c, NEW map, Fine(f, m, n, c, map),
           NEW i \in 0 .. n, NEW o \in Block, map[o] = 0, NEW d \in Data
    PROVE  /\ Fine(IF i = 0 THEN o ELSE f, Put(m, n, c, i, o, d), n + 1, With1(n, c, i, o),
                   Marked(map, o, 1, 1))
           /\ \A b \in Clients0(raw) : Put(m, n, c, i, o, d)[b] = m[b]
<1> SUFFICES ASSUME NEW g, g = IF i = 0 THEN o ELSE f,
                    NEW k, k = [b \in Block |->
                         IF b = o THEN [data |-> d, Next |-> IF i = n THEN NULL ELSE c[i + 1]]
                         ELSE IF i > 0 /\ b = c[i] THEN [m[b] EXCEPT !.Next = o]
                         ELSE m[b]],
                    NEW new, new = Marked(map, o, 1, 1)
             PROVE  /\ Fine(g, k, n + 1, With1(n, c, i, o), new)
                    /\ \A b \in Clients0(raw) : k[b] = m[b]
  BY Zenon DEF Put
<1> /\ m \in [Block -> Cell] /\ Linked(f, m, n, c)
    /\ Shared(n, c, map, raw) /\ Agree(map, raw) /\ Clean(map, m)
  BY DEF Fine
<1>0. /\ n \in Nat /\ N \in Nat /\ N >= 1 /\ NULL \notin Block
      /\ \A j \in 1 .. n : c[j] \in Block
      /\ Cell = [data : Data \cup {NULL}, Next : Block \cup {NULL}]
      /\ \A x, y \in 1 .. n : c[x] = c[y] => x = y
  BY Numbers, CellAssumption DEF Linked
<1>1. Span(o, 1) = {o}
  BY <1>0 DEF Span, Block
<1>2. new \in [Block -> 0 .. N] /\ new[o] = 1 /\ \A b \in Block \ {o} : new[b] = map[b]
  BY <1>0, <1>1 DEF Marked, Agree
<1>3. o \notin On(n, c)
  BY DEF Shared
<1>4. \A b \in Clients0(raw) : b \in Block /\ map[b] # 0 /\ b # o /\ b \notin On(n, c)
  <2>1. ASSUME NEW p \in DOMAIN raw, NEW b \in Span(p, raw[p])
        PROVE  b \in Block /\ map[b] # 0 /\ b # o /\ b \notin On(n, c)
    <3>1. raw[p] \in 1 .. N /\ b \in Block /\ map[b] = raw[p]
      BY DEF Agree, Held, Marks
    <3> QED BY <1>0, <3>1 DEF Shared
  <2> QED BY <2>1 DEF Clients0
<1>5. \A p \in DOMAIN raw : \A b \in Span(p, raw[p]) : b \in Clients0(raw)
  BY DEF Clients0
<1>6. i > 0 => i \in 1 .. n /\ c[i] # o
  <2>1. i > 0 => i \in 1 .. n
    BY <1>0
  <2> QED BY <1>3, <2>1 DEF On
<1>7. /\ k[o] = [data |-> d, Next |-> IF i = n THEN NULL ELSE c[i + 1]]
      /\ i > 0 => k[c[i]] = [m[c[i]] EXCEPT !.Next = o]
      /\ \A b \in Block : b # o /\ ~(i > 0 /\ b = c[i]) => k[b] = m[b]
  <2>1. k[o] = [data |-> d, Next |-> IF i = n THEN NULL ELSE c[i + 1]]
    BY Zenon
  <2>2. i > 0 => c[i] \in Block /\ c[i] # o
    BY <1>0, <1>6
  <2>3. i > 0 => k[c[i]] = [m[c[i]] EXCEPT !.Next = o]
    BY <2>2, Zenon
  <2>4. \A b \in Block : b # o /\ ~(i > 0 /\ b = c[i]) => k[b] = m[b]
    BY Zenon
  <2> QED BY <2>1, <2>3, <2>4
<1>8. i # n => i + 1 \in 1 .. n
  <2>1. n \in Nat
    BY <1>0
  <2> QED BY <2>1
<1>9. k[o].Next = IF i = n THEN NULL ELSE c[i + 1]
  BY <1>7
<1>10. i > 0 => k[c[i]].Next = o
  BY <1>0, <1>6, <1>7
<1>11. \A j \in 1 .. n : j # i => k[c[j]].Next = m[c[j]].Next
  <2> SUFFICES ASSUME NEW j \in 1 .. n, j # i PROVE k[c[j]] = m[c[j]]
    OBVIOUS
  <2>1. c[j] # o /\ c[j] \in Block
    BY <1>0, <1>3 DEF On
  <2>2. ~(i > 0 /\ c[j] = c[i])
    BY <1>0, <1>6
  <2> QED BY <1>7, <2>1, <2>2
<1>12. k \in [Block -> Cell]
  <2>1. [data |-> d, Next |-> IF i = n THEN NULL ELSE c[i + 1]] \in Cell
    BY <1>0, <1>8
  <2>2. \A b \in Block : [m[b] EXCEPT !.Next = o] \in Cell
    BY <1>0
  <2> QED BY <2>1, <2>2
<1>13. \A b \in Clients0(raw) : k[b] = m[b]
  <2> SUFFICES ASSUME NEW b \in Clients0(raw) PROVE k[b] = m[b]
    OBVIOUS
  <2>1. ~(i > 0 /\ b = c[i])
    BY <1>4, <1>6 DEF On
  <2> QED BY <1>4, <1>7, <2>1
<1>14. Agree(new, raw)
  BY <1>2, <1>4, <1>5, SameMarks
<1>15. Clean(new, k)
  <2>1. ASSUME NEW b \in Block, new[b] = 0 PROVE k[b] = Zero
    <3>1. b # o /\ map[b] = 0 /\ m[b] = Zero
      BY <1>2, <2>1 DEF Clean
    <3>2. b \notin On(n, c)
      BY <3>1 DEF Shared
    <3>3. ~(i > 0 /\ b = c[i])
      BY <1>6, <3>2 DEF On
    <3> QED BY <1>7, <3>1, <3>3
  <2> QED BY <2>1 DEF Clean
<1>16. /\ Linked(g, k, n + 1, With1(n, c, i, o))
       /\ On(n + 1, With1(n, c, i, o)) = On(n, c) \cup {o}
  <2>1. PutIn(f, m, n, c, i, o, g, k)
    BY <1>3, <1>9, <1>10, <1>11, Zenon DEF PutIn
  <2> QED BY <2>1, LinkedMore
<1>17. Shared(n + 1, With1(n, c, i, o), new, raw)
  <2>1. \A b \in On(n, c) \cup {o} : b \in Block /\ new[b] = 1
    BY <1>2, <1>3 DEF Shared
  <2>2. \A p \in DOMAIN raw : Span(p, raw[p]) \cap (On(n, c) \cup {o}) = {}
    BY <1>4, <1>5
  <2>3. \A b \in Block : new[b] # 0 => b \in On(n, c) \cup {o} \/ \E p \in DOMAIN raw : b \in Span(p, raw[p])
    BY <1>2 DEF Shared
  <2> QED BY <1>16, <2>1, <2>2, <2>3 DEF Shared
<1> QED BY <1>12, <1>13, <1>14, <1>15, <1>16, <1>17 DEF Fine

LEMMA NodeLess ==
    ASSUME NEW f, NEW m, NEW n, NEW c, NEW map, Fine(f, m, n, c, map), NEW j \in 1 .. n
    PROVE  /\ Fine(IF j = 1 THEN m[c[1]].Next ELSE f, Taken(m, c, j), n - 1, Without1(n, c, j),
                   Marked(map, c[j], 1, 0))
           /\ \A b \in Clients0(raw) : Taken(m, c, j)[b] = m[b]
<1> SUFFICES ASSUME NEW g, g = IF j = 1 THEN m[c[1]].Next ELSE f,
                    NEW k, k = Cleared([b \in Block |-> IF j > 1 /\ b = c[j - 1]
                                               THEN [m[b] EXCEPT !.Next = m[c[j]].Next]
                                               ELSE m[b]], c[j], 1),
                    NEW new, new = Marked(map, c[j], 1, 0)
             PROVE  /\ Fine(g, k, n - 1, Without1(n, c, j), new)
                    /\ \A b \in Clients0(raw) : k[b] = m[b]
  BY Zenon DEF Taken
<1> /\ m \in [Block -> Cell] /\ Linked(f, m, n, c)
    /\ Shared(n, c, map, raw) /\ Agree(map, raw) /\ Clean(map, m)
  BY DEF Fine
<1>0. /\ n \in Nat /\ N \in Nat /\ N >= 1 /\ NULL \notin Block
      /\ \A i \in 1 .. n : c[i] \in Block
      /\ Cell = [data : Data \cup {NULL}, Next : Block \cup {NULL}]
      /\ \A x, y \in 1 .. n : c[x] = c[y] => x = y
      /\ Zero \in Cell
  BY Numbers, CellAssumption, PoolAssumption DEF Linked
<1>1. c[j] \in Block /\ Span(c[j], 1) = {c[j]}
  BY <1>0 DEF Span, Block
<1>2. new \in [Block -> 0 .. N] /\ new[c[j]] = 0 /\ \A b \in Block \ {c[j]} : new[b] = map[b]
  BY <1>0, <1>1 DEF Marked, Agree
<1>4. \A b \in Clients0(raw) : b \in Block /\ b \notin On(n, c)
  <2>1. ASSUME NEW p \in DOMAIN raw, NEW b \in Span(p, raw[p])
        PROVE  b \in Block /\ b \notin On(n, c)
    BY DEF Agree, Held, Shared
  <2> QED BY <2>1 DEF Clients0
<1>5. \A p \in DOMAIN raw : \A b \in Span(p, raw[p]) : b \in Clients0(raw)
  BY DEF Clients0
<1>6. /\ j > 1 => j - 1 \in 1 .. n /\ j - 1 # j
      /\ \A i \in 1 .. n : c[i] \in On(n, c)
  BY <1>0 DEF On
<1>7. /\ k[c[j]] = Zero
      /\ j > 1 => k[c[j - 1]] = [m[c[j - 1]] EXCEPT !.Next = m[c[j]].Next]
      /\ \A b \in Block : b # c[j] /\ ~(j > 1 /\ b = c[j - 1]) => k[b] = m[b]
  <2>1. j > 1 => c[j - 1] \in Block /\ c[j - 1] # c[j]
    BY <1>0, <1>6
  <2> QED BY <1>1, <2>1 DEF Cleared
<1>8. m[c[j]].Next \in Block \cup {NULL}
  BY <1>0, <1>1
<1>9. j > 1 => k[c[j - 1]].Next = m[c[j]].Next
  <2>1. j > 1 => m[c[j - 1]] \in Cell
    BY <1>0, <1>6
  <2> QED BY <1>0, <1>7, <2>1
<1>10. \A i \in 1 .. n : i # j /\ i # j - 1 => k[c[i]].Next = m[c[i]].Next
  <2> SUFFICES ASSUME NEW i \in 1 .. n, i # j, i # j - 1 PROVE k[c[i]] = m[c[i]]
    OBVIOUS
  <2>1. c[i] # c[j] /\ c[i] \in Block
    BY <1>0
  <2>2. ~(j > 1 /\ c[i] = c[j - 1])
    BY <1>0, <1>6
  <2> QED BY <1>7, <2>1, <2>2
<1>12. k \in [Block -> Cell]
  <2>1. \A b \in Block : [m[b] EXCEPT !.Next = m[c[j]].Next] \in Cell
    BY <1>0, <1>8
  <2> QED BY <1>0, <2>1 DEF Cleared
<1>13. \A b \in Clients0(raw) : k[b] = m[b]
  <2> SUFFICES ASSUME NEW b \in Clients0(raw) PROVE k[b] = m[b]
    OBVIOUS
  <2>1. b # c[j] /\ ~(j > 1 /\ b = c[j - 1]) /\ b \in Block
    BY <1>4, <1>6
  <2> QED BY <1>7, <2>1
<1>14. Agree(new, raw)
  <2>1. \A p \in DOMAIN raw : \A b \in Span(p, raw[p]) : new[b] = map[b]
    BY <1>2, <1>4, <1>5, <1>6
  <2> QED BY <1>2, <2>1, SameMarks
<1>15. Clean(new, k)
  <2>1. ASSUME NEW b \in Block, new[b] = 0 PROVE k[b] = Zero
    <3>1. CASE b = c[j]
      BY <1>7, <3>1
    <3>2. CASE b # c[j]
      <4>1. map[b] = 0 /\ m[b] = Zero
        BY <1>2, <2>1, <3>2 DEF Clean
      <4>2. ~(j > 1 /\ b = c[j - 1])
        BY <1>6, <4>1 DEF Shared
      <4> QED BY <1>7, <3>2, <4>1, <4>2
    <3> QED BY <3>1, <3>2
  <2> QED BY <2>1 DEF Clean
<1>16. /\ Linked(g, k, n - 1, Without1(n, c, j))
       /\ On(n - 1, Without1(n, c, j)) = On(n, c) \ {c[j]}
  <2>1. TakenOut(f, m, n, c, j, g, k)
    BY <1>9, <1>10, Zenon DEF TakenOut
  <2> QED BY <2>1, LinkedLess
<1>17. Shared(n - 1, Without1(n, c, j), new, raw)
  <2>1. \A b \in On(n, c) \ {c[j]} : b \in Block /\ new[b] = 1
    BY <1>2 DEF Shared
  <2>2. \A p \in DOMAIN raw : Span(p, raw[p]) \cap (On(n, c) \ {c[j]}) = {}
    BY DEF Shared
  <2>3. \A b \in Block : new[b] # 0 => \/ b \in On(n, c) \ {c[j]}
                                       \/ \E p \in DOMAIN raw : b \in Span(p, raw[p])
    BY <1>2 DEF Shared
  <2> QED BY <1>16, <2>1, <2>2, <2>3 DEF Shared
<1> QED BY <1>12, <1>13, <1>14, <1>15, <1>16, <1>17 DEF Fine

\* The values with the node, and without.
LEMMA RowValues ==
    ASSUME NEW f, NEW m, NEW n, NEW c, NEW map, Fine(f, m, n, c, map)
    PROVE  Shown(m, n, c) \in [1 .. n -> Data \cup {NULL}] /\ n \in Nat
<1>1. \A t \in 1 .. n : m[c[t]].data \in Data \cup {NULL}
  BY CellAssumption DEF Fine, Linked
<1> QED BY <1>1 DEF Shown, Fine, Linked

LEMMA MoreValues ==
    ASSUME NEW f, NEW m, NEW n, NEW c, NEW map, Fine(f, m, n, c, map),
           NEW i \in 0 .. n, NEW o \in Block, map[o] = 0, NEW d \in Data
    PROVE  Shown(Put(m, n, c, i, o, d), n + 1, With1(n, c, i, o)) = With1(n, Shown(m, n, c), i, d)
<1> DEFINE k == Put(m, n, c, i, o, d)
           e == With1(n, c, i, o)
           s == Shown(m, n, c)
<1>0. /\ n \in Nat /\ \A t \in 1 .. n : c[t] \in Block /\ c[t] # o
      /\ \A b \in Block : m[b] \in Cell /\ [m[b] EXCEPT !.Next = o].data = m[b].data
  BY CellAssumption DEF Fine, Linked, Shared, On
<1>1. k[o].data = d /\ \A t \in 1 .. n : k[c[t]].data = m[c[t]].data
  BY <1>0 DEF Put
<1>2. \A t \in 1 .. n : s[t] = m[c[t]].data
  BY DEF Shown
<1>3. \A t \in 1 .. n + 1 : e[t] = IF t <= i THEN c[t] ELSE IF t = i + 1 THEN o ELSE c[t - 1]
  BY DEF With1
<1> HIDE DEF k, e, s
<1>4. ASSUME NEW t \in 1 .. n + 1
      PROVE  k[e[t]].data = IF t <= i THEN s[t] ELSE IF t = i + 1 THEN d ELSE s[t - 1]
  <2>1. (t <= i => t \in 1 .. n) /\ (~(t <= i) /\ t # i + 1 => t - 1 \in 1 .. n)
    BY <1>0
  <2> QED BY <1>1, <1>2, <1>3, <2>1
<1>5. Shown(k, n + 1, e) = With1(n, s, i, d)
  BY <1>4, Zenon DEF Shown, With1
<1> QED BY <1>5 DEF k, e, s

LEMMA LessValues ==
    ASSUME NEW f, NEW m, NEW n, NEW c, NEW map, Fine(f, m, n, c, map), NEW j \in 1 .. n
    PROVE  Shown(Taken(m, c, j), n - 1, Without1(n, c, j)) = Without1(n, Shown(m, n, c), j)
<1> DEFINE k == Taken(m, c, j)
           e == Without1(n, c, j)
           s == Shown(m, n, c)
<1>0. /\ n \in Nat /\ \A t \in 1 .. n : c[t] \in Block /\ (c[t] = c[j] => t = j)
      /\ \A b \in Block : m[b] \in Cell /\ \A v : [m[b] EXCEPT !.Next = v].data = m[b].data
  BY CellAssumption DEF Fine, Linked
<1>1. \A t \in 1 .. n : t # j => k[c[t]].data = m[c[t]].data
  <2>1. Span(c[j], 1) = {c[j]}
    BY <1>0, Numbers DEF Span, Block
  <2> SUFFICES ASSUME NEW t \in 1 .. n, t # j PROVE k[c[t]].data = m[c[t]].data
    OBVIOUS
  <2>2. c[t] \in Block /\ c[t] \notin Span(c[j], 1)
    BY <1>0, <2>1
  <2>3. k[c[t]] = IF j > 1 /\ c[t] = c[j - 1] THEN [m[c[t]] EXCEPT !.Next = m[c[j]].Next] ELSE m[c[t]]
    BY <2>2 DEF Taken, Cleared
  <2> QED BY <1>0, <2>2, <2>3
<1>2. \A t \in 1 .. n : s[t] = m[c[t]].data
  BY DEF Shown
<1>3. \A t \in 1 .. n - 1 : e[t] = IF t < j THEN c[t] ELSE c[t + 1]
  BY DEF Without1
<1> HIDE DEF k, e, s
<1>4. ASSUME NEW t \in 1 .. n - 1
      PROVE  k[e[t]].data = IF t < j THEN s[t] ELSE s[t + 1]
  <2>1. t \in 1 .. n /\ t + 1 \in 1 .. n /\ (t < j => t # j) /\ (~(t < j) => t + 1 # j)
    BY <1>0
  <2> QED BY <1>1, <1>2, <1>3, <2>1
<1>5. Shown(k, n - 1, e) = Without1(n, s, j)
  BY <1>4, Zenon DEF Shown, Without1
<1> QED BY <1>5 DEF k, e, s

\* As a call finds the list and the pool.
LEMMA HereFine ==
    ASSUME LInv, NEW n, NEW c, InRow(n, c)
    PROVE  /\ Fine(first, Pool, n, c, Table)
           /\ ready => Fine(first, mem, n, c, memmap)
           /\ ready => Table = memmap /\ Pool = mem
           /\ ~ready => n = 0 /\ first = NULL
           /\ \A b \in Clients0(raw) : Pool[b] = mem[b]
<1>1. Agree(Table, raw) /\ Clean(Table, Pool) /\ Pool \in [Block -> Cell]
  BY SetUp DEF LInv
<1>2. Linked(first, Pool, n, c) /\ Shared(n, c, Table, raw)
  BY SetUpRow
<1>3. ready => Table = memmap /\ Pool = mem
  BY DEF Table, Pool
<1>4. ready \in BOOLEAN /\ (~ready => first = NULL /\ DOMAIN raw = {})
  BY DEF LInv, MInv
<1>5. ~ready => n = 0
  BY <1>4, FirstNode
<1>6. ~ready => Clients0(raw) = {}
  BY <1>4 DEF Clients0
<1> QED BY <1>1, <1>2, <1>3, <1>4, <1>5, <1>6 DEF Fine

\* As it leaves them: the clients see nothing of it.
LEMMA LeftFine ==
    ASSUME LInv, ready' = TRUE, raw' = raw, lost' \in BOOLEAN,
           NEW n, NEW c, Fine(first', mem', n, c, memmap'),
           \A b \in Clients0(raw) : mem'[b] = mem[b]
    PROVE  LInv' /\ live' = live /\ Items' = Shown(mem', n, c)
<1>1. MInv'
  BY DEF Fine, MInv
<1>2. \E k, e : InRow(k, e)'
  BY DEF Fine, InRow
<1>3. LInv'
  BY <1>1, <1>2 DEF LInv
<1>4. ASSUME NEW p \in DOMAIN raw PROVE Contents(raw, mem')[p] = Contents(raw, mem)[p]
  <2>1. \A b \in Span(p, raw[p]) : mem'[b] = mem[b]
    BY DEF Clients0
  <2>2. raw[p] \in Nat /\ p \in Int
    BY FirstIn, Numbers DEF LInv, MInv, Agree, Block
  <2> QED BY <2>1, <2>2, SameContents
<1>5. Contents(raw, mem') = Contents(raw, mem)
  BY <1>4 DEF Contents
<1>6. Items' = Shown(mem', n, c)
  BY ItemsThere DEF Fine
<1> QED BY <1>3, <1>5, <1>6 DEF live

\* A call that stays out changes nothing else.
LEMMA AstrayFine == ASSUME LInv, Astray PROVE LInv' /\ live' = live /\ Items' = Items /\ lost'
<1>1. LInv' /\ live' = live /\ lost' /\ first' = first /\ mem' = mem
  BY DEF Astray, poolVars, LInv, MInv, InRow, live
<1>2. PICK n, c : InRow(n, c)
  BY DEF LInv
<1>3. Items = Shown(mem, n, c)
  BY <1>2, ItemsHere
<1>4. Items' = Shown(mem', n, c)
  BY <1>1, <1>2, ItemsThere DEF InRow
<1> QED BY <1>1, <1>3, <1>4

LEMMA LinkFine ==
    ASSUME LInv, NEW i \in 0 .. Count, NEW d \in Data, Link(i, d)
    PROVE  LInv' /\ live' = live /\ AsListing!Add(i + 1, d)
<1>0. PICK n, c : InRow(n, c)
  BY DEF LInv
<1>1. Nodes = c /\ Count = n /\ n \in Nat
  BY <1>0, NodesHere
<1>2. CASE ~Room(1)
  BY <1>2, AstrayFine DEF Link, AsListing!Add
<1>3. CASE Room(1)
  <2>1. PICK o \in Block : /\ Found(o, 1) /\ memmap' = Marked(Table, o, 1, 1)
                           /\ first' = IF i = 0 THEN o ELSE first
                           /\ mem' = Put(Pool, n, c, i, o, d)
                           /\ ready' = TRUE /\ raw' = raw /\ lost' = lost
    BY <1>1, <1>3 DEF Link, Put
  <2>2. Table[o] = 0
    <3>1. o \in Span(o, 1)
      BY Numbers DEF Span, Block
    <3> QED BY <2>1, <3>1 DEF Found, Fits
  <2>3. Fine(first, Pool, n, c, Table) /\ \A b \in Clients0(raw) : Pool[b] = mem[b]
    BY <1>0, HereFine
  <2>4. /\ Fine(first', mem', n + 1, With1(n, c, i, o), memmap')
        /\ \A b \in Clients0(raw) : mem'[b] = Pool[b]
    <3>1. i \in 0 .. n
      BY <1>1
    <3>2. /\ Fine(IF i = 0 THEN o ELSE first, Put(Pool, n, c, i, o, d), n + 1, With1(n, c, i, o),
                  Marked(Table, o, 1, 1))
          /\ \A b \in Clients0(raw) : Put(Pool, n, c, i, o, d)[b] = Pool[b]
      BY <2>2, <2>3, <3>1, NodeMore
    <3> QED BY <2>1, <3>2, Zenon
  <2>5. lost' \in BOOLEAN
    BY <2>1 DEF LInv
  <2>6. LInv' /\ live' = live /\ Items' = Shown(mem', n + 1, With1(n, c, i, o))
    BY <2>1, <2>3, <2>4, <2>5, LeftFine
  <2> DEFINE s == Shown(Pool, n, c)
  <2>7. s = Items
    <3>1. \A t \in 1 .. n : Pool[c[t]] = mem[c[t]]
      BY <1>0, SetUpRow DEF On
    <3> QED BY <1>0, <3>1, ItemsHere DEF Shown
  <2>8. i \in 0 .. n /\ s \in [1 .. n -> Data \cup {NULL}] /\ n \in Nat /\ d \in Data \cup {NULL}
    BY <1>1, <2>3, RowValues
  <2>9. Items' = With1(n, s, i, d)
    BY <2>1, <2>2, <2>3, <2>6, <2>8, MoreValues
  <2> HIDE DEF s
  <2>10. Items' = AsListing!InsertAt(Items, i + 1, d)
    <3>1. SubSeq(s, 1, (i + 1) - 1) \o <<d>> \o SubSeq(s, i + 1, Len(s)) = With1(n, s, i, d)
      BY <2>8, InsertedAt, Zenon
    <3> QED BY <2>7, <2>9, <3>1, Zenon DEF AsListing!InsertAt
  <2> QED BY <1>3, <2>1, <2>6, <2>10 DEF AsListing!Add, AsListing!Becomes
<1> QED BY <1>2, <1>3

LEMMA UnlinkFine ==
    ASSUME LInv, ready, NEW i \in 1 .. Count, Unlink(i)
    PROVE  LInv' /\ live' = live /\ AsListing!Drop(i)
<1>0. PICK n, c : InRow(n, c)
  BY DEF LInv
<1>1. Nodes = c /\ Count = n /\ i \in 1 .. n
  BY <1>0, NodesHere
<1>2. memmap[c[i]] = 1
  BY <1>0, <1>1 DEF InRow, Shared, On
<1>3. /\ first' = IF i = 1 THEN mem[c[1]].Next ELSE first
      /\ mem' = Taken(mem, c, i) /\ memmap' = Marked(memmap, c[i], 1, 0)
      /\ ready' = ready /\ raw' = raw /\ lost' = lost
  BY <1>1, <1>2 DEF Unlink, Taken
<1>4. Fine(first, mem, n, c, memmap)
  BY <1>0, HereFine
<1>5. /\ Fine(first', mem', n - 1, Without1(n, c, i), memmap')
      /\ \A b \in Clients0(raw) : mem'[b] = mem[b]
  <2>1. /\ Fine(IF i = 1 THEN mem[c[1]].Next ELSE first, Taken(mem, c, i), n - 1, Without1(n, c, i),
                Marked(memmap, c[i], 1, 0))
        /\ \A b \in Clients0(raw) : Taken(mem, c, i)[b] = mem[b]
    BY <1>1, <1>4, NodeLess
  <2> QED BY <1>3, <2>1, Zenon
<1>6. ready' = TRUE /\ lost' \in BOOLEAN
  BY <1>3 DEF LInv, MInv
<1>7. LInv' /\ live' = live /\ Items' = Shown(mem', n - 1, Without1(n, c, i))
  BY <1>3, <1>5, <1>6, LeftFine
<1>8. Items = Shown(mem, n, c) /\ Items \in [1 .. n -> Data \cup {NULL}] /\ n \in Nat
  BY <1>0, <1>4, ItemsHere, RowValues
<1>9. Items' = Without1(n, Items, i)
  BY <1>1, <1>3, <1>4, <1>7, <1>8, LessValues
<1>10. Items' = AsListing!RemoveAt(Items, i)
  BY <1>1, <1>8, <1>9, RemovedAt DEF AsListing!RemoveAt
<1>11. Len(Items) = n
  BY <1>8
<1>12. i \in 1 .. Len(Items)
  BY <1>1, <1>8, <1>11
<1> QED BY <1>3, <1>7, <1>10, <1>12 DEF AsListing!Drop, AsListing!Becomes

\* There is a pool when there is a node.
LEMMA NodesReady ==
    ASSUME LInv
    PROVE  /\ Count \in Nat /\ (first = NULL <=> Count = 0) /\ (Count # 0 => ready)
           /\ Len(Items) = Count
<1>0. PICK n, c : InRow(n, c)
  BY DEF LInv
<1>1. Count \in Nat /\ (first = NULL <=> Count = 0) /\ (Count # 0 => ready)
  BY <1>0, NodesHere, FirstNode DEF LInv
<1>2. Items \in Seq({mem[Nodes[i]].data : i \in 1 .. Count}) /\ DOMAIN Items = 1 .. Count
  BY <1>1 DEF Items
<1>3. Len(Items) = Count
  BY <1>1, <1>2
<1> QED BY <1>1, <1>3

\* What the calls mean to the list's user.
LEMMA AddsFine ==
    ASSUME LInv, NEW d \in Data
    PROVE  /\ PushBack(d)  => LInv' /\ live' = live /\ AsListing!PushBack(d)
           /\ PushFront(d) => LInv' /\ live' = live /\ AsListing!PushFront(d)
           /\ \A pos \in 0 .. N :
                 Insert(pos, d) => LInv' /\ live' = live /\ AsListing!Insert(pos, d)
<1>1. Count \in Nat /\ Len(Items) = Count
  BY NodesReady
<1>2. ASSUME PushBack(d) PROVE LInv' /\ live' = live /\ AsListing!PushBack(d)
  <2>1. Count \in 0 .. Count /\ Link(Count, d)
    BY <1>1, <1>2 DEF PushBack
  <2> QED BY <1>1, <2>1, LinkFine DEF AsListing!PushBack
<1>3. ASSUME PushFront(d) PROVE LInv' /\ live' = live /\ AsListing!PushFront(d)
  <2>1. 0 \in 0 .. Count /\ 0 + 1 = 1 /\ Link(0, d)
    BY <1>1, <1>3 DEF PushFront
  <2>2. LInv' /\ live' = live /\ AsListing!Add(0 + 1, d)
    BY <2>1, LinkFine
  <2> QED BY <2>1, <2>2 DEF AsListing!PushFront
<1>4. ASSUME NEW pos \in 0 .. N, Insert(pos, d)
      PROVE  LInv' /\ live' = live /\ AsListing!Insert(pos, d)
  <2>1. pos \in 0 .. Count /\ pos <= Len(Items) /\ Link(pos, d)
    BY <1>1, <1>4, Numbers DEF Insert
  <2> QED BY <2>1, LinkFine DEF AsListing!Insert
<1> QED BY <1>2, <1>3, <1>4

LEMMA PopsFine ==
    ASSUME LInv
    PROVE  /\ PopBack  => LInv' /\ live' = live /\ AsListing!PopBack
           /\ PopFront => LInv' /\ live' = live /\ AsListing!PopFront
<1>1. Count \in Nat /\ Len(Items) = Count /\ (first = NULL <=> Count = 0)
  BY NodesReady
<1>2. CASE first = NULL
  <2>1. Count \notin 1 .. Len(Items) /\ 1 \notin 1 .. Len(Items)
    BY <1>1, <1>2
  <2>2. PopBack \/ PopFront => LInv' /\ live' = live /\ Items' = Items /\ lost'
    BY <1>2, AstrayFine DEF PopBack, PopFront
  <2> QED BY <1>1, <2>1, <2>2 DEF AsListing!PopBack, AsListing!PopFront, AsListing!Drop
<1>3. CASE first # NULL
  <2>1. ready /\ 1 \in 1 .. Count /\ Count \in 1 .. Count
    BY <1>1, <1>3, NodesReady
  <2>2. PopBack => LInv' /\ live' = live /\ AsListing!Drop(Count)
    BY <1>3, <2>1, UnlinkFine DEF PopBack
  <2>3. PopFront => LInv' /\ live' = live /\ AsListing!Drop(1)
    BY <1>3, <2>1, UnlinkFine DEF PopFront
  <2> QED BY <1>1, <2>2, <2>3 DEF AsListing!PopBack, AsListing!PopFront
<1> QED BY <1>2, <1>3

LEMMA EraseFine ==
    ASSUME LInv, NEW pos \in 0 .. N, Erase(pos)
    PROVE  LInv' /\ live' = live /\ AsListing!Erase(pos)
<1>1. Count \in Nat /\ Len(Items) = Count /\ N \in Nat /\ pos <= Count
  BY NodesReady, Numbers DEF Erase
<1>2. CASE pos = Count
  <2>1. pos + 1 \notin 1 .. Len(Items)
    BY <1>1, <1>2
  <2>2. LInv' /\ live' = live /\ Items' = Items /\ lost'
    BY <1>2, AstrayFine DEF Erase
  <2> QED BY <1>1, <2>1, <2>2 DEF AsListing!Erase, AsListing!Drop
<1>3. CASE pos # Count
  <2>1. ready /\ pos + 1 \in 1 .. Count
    BY <1>1, <1>3, NodesReady
  <2>2. LInv' /\ live' = live /\ AsListing!Drop(pos + 1)
    BY <1>3, <2>1, UnlinkFine DEF Erase
  <2> QED BY <1>1, <2>2 DEF AsListing!Erase
<1> QED BY <1>2, <1>3

LEMMA RemoveFine ==
    ASSUME LInv, NEW d, Remove(d) PROVE LInv' /\ live' = live /\ AsListing!RemoveOne(d)
<1>1. Count \in Nat /\ Len(Items) = Count
  BY NodesReady
<1>2. PICK i \in 1 .. Count : /\ mem[Nodes[i]].data = d /\ Unlink(i)
                              /\ \A k \in 1 .. i - 1 : mem[Nodes[k]].data # d
  BY DEF Remove
<1>3. \A k \in 1 .. Count : Items[k] = mem[Nodes[k]].data
  BY DEF Items
<1>4. Items[i] = d /\ \A k \in 1 .. i - 1 : Items[k] # d
  <2>1. \A k \in 1 .. i - 1 : k \in 1 .. Count
    BY <1>1
  <2> QED BY <1>2, <1>3, <2>1
<1>5. LInv' /\ live' = live /\ AsListing!Drop(i)
  <2>1. ready
    BY <1>1, NodesReady
  <2> QED BY <1>2, <2>1, UnlinkFine
<1> QED BY <1>1, <1>4, <1>5 DEF AsListing!RemoveOne

LEMMA DestroyFine ==
    ASSUME LInv, Destroy PROVE LInv' /\ live' = live /\ AsListing!Destroy
<1>0. PICK n, c : InRow(n, c)
  BY DEF LInv
<1>1. /\ mem' = [b \in Block |-> IF b \in On(n, c) THEN Zero ELSE mem[b]]
      /\ memmap' = [b \in Block |-> IF b \in On(n, c) THEN 0 ELSE memmap[b]]
      /\ first' = NULL /\ ready' = ready /\ raw' = raw /\ lost' = lost
  BY <1>0, NodesHere DEF Destroy, On
<1>2. CASE ~ready
  <2>1. On(n, c) = {} /\ first = NULL
    BY <1>0, <1>2, HereFine DEF On
  <2>2. mem \in [Block -> Cell] /\ memmap \in [Block -> 0 .. N]
    BY DEF LInv, MInv, Agree
  <2>3. mem' = mem /\ memmap' = memmap /\ first' = first
    BY <1>1, <2>1, <2>2
  <2>4. Items' = Shown(mem', n, c) /\ n = 0
    BY <1>0, <1>2, <2>3, HereFine, ItemsThere DEF InRow
  <2>5. Items' = <<>>
    BY <2>4 DEF Shown
  <2> QED BY <1>1, <2>3, <2>5
          DEF LInv, MInv, InRow, live, AsListing!Destroy, AsListing!Becomes
<1>3. CASE ready
  <2>1. Fine(first, mem, n, c, memmap)
    BY <1>0, <1>3, HereFine
  <2>2. \A p \in DOMAIN raw : \A b \in Span(p, raw[p]) : b \in Block /\ b \notin On(n, c)
    BY <2>1 DEF Fine, Shared, Agree, Held
  <2>3. \A b \in Clients0(raw) : mem'[b] = mem[b]
    BY <1>1, <2>2 DEF Clients0
  <2>4. mem' \in [Block -> Cell] /\ memmap' \in [Block -> 0 .. N]
    BY <1>1, <2>1, PoolAssumption DEF Fine, Agree
  <2>5. Agree(memmap', raw)
    BY <1>1, <2>1, <2>2, <2>4, SameMarks DEF Fine
  <2>6. Clean(memmap', mem')
    BY <1>1, <2>1 DEF Fine, Clean
  <2>7. On(0, <<>>) = {} /\ Linked(NULL, mem', 0, <<>>)
    BY DEF On, Linked
  <2>8. Shared(0, <<>>, memmap', raw)
    BY <1>1, <2>1, <2>7 DEF Fine, Shared
  <2>9. Fine(first', mem', 0, <<>>, memmap')
    BY <1>1, <2>4, <2>5, <2>6, <2>7, <2>8 DEF Fine
  <2>10. ready' = TRUE /\ lost' \in BOOLEAN
    BY <1>1, <1>3 DEF LInv, MInv
  <2>11. LInv' /\ live' = live /\ Items' = Shown(mem', 0, <<>>)
    BY <1>1, <2>3, <2>9, <2>10, LeftFine
  <2>12. Items' = <<>>
    BY <2>11 DEF Shown
  <2> QED BY <1>1, <2>11, <2>12 DEF AsListing!Destroy, AsListing!Becomes
<1>4. ready \in BOOLEAN
  BY DEF LInv, MInv
<1> QED BY <1>2, <1>3, <1>4

-----------------------------------------------------------------------------
(* clist_remove_all, turn by turn.                                             *)

\* The turns from s on, and that there are such turns.
Turns(s, d) == LET w[k \in 0 .. N] == IF k = 0 THEN s ELSE Look(w[k - 1], d) IN w
Turn(s, d, K, h) == [k \in 0 .. K |-> IF k = 0 THEN s ELSE Look(h[k - 1], d)]

LEMMA SomeTurns ==
    ASSUME NEW s, NEW d, NEW K \in Nat PROVE \E h : h = Turn(s, d, K, h)
<1> DEFINE T == {k \in Nat : \E h : h = Turn(s, d, k, h)}
<1>1. 0 \in T
  <2>1. \A k \in 0 .. 0 : k = 0
    OBVIOUS
  <2>2. [k \in 0 .. 0 |-> s] = Turn(s, d, 0, [k \in 0 .. 0 |-> s])
    BY <2>1, Zenon DEF Turn
  <2> QED BY <2>2
<1>2. ASSUME NEW k \in Nat, k \in T PROVE k + 1 \in T
  <2>1. PICK h : h = Turn(s, d, k, h)
    BY <1>2
  <2> DEFINE g == [i \in 0 .. k + 1 |-> IF i = k + 1 THEN Look(h[k], d) ELSE h[i]]
  <2>2. \A i \in 0 .. k : h[i] = IF i = 0 THEN s ELSE Look(h[i - 1], d)
    <3>1. \A i \in 0 .. k : h[i] = Turn(s, d, k, h)[i]
      BY <2>1, Zenon
    <3> QED BY <3>1 DEF Turn
  <2>3. ASSUME NEW i \in 0 .. k + 1 PROVE g[i] = IF i = 0 THEN s ELSE Look(g[i - 1], d)
    <3>1. CASE i = 0
      <4>1. 0 \in 0 .. k /\ 0 # k + 1
        OBVIOUS
      <4> QED BY <2>2, <3>1, <4>1
    <3>2. CASE i = k + 1
      <4>1. i - 1 = k /\ k \in 0 .. k + 1 /\ k # k + 1 /\ i # 0
        BY <3>2
      <4> QED BY <3>2, <4>1
    <3>3. CASE i # 0 /\ i # k + 1
      <4>1. i \in 0 .. k /\ i - 1 \in 0 .. k + 1 /\ i - 1 # k + 1
        BY <3>3
      <4> QED BY <2>2, <3>3, <4>1
    <3> QED BY <3>1, <3>2, <3>3
  <2>4. g = [i \in 0 .. k + 1 |-> g[i]]
    OBVIOUS
  <2> HIDE DEF g
  <2>5. g = Turn(s, d, k + 1, g)
    BY <2>3, <2>4, Zenon DEF Turn
  <2> QED BY <2>5
<1>3. Nat \subseteq T
  <2> HIDE DEF T
  <2> QED BY <1>1, <1>2, Induction
<1> QED BY <1>3

LEMMA TurnsAre ==
    ASSUME NEW s, NEW d
    PROVE  /\ Turns(s, d)[0] = s
           /\ \A k \in 0 .. N - 1 : Turns(s, d)[k + 1] = Look(Turns(s, d)[k], d)
<1> DEFINE w == Turns(s, d)
<1>1. PICK h : h = Turn(s, d, N, h)
  BY SomeTurns, Numbers
<1>2. w = Turn(s, d, N, w)
  BY <1>1, Zenon DEF Turns, Turn
<1> HIDE DEF w
<1>3. \A k \in 0 .. N : w[k] = IF k = 0 THEN s ELSE Look(w[k - 1], d)
  <2>1. \A k \in 0 .. N : w[k] = Turn(s, d, N, w)[k]
    BY <1>2, Zenon
  <2> QED BY <2>1 DEF Turn
<1>4. 0 \in 0 .. N /\ \A k \in 0 .. N - 1 : k + 1 \in 0 .. N /\ k + 1 # 0 /\ (k + 1) - 1 = k
  BY Numbers
<1>5. w[0] = s
  BY <1>3, <1>4
<1>6. \A k \in 0 .. N - 1 : w[k + 1] = Look(w[k], d)
  <2> SUFFICES ASSUME NEW k \in 0 .. N - 1 PROVE w[k + 1] = Look(w[k], d)
    OBVIOUS
  <2> QED BY <1>3, <1>4
<1> QED BY <1>5, <1>6 DEF w

\* Between two turns: the list is in order, the walk is at its j-th node, or at its
\* end, and has the node before that one behind it.
States == [first : Block \cup {NULL}, p : Block \cup {NULL}, prev : Block \cup {NULL},
           map : [Block -> 0 .. N], mem : [Block -> Cell], astray : BOOLEAN]

Between(w, n, c, j) ==
    /\ w \in States /\ Fine(w.first, w.mem, n, c, w.map)
    /\ j \in 1 .. n + 1 /\ w.p = (IF j = n + 1 THEN NULL ELSE c[j])
    /\ (1 < j /\ j <= n) => w.prev = c[j - 1]
    /\ \A b \in Clients0(raw) : w.mem[b] = mem[b]

\* The node after the j-th.
LEMMA NextOf ==
    ASSUME NEW f, NEW m, NEW n, NEW c, NEW map, Fine(f, m, n, c, map), NEW j \in 1 .. n
    PROVE  /\ m[c[j]].Next = IF j = n THEN NULL ELSE c[j + 1]
           /\ n \in Nat /\ c[j] \in Block /\ f = c[1] /\ map[c[j]] = 1
           /\ j # n => j + 1 \in 1 .. n /\ c[j + 1] \in Block /\ c[j + 1] # NULL
           /\ m[c[j]].Next \in Block \cup {NULL}
           /\ \A i \in 1 .. n : c[i] = c[j] => i = j
<1>1. n \in Nat /\ c \in [1 .. n -> Block] /\ NULL \notin Block
  BY Numbers DEF Fine, Linked
<1>2. j # n => j + 1 \in 1 .. n
  BY <1>1
<1>3. m[c[j]].Next = (IF j = n THEN NULL ELSE c[j + 1]) /\ \A i \in 1 .. n : c[i] = c[j] => i = j
  BY DEF Fine, Linked
<1>4. f = c[1]
  BY <1>1 DEF Fine, Linked
<1>5. map[c[j]] = 1
  BY DEF Fine, Shared, On
<1> QED BY <1>1, <1>2, <1>3, <1>4, <1>5

\* The blocks of the row without its j-th.
LEMMA WithoutAt ==
    ASSUME NEW n \in Nat, NEW c, NEW j \in 1 .. n
    PROVE  /\ \A i \in 1 .. n - 1 : Without1(n, c, j)[i] = IF i < j THEN c[i] ELSE c[i + 1]
           /\ j # n => j \in 1 .. n - 1
           /\ j > 1 => j - 1 \in 1 .. n - 1
BY DEF Without1

LEMMA LooksOn ==
    ASSUME NEW w, NEW n, NEW c, NEW j \in 1 .. n, Between(w, n, c, j)
    PROVE  LET v == [w EXCEPT !.prev = w.p, !.p = w.mem[w.p].Next]
           IN  Between(v, n, c, j + 1) /\ v.mem = w.mem /\ v.astray = w.astray
<1> DEFINE v == [w EXCEPT !.prev = w.p, !.p = w.mem[w.p].Next]
<1>1. Fine(w.first, w.mem, n, c, w.map) /\ w.p = (IF j = n + 1 THEN NULL ELSE c[j]) /\ w \in States
  BY DEF Between
<1>2. /\ w.mem[c[j]].Next = (IF j = n THEN NULL ELSE c[j + 1])
      /\ w.mem[c[j]].Next \in Block \cup {NULL} /\ n \in Nat /\ c[j] \in Block
  BY <1>1, NextOf
<1>3. w.p = c[j]
  BY <1>1, <1>2
<1>4. /\ v \in States /\ v.first = w.first /\ v.mem = w.mem /\ v.map = w.map
      /\ v.p = w.mem[c[j]].Next /\ v.prev = c[j] /\ v.astray = w.astray
  BY <1>1, <1>2, <1>3 DEF States
<1> HIDE DEF v
<1>5. /\ j + 1 \in 1 .. n + 1 /\ (j + 1 = n + 1 <=> j = n) /\ (j + 1) - 1 = j
  BY <1>2
<1>6. \A b \in Clients0(raw) : v.mem[b] = mem[b]
  BY <1>4 DEF Between
<1>7. Fine(v.first, v.mem, n, c, v.map)
  BY <1>1, <1>4
<1>8. v.p = (IF j + 1 = n + 1 THEN NULL ELSE c[j + 1]) /\ v.prev = c[(j + 1) - 1]
  BY <1>2, <1>4, <1>5
<1>9. Between(v, n, c, j + 1)
  BY <1>4, <1>5, <1>6, <1>7, <1>8, Zenon DEF Between
<1> QED BY <1>4, <1>9 DEF v

LEMMA DropsFirst ==
    ASSUME NEW w, NEW n, NEW c, Between(w, n, c, 1), 1 \in 1 .. n
    PROVE  LET v == DropFirst(w)
               e == Without1(n, c, 1)
           IN  /\ Between(v, n - 1, e, IF n = 1 THEN 1 ELSE 2) /\ v.astray = (n = 1)
               /\ Shown(v.mem, n - 1, e) = Without1(n, Shown(w.mem, n, c), 1)
<1>1. Fine(w.first, w.mem, n, c, w.map)
  BY DEF Between
<1>2. n \in Nat /\ w.first = c[1]
  BY <1>1, NextOf
<1>3. w.p = c[1] /\ w.first = c[1] /\ 1 \in 1 .. n
  BY <1>2 DEF Between
<1> DEFINE v == DropFirst(w)
           f == w.mem[c[1]].Next
           e == Without1(n, c, 1)
<1>4. /\ f = (IF 1 = n THEN NULL ELSE c[2]) /\ f \in Block \cup {NULL} /\ n \in Nat
      /\ c[1] \in Block /\ w.map[c[1]] = 1
      /\ 1 # n => c[2] \in Block /\ c[2] # NULL
  BY <1>1, <1>3, NextOf
<1>5. /\ Fine(f, Taken(w.mem, c, 1), n - 1, e, Marked(w.map, c[1], 1, 0))
      /\ \A b \in Clients0(raw) : Taken(w.mem, c, 1)[b] = w.mem[b]
  <2>1. Fine(IF 1 = 1 THEN w.mem[c[1]].Next ELSE w.first, Taken(w.mem, c, 1), n - 1,
             Without1(n, c, 1), Marked(w.map, c[1], 1, 0))
        /\ \A b \in Clients0(raw) : Taken(w.mem, c, 1)[b] = w.mem[b]
    BY <1>1, <1>3, NodeLess
  <2> QED BY <2>1
<1>6. Taken(w.mem, c, 1) = Cleared(w.mem, c[1], 1)
  <2>1. w.mem = [b \in Block |-> w.mem[b]]
    BY <1>1 DEF Fine
  <2>2. [b \in Block |-> IF 1 > 1 /\ b = c[1 - 1] THEN [w.mem[b] EXCEPT !.Next = w.mem[c[1]].Next]
                         ELSE w.mem[b]] = [b \in Block |-> w.mem[b]]
    OBVIOUS
  <2> QED BY <2>1, <2>2, Zenon DEF Taken
<1>7. 1 # n => w.mem[c[2]].Next = (IF 2 = n THEN NULL ELSE c[3]) /\ w.mem[c[2]].Next \in Block \cup {NULL}
  <2> SUFFICES ASSUME 1 # n
               PROVE  w.mem[c[2]].Next = (IF 2 = n THEN NULL ELSE c[3]) /\ w.mem[c[2]].Next \in Block \cup {NULL}
    OBVIOUS
  <2>1. 2 \in 1 .. n /\ 2 + 1 = 3
    BY <1>3, <1>4
  <2>2. w.mem[c[2]].Next = (IF 2 = n THEN NULL ELSE c[2 + 1]) /\ w.mem[c[2]].Next \in Block \cup {NULL}
    BY <1>1, <2>1, NextOf
  <2> QED BY <2>1, <2>2
<1>8. w \in States
  BY DEF Between
<1>9. /\ v.first = f /\ v.prev = f /\ v.p = IF f = NULL THEN NULL ELSE w.mem[f].Next
      /\ v.map = Marked(w.map, c[1], 1, 0) /\ v.mem = Taken(w.mem, c, 1)
      /\ v.astray = (f = NULL)
      /\ DOMAIN v = DOMAIN w
  BY <1>3, <1>4, <1>6, <1>8 DEF DropFirst, States
<1>10. v = [w EXCEPT !.first = v.first, !.prev = v.prev, !.p = v.p, !.astray = v.astray,
                     !.map = v.map, !.mem = v.mem]
  BY <1>8 DEF DropFirst, States
<1> HIDE DEF v, f
<1>11. v \in States
  <2>1. v.p \in Block \cup {NULL}
    BY <1>4, <1>7, <1>9
  <2>2. v.map \in [Block -> 0 .. N] /\ v.mem \in [Block -> Cell] /\ v.astray \in BOOLEAN
    BY <1>5, <1>9 DEF Fine, Agree
  <2>3. v.first \in Block \cup {NULL} /\ v.prev \in Block \cup {NULL}
    BY <1>4, <1>9
  <2>4. [w EXCEPT !.first = v.first, !.prev = v.prev, !.p = v.p, !.astray = v.astray,
                 !.map = v.map, !.mem = v.mem] \in States
    BY <1>8, <2>1, <2>2, <2>3 DEF States
  <2> QED BY <1>10, <2>4, Zenon
<1>13. \A b \in Clients0(raw) : v.mem[b] = mem[b]
  BY <1>5, <1>9 DEF Between
<1>14. Fine(v.first, v.mem, n - 1, e, v.map)
  BY <1>5, <1>9
<1>15. Shown(v.mem, n - 1, e) = Without1(n, Shown(w.mem, n, c), 1)
  BY <1>1, <1>3, <1>9, LessValues
<1>12. CASE 1 = n
  <2>0. 1 = (n - 1) + 1 /\ 1 \in 1 .. (n - 1) + 1
    BY <1>4, <1>12
  <2>1. v.p = NULL /\ v.astray = TRUE
    <3>1. f = NULL
      BY <1>4, <1>12
    <3> QED BY <1>9, <3>1
  <2>2. v.p = (IF 1 = (n - 1) + 1 THEN NULL ELSE e[1]) /\ ~(1 < 1)
    BY <2>0, <2>1
  <2>3. Between(v, n - 1, e, 1)
    BY <1>11, <1>13, <1>14, <2>0, <2>2, Zenon DEF Between
  <2> QED BY <1>12, <1>15, <2>1, <2>3 DEF v
<1>16. CASE 1 # n
  <2>0. f = c[2] /\ f # NULL /\ v.astray = FALSE /\ v.p = IF 2 = n THEN NULL ELSE c[3]
    BY <1>4, <1>7, <1>9, <1>16
  <2>1. /\ 1 \in 1 .. n - 1 /\ ~(1 < 1) /\ 1 + 1 = 2 /\ 2 \in 1 .. (n - 1) + 1 /\ 2 - 1 = 1
        /\ (2 = (n - 1) + 1 <=> 2 = n)
    BY <1>4, <1>16
  <2>2. e[1] = c[2]
    BY <1>4, <1>3, <2>1, WithoutAt
  <2>3. 2 # n => e[2] = c[3]
    <3>1. 2 # n => 2 \in 1 .. n - 1 /\ ~(2 < 1) /\ 2 + 1 = 3
      BY <1>4, <1>16
    <3> QED BY <1>4, <1>3, <3>1, WithoutAt
  <2> HIDE DEF e
  <2>4. v.p = (IF 2 = (n - 1) + 1 THEN NULL ELSE e[2]) /\ v.prev = e[2 - 1]
    BY <1>9, <2>0, <2>1, <2>2, <2>3
  <2>5. Between(v, n - 1, e, 2)
    BY <1>11, <1>13, <1>14, <2>1, <2>4, Zenon DEF Between
  <2> QED BY <1>15, <1>16, <2>0, <2>5 DEF v, e
<1> QED BY <1>12, <1>16

LEMMA DropsInner ==
    ASSUME NEW w, NEW n, NEW c, NEW j \in 1 .. n, j # 1, Between(w, n, c, j)
    PROVE  LET v == DropInner(w)
               e == Without1(n, c, j)
           IN  /\ Between(v, n - 1, e, j) /\ v.astray = w.astray
               /\ Shown(v.mem, n - 1, e) = Without1(n, Shown(w.mem, n, c), j)
<1>1. Fine(w.first, w.mem, n, c, w.map)
  BY DEF Between
<1>2. w.p = c[j] /\ (j > 1 => w.prev = c[j - 1])
  <2>1. n \in Nat
    BY <1>1, NextOf
  <2>2. j # n + 1 /\ j <= n /\ (j > 1 => 1 < j)
    BY <2>1
  <2> QED BY <2>2 DEF Between
<1> DEFINE v == DropInner(w)
           f == w.mem[c[j]].Next
           e == Without1(n, c, j)
<1>3. /\ f = (IF j = n THEN NULL ELSE c[j + 1]) /\ f \in Block \cup {NULL} /\ n \in Nat
      /\ c[j] \in Block /\ w.map[c[j]] = 1 /\ w.first = c[1]
  BY <1>1, NextOf
<1>4. j > 1 /\ j # 1 /\ w.prev = c[j - 1] /\ j - 1 \in 1 .. n
  BY <1>2, <1>3
<1>5. c[j - 1] \in Block
  BY <1>1, <1>4, NextOf
<1>6. /\ Fine(w.first, Taken(w.mem, c, j), n - 1, e, Marked(w.map, c[j], 1, 0))
      /\ \A b \in Clients0(raw) : Taken(w.mem, c, j)[b] = w.mem[b]
  <2>1. /\ Fine(IF j = 1 THEN w.mem[c[1]].Next ELSE w.first, Taken(w.mem, c, j), n - 1,
                Without1(n, c, j), Marked(w.map, c[j], 1, 0))
        /\ \A b \in Clients0(raw) : Taken(w.mem, c, j)[b] = w.mem[b]
    BY <1>1, NodeLess
  <2> QED BY <1>4, <2>1
<1>7. Taken(w.mem, c, j) = Cleared([w.mem EXCEPT ![c[j - 1]].Next = f], c[j], 1)
  <2>1. w.mem \in [Block -> Cell]
    BY <1>1 DEF Fine
  <2>2. [b \in Block |-> IF j > 1 /\ b = c[j - 1] THEN [w.mem[b] EXCEPT !.Next = w.mem[c[j]].Next]
                         ELSE w.mem[b]] = [w.mem EXCEPT ![c[j - 1]].Next = f]
    BY <1>4, <1>5, <2>1
  <2> QED BY <2>2, Zenon DEF Taken
<1>8. w \in States
  BY DEF Between
<1>9. /\ v.first = w.first /\ v.prev = w.prev /\ v.p = f /\ v.astray = w.astray
      /\ v.map = Marked(w.map, c[j], 1, 0)
      /\ v.mem = Cleared([w.mem EXCEPT ![c[j - 1]].Next = f], c[j], 1)
  BY <1>2, <1>3, <1>4, <1>8 DEF DropInner, States
<1>10. v = [w EXCEPT !.first = v.first, !.prev = v.prev, !.p = v.p, !.astray = v.astray,
                     !.map = v.map, !.mem = v.mem]
  BY <1>8 DEF DropInner, States
<1> HIDE DEF v, f
<1>11. v \in States
  <2>1. v.map \in [Block -> 0 .. N] /\ v.mem \in [Block -> Cell]
    BY <1>6, <1>7, <1>9 DEF Fine, Agree
  <2>2. /\ v.first \in Block \cup {NULL} /\ v.prev \in Block \cup {NULL}
        /\ v.p \in Block \cup {NULL} /\ v.astray \in BOOLEAN
    BY <1>3, <1>8, <1>9 DEF States
  <2>3. [w EXCEPT !.first = v.first, !.prev = v.prev, !.p = v.p, !.astray = v.astray,
                 !.map = v.map, !.mem = v.mem] \in States
    BY <1>8, <2>1, <2>2 DEF States
  <2> QED BY <1>10, <2>3, Zenon
<1>13. \A b \in Clients0(raw) : v.mem[b] = mem[b]
  BY <1>6, <1>7, <1>9 DEF Between
<1>14. Fine(v.first, v.mem, n - 1, e, v.map)
  BY <1>6, <1>7, <1>9
<1>15. Shown(v.mem, n - 1, e) = Without1(n, Shown(w.mem, n, c), j)
  BY <1>1, <1>7, <1>9, LessValues
<1>16. j \in 1 .. (n - 1) + 1 /\ (j = (n - 1) + 1 <=> j = n) /\ (j < n => j \in 1 .. n - 1)
  BY <1>3
<1>17. v.p = (IF j = (n - 1) + 1 THEN NULL ELSE e[j])
  <2>1. CASE j = n
    BY <1>3, <1>9, <1>16, <2>1
  <2>2. CASE j # n
    <3>1. j \in 1 .. n - 1 /\ ~(j < j)
      BY <1>3, <2>2
    <3>2. e[j] = c[j + 1]
      BY <1>3, <3>1, WithoutAt
    <3> HIDE DEF e
    <3> QED BY <1>3, <1>9, <1>16, <2>2, <3>2
  <2> QED BY <2>1, <2>2
<1>18. v.prev = e[j - 1]
  <2>1. j - 1 \in 1 .. n - 1 /\ j - 1 < j
    BY <1>3, <1>4
  <2>2. e[j - 1] = c[j - 1]
    BY <1>3, <2>1, WithoutAt
  <2> QED BY <1>4, <1>9, <2>2
<1> HIDE DEF e
<1>19. Between(v, n - 1, e, j)
  BY <1>11, <1>13, <1>14, <1>16, <1>17, <1>18, Zenon DEF Between
<1> QED BY <1>9, <1>15, <1>19 DEF v, e

\* The values that stay in the list, of the first i.
Stays(s, d, i) == s[i] # d \/ (i = 2 /\ s[1] = d)
KeptOf(s, stay) == LET kept[i \in 0 .. Len(s)] == IF i = 0 THEN <<>>
                                                 ELSE IF i \in stay THEN Append(kept[i - 1], s[i])
                                                 ELSE kept[i - 1]
                   IN  kept
Kept(s, d) == KeptOf(s, {i \in 1 .. Len(s) : Stays(s, d, i)})
Keeping(s, stay, K, h) == [i \in 0 .. K |-> IF i = 0 THEN <<>>
                                           ELSE IF i \in stay THEN Append(h[i - 1], s[i])
                                           ELSE h[i - 1]]

LEMMA SomeKept ==
    ASSUME NEW s, NEW stay, NEW K \in Nat PROVE \E h : h = Keeping(s, stay, K, h)
<1> DEFINE T == {k \in Nat : \E h : h = Keeping(s, stay, k, h)}
<1>1. 0 \in T
  <2>1. \A k \in 0 .. 0 : k = 0
    OBVIOUS
  <2>2. [k \in 0 .. 0 |-> <<>>] = Keeping(s, stay, 0, [k \in 0 .. 0 |-> <<>>])
    BY <2>1, Zenon DEF Keeping
  <2> QED BY <2>2
<1>2. ASSUME NEW k \in Nat, k \in T PROVE k + 1 \in T
  <2>1. PICK h : h = Keeping(s, stay, k, h)
    BY <1>2
  <2> DEFINE last == IF k + 1 \in stay THEN Append(h[k], s[k + 1]) ELSE h[k]
             g == [i \in 0 .. k + 1 |-> IF i = k + 1 THEN last ELSE h[i]]
  <2>2. \A i \in 0 .. k : h[i] = IF i = 0 THEN <<>>
                                 ELSE IF i \in stay THEN Append(h[i - 1], s[i]) ELSE h[i - 1]
    <3>1. \A i \in 0 .. k : h[i] = Keeping(s, stay, k, h)[i]
      BY <2>1, Zenon
    <3> QED BY <3>1 DEF Keeping
  <2>3. ASSUME NEW i \in 0 .. k + 1
        PROVE  g[i] = IF i = 0 THEN <<>>
                      ELSE IF i \in stay THEN Append(g[i - 1], s[i]) ELSE g[i - 1]
    <3> HIDE DEF last
    <3>1. CASE i = 0
      <4>1. 0 \in 0 .. k /\ 0 # k + 1
        OBVIOUS
      <4> QED BY <2>2, <3>1, <4>1
    <3>2. CASE i = k + 1
      <4>1. i - 1 = k /\ k \in 0 .. k + 1 /\ k # k + 1 /\ i # 0
        BY <3>2
      <4>2. g[i] = last /\ g[i - 1] = h[k]
        BY <3>2, <4>1
      <4> QED BY <3>2, <4>1, <4>2 DEF last
    <3>3. CASE i # 0 /\ i # k + 1
      <4>1. i \in 0 .. k /\ i - 1 \in 0 .. k + 1 /\ i - 1 # k + 1
        BY <3>3
      <4> QED BY <2>2, <3>3, <4>1
    <3> QED BY <3>1, <3>2, <3>3
  <2>4. g = [i \in 0 .. k + 1 |-> g[i]]
    OBVIOUS
  <2> HIDE DEF g
  <2>5. g = Keeping(s, stay, k + 1, g)
    BY <2>3, <2>4, Zenon DEF Keeping
  <2> QED BY <2>5
<1>3. Nat \subseteq T
  <2> HIDE DEF T
  <2> QED BY <1>1, <1>2, Induction
<1> QED BY <1>3

LEMMA KeptIs ==
    ASSUME NEW V, NEW s \in Seq(V), NEW d
    PROVE  /\ Kept(s, d)[0] = <<>>
           /\ \A i \in 1 .. Len(s) :
                 Kept(s, d)[i] = IF Stays(s, d, i) THEN Append(Kept(s, d)[i - 1], s[i])
                                 ELSE Kept(s, d)[i - 1]
           /\ \A i \in 0 .. Len(s) : Kept(s, d)[i] \in Seq(V)
<1> DEFINE w == Kept(s, d)
           L == Len(s)
           stay == {i \in 1 .. Len(s) : Stays(s, d, i)}
<1>0. L \in Nat /\ \A i \in 1 .. L : s[i] \in V
  OBVIOUS
<1> HIDE DEF L
<1>1. PICK h : h = Keeping(s, stay, L, h)
  BY <1>0, SomeKept
<1>2. w = Keeping(s, stay, L, w)
  BY <1>1, Zenon DEF Kept, KeptOf, Keeping, L
<1> HIDE DEF w, stay
<1>3. \A i \in 0 .. L : w[i] = IF i = 0 THEN <<>>
                               ELSE IF i \in stay THEN Append(w[i - 1], s[i]) ELSE w[i - 1]
  <2>1. \A i \in 0 .. L : w[i] = Keeping(s, stay, L, w)[i]
    BY <1>2, Zenon
  <2> QED BY <2>1 DEF Keeping
<1>4. w[0] = <<>>
  <2>1. 0 \in 0 .. L
    BY <1>0
  <2> QED BY <1>3, <2>1
<1>5. ASSUME NEW i \in 1 .. L
      PROVE  w[i] = IF Stays(s, d, i) THEN Append(w[i - 1], s[i]) ELSE w[i - 1]
  <2>1. i \in 0 .. L /\ i # 0
    BY <1>0
  <2>2. i \in stay <=> Stays(s, d, i)
    BY DEF stay, L
  <2> QED BY <1>3, <2>1, <2>2
<1> DEFINE T == {i \in Nat : w[i] \in Seq(V)}
<1>6. 0 \in T
  <2>1. <<>> \in Seq(V)
    OBVIOUS
  <2> QED BY <1>4, <2>1
<1>7. \A i \in Nat : i < L /\ i \in T => i + 1 \in T
  <2> SUFFICES ASSUME NEW i \in Nat, i < L, w[i] \in Seq(V) PROVE w[i + 1] \in Seq(V)
    OBVIOUS
  <2>1. i + 1 \in 1 .. L /\ (i + 1) - 1 = i
    BY <1>0
  <2>2. w[i + 1] = IF Stays(s, d, i + 1) THEN Append(w[i], s[i + 1]) ELSE w[i]
    BY <1>5, <2>1
  <2>3. s[i + 1] \in V
    BY <1>0, <2>1
  <2>4. Append(w[i], s[i + 1]) \in Seq(V)
    BY <2>3
  <2> QED BY <2>2, <2>4
<1>8. \A i \in 0 .. L : i \in T
  <2> HIDE DEF T
  <2> QED BY <1>0, <1>6, <1>7, InductionUpTo
<1> QED BY <1>4, <1>5, <1>8 DEF w, L

\* The walk has i of the values behind it: those of them that stay are the first of
\* the list, the others have not been looked at.
Passed(w, s, d, i, n, c, q) ==
    /\ n = q + (Len(s) - i) /\ Between(w, n, c, q + 1)
    /\ \A t \in 1 .. q : Shown(w.mem, n, c)[t] = Kept(s, d)[i][t]
    /\ \A t \in 1 .. Len(s) - i : Shown(w.mem, n, c)[q + t] = s[i + t]
    /\ (q = 0 /\ i < Len(s)) => i = 0
    /\ w.astray = (i > 0 /\ Len(s) = 1 /\ s[1] = d)

Reached(w, s, d, i, n, c) == Passed(w, s, d, i, n, c, Len(Kept(s, d)[i]))

\* What Kept does from one value to the next.
LEMMA KeptStep ==
    ASSUME NEW V, NEW s \in Seq(V), NEW d, NEW i \in 0 .. Len(s) - 1
    PROVE  /\ i + 1 \in 1 .. Len(s) /\ s[i + 1] \in V
           /\ Len(Kept(s, d)[i]) \in Nat /\ Len(Kept(s, d)[i + 1]) \in Nat
           /\ Stays(s, d, i + 1) =>
                 /\ Len(Kept(s, d)[i + 1]) = Len(Kept(s, d)[i]) + 1
                 /\ Kept(s, d)[i + 1][Len(Kept(s, d)[i]) + 1] = s[i + 1]
                 /\ \A t \in 1 .. Len(Kept(s, d)[i]) : Kept(s, d)[i + 1][t] = Kept(s, d)[i][t]
           /\ ~Stays(s, d, i + 1) => Kept(s, d)[i + 1] = Kept(s, d)[i]
<1> DEFINE K == Kept(s, d)
<1>1. i + 1 \in 1 .. Len(s) /\ (i + 1) - 1 = i /\ i \in 0 .. Len(s) /\ s[i + 1] \in V
  OBVIOUS
<1>2. K[i + 1] = (IF Stays(s, d, i + 1) THEN Append(K[i], s[i + 1]) ELSE K[i]) /\ K[i] \in Seq(V)
  BY <1>1, KeptIs
<1> HIDE DEF K
<1>3. Append(K[i], s[i + 1]) \in Seq(V)
  BY <1>1, <1>2
<1>4. /\ Len(Append(K[i], s[i + 1])) = Len(K[i]) + 1
      /\ Append(K[i], s[i + 1])[Len(K[i]) + 1] = s[i + 1]
      /\ \A t \in 1 .. Len(K[i]) : Append(K[i], s[i + 1])[t] = K[i][t]
  BY <1>1, <1>2
<1>5. Len(K[i]) \in Nat /\ Len(Append(K[i], s[i + 1])) \in Nat
  BY <1>2, <1>3
<1> QED BY <1>1, <1>2, <1>4, <1>5 DEF K

\* A value that stays.
LEMMA TurnKeeps ==
    ASSUME NEW V, NEW s \in Seq(V), NEW d, NEW i \in 0 .. Len(s) - 1,
           NEW w, NEW n, NEW c, Reached(w, s, d, i, n, c), s[i + 1] # d
    PROVE  Reached(Look(w, d), s, d, i + 1, n, c)
<1> DEFINE K == Kept(s, d)
           q == Len(K[i])
           L == Len(s)
           x == Shown(w.mem, n, c)
           v == Look(w, d)
<1>1. /\ n = q + (L - i) /\ Between(w, n, c, q + 1)
      /\ \A t \in 1 .. q : x[t] = K[i][t]
      /\ \A t \in 1 .. L - i : x[q + t] = s[i + t]
      /\ w.astray = (i > 0 /\ L = 1 /\ s[1] = d)
  BY Zenon DEF Reached, Passed
<1>2. L \in Nat /\ q \in Nat /\ i + 1 \in 1 .. L /\ 1 \in 1 .. L - i
  BY KeptStep
<1>3. q + 1 \in 1 .. n
  <2> HIDE DEF q, L
  <2> QED BY <1>1, <1>2
<1>4. x[q + 1] = s[i + 1]
  BY <1>1, <1>2, Zenon
<1>5. w.mem[c[q + 1]].data = s[i + 1]
  BY <1>3, <1>4 DEF Shown
<1>6. w.p = c[q + 1] /\ c[q + 1] # NULL
  <2>1. Fine(w.first, w.mem, n, c, w.map) /\ w.p = (IF q + 1 = n + 1 THEN NULL ELSE c[q + 1])
    BY <1>1 DEF Between
  <2>2. c[q + 1] \in Block /\ n \in Nat /\ NULL \notin Block
    BY <1>3, <2>1, NextOf, Numbers
  <2>3. q + 1 # n + 1
    <3> HIDE DEF q
    <3> QED BY <1>2, <1>3, <2>2
  <2> QED BY <2>1, <2>2, <2>3
<1>7. v = [w EXCEPT !.prev = w.p, !.p = w.mem[w.p].Next]
  BY <1>5, <1>6 DEF Look
<1>8. Between(v, n, c, (q + 1) + 1) /\ v.mem = w.mem /\ v.astray = w.astray
  <2> DEFINE u == [w EXCEPT !.prev = w.p, !.p = w.mem[w.p].Next]
  <2>1. Between(u, n, c, (q + 1) + 1) /\ u.mem = w.mem /\ u.astray = w.astray
    BY <1>1, <1>3, LooksOn
  <2> HIDE DEF u, v
  <2>2. v = u
    BY <1>7 DEF u
  <2> QED BY <2>1, <2>2
<1>9. Stays(s, d, i + 1)
  BY DEF Stays
<1>10. /\ Len(K[i + 1]) = q + 1 /\ K[i + 1][q + 1] = s[i + 1]
       /\ \A t \in 1 .. q : K[i + 1][t] = K[i][t]
  BY <1>9, KeptStep
<1> HIDE DEF v, x, K, q, L
<1>11. Shown(v.mem, n, c) = x
  BY <1>8 DEF x
<1>12. \A t \in 1 .. q + 1 : x[t] = K[i + 1][t]
  <2> SUFFICES ASSUME NEW t \in 1 .. q + 1 PROVE x[t] = K[i + 1][t]
    OBVIOUS
  <2>1. t \in 1 .. q \/ t = q + 1
    BY <1>2
  <2> QED BY <1>1, <1>4, <1>10, <2>1
<1>13. \A t \in 1 .. L - (i + 1) : x[(q + 1) + t] = s[(i + 1) + t]
  <2> SUFFICES ASSUME NEW t \in 1 .. L - (i + 1) PROVE x[(q + 1) + t] = s[(i + 1) + t]
    OBVIOUS
  <2>1. t + 1 \in 1 .. L - i /\ q + (t + 1) = (q + 1) + t /\ i + (t + 1) = (i + 1) + t
    BY <1>2
  <2>2. x[q + (t + 1)] = s[i + (t + 1)]
    BY <1>1, <2>1
  <2> QED BY <2>1, <2>2
<1>14. n = (q + 1) + (L - (i + 1)) /\ q + 1 # 0 /\ i + 1 > 0
  BY <1>1, <1>2
<1>15. v.astray = (i + 1 > 0 /\ L = 1 /\ s[1] = d)
  <2>1. L = 1 => i = 0
    BY <1>2
  <2>2. L = 1 => s[1] # d
    BY <2>1
  <2> QED BY <1>1, <1>8, <2>2
<1>16. Len(Kept(s, d)[i + 1]) = q + 1
  BY <1>10 DEF K
<1>17. Passed(v, s, d, i + 1, n, c, q + 1)
  BY <1>8, <1>11, <1>12, <1>13, <1>14, <1>15, Zenon DEF Passed, K, L
<1> QED BY <1>16, <1>17, Zenon DEF Reached, v

\* A value that goes, with a node before it.
LEMMA TurnDrops ==
    ASSUME NEW V, NEW s \in Seq(V), NEW d, NEW i \in 0 .. Len(s) - 1,
           NEW w, NEW n, NEW c, Reached(w, s, d, i, n, c), s[i + 1] = d,
           Len(Kept(s, d)[i]) # 0
    PROVE  Reached(Look(w, d), s, d, i + 1, n - 1, Without1(n, c, Len(Kept(s, d)[i]) + 1))
<1> DEFINE K == Kept(s, d)
           q == Len(K[i])
           L == Len(s)
           x == Shown(w.mem, n, c)
           v == Look(w, d)
           e == Without1(n, c, q + 1)
<1>1. /\ n = q + (L - i) /\ Between(w, n, c, q + 1)
      /\ \A t \in 1 .. q : x[t] = K[i][t]
      /\ \A t \in 1 .. L - i : x[q + t] = s[i + t]
      /\ w.astray = (i > 0 /\ L = 1 /\ s[1] = d)
  BY Zenon DEF Reached, Passed
<1>2. L \in Nat /\ i \in Nat /\ q \in Nat /\ q # 0 /\ i + 1 \in 1 .. L /\ 1 \in 1 .. L - i
  BY KeptStep
<1>3. q + 1 \in 1 .. n /\ q + 1 # 1 /\ 1 \in 1 .. n
  <2> HIDE DEF q, L
  <2> QED BY <1>1, <1>2
<1>4. x[q + 1] = s[i + 1]
  BY <1>1, <1>2, Zenon
<1>5. w.mem[c[q + 1]].data = d
  BY <1>3, <1>4 DEF Shown
<1>6. w.p = c[q + 1] /\ c[q + 1] # NULL /\ w.first # w.p /\ n \in Nat
  <2>1. Fine(w.first, w.mem, n, c, w.map) /\ w.p = (IF q + 1 = n + 1 THEN NULL ELSE c[q + 1])
    BY <1>1 DEF Between
  <2>2. /\ c[q + 1] \in Block /\ n \in Nat /\ NULL \notin Block /\ w.first = c[1]
        /\ (c[1] = c[q + 1] => 1 = q + 1)
    BY <1>3, <2>1, NextOf, Numbers
  <2>3. q + 1 # n + 1
    <3> HIDE DEF q
    <3> QED BY <1>2, <1>3, <2>2
  <2> QED BY <1>3, <2>1, <2>2, <2>3
<1>7. v = DropInner(w)
  BY <1>5, <1>6 DEF Look
<1>8. Between(v, n - 1, e, q + 1) /\ v.astray = w.astray /\ Shown(v.mem, n - 1, e) = Without1(n, x, q + 1)
  <2> DEFINE u == DropInner(w)
  <2>1. /\ Between(u, n - 1, e, q + 1) /\ u.astray = w.astray
        /\ Shown(u.mem, n - 1, e) = Without1(n, x, q + 1)
    <3> DEFINE j == q + 1
    <3>1. j \in 1 .. n /\ j # 1 /\ Between(w, n, c, j)
      BY <1>1, <1>3
    <3> HIDE DEF j
    <3>2. LET z == DropInner(w)
              y == Without1(n, c, j)
          IN  /\ Between(z, n - 1, y, j) /\ z.astray = w.astray
              /\ Shown(z.mem, n - 1, y) = Without1(n, Shown(w.mem, n, c), j)
      BY <3>1, DropsInner
    <3> QED BY <3>2 DEF j
  <2> HIDE DEF u, v, e, x
  <2>2. v = u
    BY <1>7 DEF u
  <2> QED BY <2>1, <2>2
<1>9. ~Stays(s, d, i + 1)
  <2>1. CASE i + 1 = 2 /\ s[1] = d
    <3>1. i = 1 /\ 0 \in 0 .. L - 1 /\ 0 + 1 = 1 /\ 1 # 2
      BY <1>2, <2>1
    <3>2. ~Stays(s, d, 0 + 1)
      BY <2>1, <3>1 DEF Stays
    <3>3. K[0 + 1] = K[0]
      BY <3>1, <3>2, KeptStep
    <3>4. K[1] = <<>>
      BY <3>1, <3>3, KeptIs
    <3>5. q = 0
      BY <3>1, <3>4
    <3> QED BY <1>2, <3>5
  <2>2. CASE ~(i + 1 = 2 /\ s[1] = d)
    BY <2>2 DEF Stays
  <2> QED BY <2>1, <2>2
<1>10. K[i + 1] = K[i]
  BY <1>9, KeptStep
<1>11. Len(Kept(s, d)[i + 1]) = q
  BY <1>10
<1> DEFINE y == Without1(n, x, q + 1)
<1>12. \A t \in 1 .. n - 1 : y[t] = IF t < q + 1 THEN x[t] ELSE x[t + 1]
  BY DEF Without1
<1> HIDE DEF v, x, K, q, L, e, y
<1>13. Shown(v.mem, n - 1, e) = y
  BY <1>8 DEF y
<1>14. \A t \in 1 .. q : y[t] = K[i + 1][t]
  <2> SUFFICES ASSUME NEW t \in 1 .. q PROVE y[t] = K[i + 1][t]
    OBVIOUS
  <2>1. t \in 1 .. n - 1 /\ t < q + 1
    BY <1>2, <1>3, <1>6
  <2> QED BY <1>1, <1>10, <1>12, <2>1
<1>15. \A t \in 1 .. L - (i + 1) : y[q + t] = s[(i + 1) + t]
  <2> SUFFICES ASSUME NEW t \in 1 .. L - (i + 1) PROVE y[q + t] = s[(i + 1) + t]
    OBVIOUS
  <2>1. /\ t + 1 \in 1 .. L - i /\ q + (t + 1) = (q + t) + 1 /\ i + (t + 1) = (i + 1) + t
        /\ q + t \in 1 .. n - 1 /\ ~(q + t < q + 1)
    BY <1>1, <1>2, <1>6
  <2>2. x[q + (t + 1)] = s[i + (t + 1)]
    BY <1>1, <2>1
  <2> QED BY <1>12, <2>1, <2>2
<1>16. n - 1 = q + (L - (i + 1)) /\ q # 0 /\ i + 1 > 0
  <2>1. n = q + (L - i)
    BY <1>1, Zenon
  <2> QED BY <1>2, <2>1
<1>17. v.astray = (i + 1 > 0 /\ L = 1 /\ s[1] = d)
  <2>1. L # 1
    <3>1. L = 1 => i = 0
      BY <1>2
    <3>2. i = 0 => q = 0
      BY KeptIs DEF q, K
    <3> QED BY <1>2, <3>1, <3>2
  <2> QED BY <1>1, <1>8, <2>1
<1>18. Passed(v, s, d, i + 1, n - 1, e, q)
  BY <1>8, <1>13, <1>14, <1>15, <1>16, <1>17, Zenon DEF Passed, K, L
<1> QED BY <1>11, <1>18, Zenon DEF Reached, v, e, q, K

\* The first value goes, and with it the look at the next.
LEMMA TurnDropsFirst ==
    ASSUME NEW V, NEW s \in Seq(V), NEW d, s # <<>>,
           NEW w, NEW n, NEW c, Reached(w, s, d, 0, n, c), s[1] = d
    PROVE  Reached(Look(w, d), s, d, IF Len(s) = 1 THEN 1 ELSE 2, n - 1, Without1(n, c, 1))
<1> DEFINE K == Kept(s, d)
           L == Len(s)
           x == Shown(w.mem, n, c)
           v == Look(w, d)
           e == Without1(n, c, 1)
           y == Without1(n, x, 1)
<1>1. L \in Nat /\ L # 0 /\ 0 \in 0 .. L - 1 /\ 0 + 1 = 1
  <2>1. L \in Nat /\ L # 0
    OBVIOUS
  <2> HIDE DEF L
  <2> QED BY <2>1
<1>2. K[0] = <<>> /\ Len(K[0]) = 0
  BY KeptIs
<1>3. /\ n = L /\ Between(w, n, c, 1)
      /\ \A t \in 1 .. L : x[t] = s[t]
  <2>1. Passed(w, s, d, 0, n, c, 0)
    BY <1>2, Zenon DEF Reached
  <2> HIDE DEF K, L, x
  <2>2. /\ n = 0 + (L - 0) /\ Between(w, n, c, 0 + 1)
        /\ \A t \in 1 .. L - 0 : x[0 + t] = s[0 + t]
    BY <2>1, Zenon DEF Passed, K, L, x
  <2>3. \A t \in 1 .. L : t \in 1 .. L - 0 /\ 0 + t = t
    BY <1>1
  <2>4. 0 + (L - 0) = L /\ 0 + 1 = 1
    BY <1>1
  <2>5. \A t \in 1 .. L : x[t] = s[t]
    BY <2>2, <2>3
  <2> QED BY <2>2, <2>4, <2>5
<1>4. 1 \in 1 .. n /\ n \in Nat
  <2> HIDE DEF L
  <2> QED BY <1>1, <1>3
<1>5. w.mem[c[1]].data = d
  <2>1. x[1] = s[1]
    BY <1>3, <1>4
  <2> QED BY <1>4, <2>1 DEF Shown
<1>6. w.p = c[1] /\ c[1] # NULL /\ w.first = w.p
  <2>1. Fine(w.first, w.mem, n, c, w.map) /\ w.p = (IF 1 = n + 1 THEN NULL ELSE c[1])
    BY <1>3 DEF Between
  <2>2. c[1] \in Block /\ NULL \notin Block /\ w.first = c[1]
    BY <1>4, <2>1, NextOf, Numbers
  <2>3. 1 # n + 1
    BY <1>4
  <2> QED BY <2>1, <2>2, <2>3
<1>7. v = DropFirst(w)
  BY <1>5, <1>6 DEF Look
<1>8. /\ Between(v, n - 1, e, IF n = 1 THEN 1 ELSE 2) /\ v.astray = (n = 1)
      /\ Shown(v.mem, n - 1, e) = y
  <2>1. LET z == DropFirst(w)
            b == Without1(n, c, 1)
        IN  /\ Between(z, n - 1, b, IF n = 1 THEN 1 ELSE 2) /\ z.astray = (n = 1)
            /\ Shown(z.mem, n - 1, b) = Without1(n, Shown(w.mem, n, c), 1)
    BY <1>3, <1>4, DropsFirst
  <2> HIDE DEF v
  <2> QED BY <1>7, <2>1
<1>9. \A t \in 1 .. n - 1 : y[t] = x[t + 1]
  BY DEF Without1
<1>10. ~Stays(s, d, 0 + 1)
  BY DEF Stays
<1>11. K[1] = <<>>
  <2>1. K[0 + 1] = K[0]
    BY <1>1, <1>10, KeptStep
  <2> QED BY <1>2, <2>1
<1>12. CASE L = 1
  <2>1. Len(K[1]) = 0
    BY <1>11
  <2> HIDE DEF v, x, K, L, e, y
  <2>2. /\ n - 1 = 0 + (L - 1) /\ 0 + 1 = 1 /\ n = 1 /\ 1 > 0
        /\ (\A t \in 1 .. 0 : FALSE) /\ (\A t \in 1 .. L - 1 : FALSE) /\ ~(1 < L)
    BY <1>3, <1>12
  <2>3. Between(v, n - 1, e, 0 + 1) /\ v.astray = (1 > 0 /\ L = 1 /\ s[1] = d)
    BY <1>8, <1>12, <2>2
  <2>4. Passed(v, s, d, 1, n - 1, e, 0)
    BY <2>2, <2>3, Zenon DEF Passed, L
  <2>5. Reached(v, s, d, 1, n - 1, e)
    BY <2>1, <2>4, Zenon DEF Reached, K
  <2> QED BY <1>12, <2>5 DEF v, e, L
<1>13. CASE L # 1
  <2>1. 1 \in 0 .. L - 1 /\ 1 + 1 = 2 /\ 2 \in 1 .. L
    <3> HIDE DEF L
    <3> QED BY <1>1, <1>13
  <2>2. Stays(s, d, 1 + 1)
    BY DEF Stays
  <2>3. Len(K[1]) = 0
    BY <1>11
  <2>4. Len(K[1 + 1]) = Len(K[1]) + 1 /\ K[1 + 1][Len(K[1]) + 1] = s[1 + 1]
    BY <2>1, <2>2, KeptStep
  <2> HIDE DEF v, x, K, L, e, y
  <2>5. Len(K[2]) = 1 /\ K[2][1] = s[2]
    BY <2>3, <2>4
  <2>6. n - 1 = 1 + (L - 2) /\ n # 1 /\ 1 # 0 /\ 2 > 0
    BY <1>1, <1>3, <1>13
  <2>7. Between(v, n - 1, e, 1 + 1) /\ v.astray = (2 > 0 /\ L = 1 /\ s[1] = d)
    BY <1>8, <1>13, <2>6
  <2>8. \A t \in 1 .. 1 : y[t] = K[2][t]
    <3> SUFFICES ASSUME NEW t \in 1 .. 1 PROVE y[t] = K[2][t]
      OBVIOUS
    <3>1. t = 1 /\ 1 \in 1 .. n - 1 /\ 1 + 1 = 2
      BY <1>3, <2>1, <2>6, <1>1
    <3>2. y[1] = x[2] /\ x[2] = s[2]
      BY <1>3, <1>9, <2>1, <3>1
    <3> QED BY <2>5, <3>1, <3>2
  <2>9. \A t \in 1 .. L - 2 : y[1 + t] = s[2 + t]
    <3> SUFFICES ASSUME NEW t \in 1 .. L - 2 PROVE y[1 + t] = s[2 + t]
      OBVIOUS
    <3>1. 1 + t \in 1 .. n - 1 /\ (1 + t) + 1 = 2 + t /\ 2 + t \in 1 .. L
      BY <1>1, <1>3
    <3> QED BY <1>3, <1>9, <3>1
  <2>10. Passed(v, s, d, 2, n - 1, e, 1)
    BY <1>8, <2>6, <2>7, <2>8, <2>9, Zenon DEF Passed, L, K
  <2>11. Reached(v, s, d, 2, n - 1, e)
    BY <2>5, <2>10, Zenon DEF Reached, K
  <2> QED BY <1>13, <2>11 DEF v, e, L
<1> QED BY <1>12, <1>13

\* A turn gets further, until the walk is through.
LEMMA TurnGoesOn ==
    ASSUME NEW V, NEW s \in Seq(V), NEW d, NEW i \in 0 .. Len(s),
           NEW w, NEW n, NEW c, Reached(w, s, d, i, n, c)
    PROVE  \E k, m, e : k \in 0 .. Len(s) /\ Reached(Look(w, d), s, d, k, m, e)
                       /\ (k > i \/ k = Len(s))
<1>1. CASE i = Len(s)
  <2> DEFINE q == Len(Kept(s, d)[i])
  <2>1. Passed(w, s, d, i, n, c, q) /\ q \in Nat /\ i \in Nat
    <3>1. Kept(s, d)[i] \in Seq(V)
      BY KeptIs
    <3>2. q \in Nat
      BY <3>1
    <3>3. i \in Nat
      OBVIOUS
    <3> QED BY <3>2, <3>3, Zenon DEF Reached
  <2> HIDE DEF q
  <2>2. n = q + (Len(s) - i) /\ Between(w, n, c, q + 1)
    BY <2>1, Zenon DEF Passed
  <2>3. n = q
    BY <1>1, <2>1, <2>2
  <2>4. w.p = NULL
    BY <2>2, <2>3 DEF Between
  <2>5. Look(w, d) = w
    BY <2>4 DEF Look
  <2> QED BY <1>1, <2>5
<1>2. CASE i # Len(s)
  <2>1. i \in 0 .. Len(s) - 1 /\ i + 1 \in 0 .. Len(s) /\ i + 1 > i /\ s # <<>>
    BY <1>2
  <2>2. CASE s[i + 1] # d
    BY <2>1, <2>2, TurnKeeps
  <2>3. CASE s[i + 1] = d /\ Len(Kept(s, d)[i]) # 0
    BY <2>1, <2>3, TurnDrops
  <2>4. CASE s[i + 1] = d /\ Len(Kept(s, d)[i]) = 0
    <3>1. i < Len(s)
      BY <2>1
    <3>2. i = 0 /\ i + 1 = 1
      <4> DEFINE q == Len(Kept(s, d)[i])
      <4>1. Passed(w, s, d, i, n, c, q)
        BY Zenon DEF Reached
      <4>2. q = 0
        BY <2>4
      <4> HIDE DEF q
      <4>3. i = 0
        BY <3>1, <4>1, <4>2, Zenon DEF Passed
      <4> QED BY <4>3
    <3>3. Reached(w, s, d, 0, n, c) /\ s[1] = d
      BY <2>4, <3>2
    <3>4. Reached(Look(w, d), s, d, IF Len(s) = 1 THEN 1 ELSE 2, n - 1, Without1(n, c, 1))
      BY <2>1, <3>3, TurnDropsFirst
    <3>5. /\ (IF Len(s) = 1 THEN 1 ELSE 2) \in 0 .. Len(s)
          /\ (IF Len(s) = 1 THEN 1 ELSE 2) > i
      <4> DEFINE L == Len(s)
      <4>1. L \in Nat /\ 0 < L
        BY <3>1, <3>2
      <4> HIDE DEF L
      <4>2. (IF L = 1 THEN 1 ELSE 2) \in 0 .. L /\ (IF L = 1 THEN 1 ELSE 2) > 0
        BY <4>1
      <4> QED BY <3>2, <4>2 DEF L
    <3> QED BY <3>4, <3>5
  <2> QED BY <2>2, <2>3, <2>4
<1> QED BY <1>1, <1>2

LEMMA RemoveAllFine ==
    ASSUME LInv, ~lost, NEW d \in Data, RemoveAll(d)
    PROVE  LInv' /\ live' = live /\ (Skips(d) \/ AsListing!RemoveAll(d))
<1> DEFINE s == [first |-> first, p |-> first, prev |-> NULL,
                 map |-> memmap, mem |-> mem, astray |-> FALSE]
           w == Turns(s, d)
           V == Data \cup {NULL}
           L == Len(Items)
<1>0. /\ first # NULL /\ first' = w[N].first /\ memmap' = w[N].map /\ mem' = w[N].mem
      /\ lost' = w[N].astray /\ ready' = ready /\ raw' = raw
  BY Zenon DEF RemoveAll, Turns
<1>1. PICK n, c : InRow(n, c)
  BY DEF LInv
<1>2. ready = TRUE /\ n \in Nat /\ n # 0
  BY <1>0, <1>1, FirstNode, NodesHere DEF LInv, MInv
<1>3. Fine(first, mem, n, c, memmap)
  BY <1>1, <1>2, HereFine
<1>4. w[0] = s /\ \A k \in 0 .. N - 1 : w[k + 1] = Look(w[k], d)
  BY TurnsAre
<1>5. Items = Shown(mem, n, c) /\ Items \in [1 .. n -> V]
  BY <1>1, <1>3, ItemsHere, RowValues
<1>6. Items \in Seq(V) /\ L = n /\ L \in Nat /\ L <= N /\ L # 0
  <2>1. n <= N
    BY <1>1, RowShort DEF InRow
  <2> QED BY <1>2, <1>5, <2>1
<1>7. Reached(s, Items, d, 0, n, c)
  <2>1. Kept(Items, d)[0] = <<>>
    BY <1>6, KeptIs
  <2>2. Len(Kept(Items, d)[0]) = 0
    BY <2>1
  <2>3. 1 \in 1 .. n /\ 1 \in 1 .. n + 1 /\ 1 # n + 1 /\ ~(1 < 1) /\ 0 + 1 = 1 /\ n = 0 + (n - 0)
    BY <1>2
  <2>4. first = c[1] /\ c[1] \in Block
    BY <1>3, <2>3, NextOf
  <2>5. s \in States
    BY <1>3, <2>4 DEF States, Fine, Agree
  <2>6. Between(s, n, c, 0 + 1)
    BY <1>3, <2>3, <2>4, <2>5 DEF Between
  <2>7. \A t \in 1 .. n - 0 : 0 + t = t
    BY <1>2
  <2>8. s.mem = mem /\ s.astray = FALSE
    OBVIOUS
  <2>9. (\A t \in 1 .. 0 : FALSE) /\ ~(0 > 0)
    OBVIOUS
  <2> HIDE DEF s
  <2>10. Passed(s, Items, d, 0, n, c, 0)
    BY <1>5, <1>6, <2>3, <2>6, <2>7, <2>8, <2>9 DEF Passed
  <2> QED BY <2>2, <2>10, Zenon DEF Reached
<1> HIDE DEF w, s, L
<1> DEFINE T == {k \in Nat : \E i, m, e : i \in 0 .. L /\ Reached(w[k], Items, d, i, m, e)
                                           /\ (i >= k \/ i = L)}
<1>8. 0 \in T
  <2>1. 0 \in 0 .. L /\ 0 >= 0
    BY <1>6
  <2> QED BY <1>4, <1>7, <2>1
<1>9. \A k \in Nat : k < N /\ k \in T => k + 1 \in T
  <2> SUFFICES ASSUME NEW k \in Nat, k < N, k \in T PROVE k + 1 \in T
    OBVIOUS
  <2>1. k \in 0 .. N - 1
    BY Numbers
  <2>2. PICK i, m, e : i \in 0 .. L /\ Reached(w[k], Items, d, i, m, e) /\ (i >= k \/ i = L)
    OBVIOUS
  <2>3. PICK j, m2, e2 : j \in 0 .. L /\ Reached(Look(w[k], d), Items, d, j, m2, e2) /\ (j > i \/ j = L)
    BY <1>6, <2>2, TurnGoesOn DEF L
  <2>4. j >= k + 1 \/ j = L
    BY <1>6, <2>2, <2>3
  <2>5. w[k + 1] = Look(w[k], d)
    BY <1>4, <2>1
  <2> QED BY <2>3, <2>4, <2>5
<1>10. PICK i, m, e : i \in 0 .. L /\ Reached(w[N], Items, d, i, m, e) /\ (i >= N \/ i = L)
  <2> HIDE DEF T
  <2>1. N \in Nat /\ N \in 0 .. N
    BY Numbers
  <2>2. N \in T
    BY <1>8, <1>9, <2>1, InductionUpTo
  <2> QED BY <2>2 DEF T
<1>11. i = L /\ N \in Nat
  BY <1>6, <1>10, Numbers
<1> DEFINE K == Kept(Items, d)[L]
           q == Len(K)
<1>12. K \in Seq(V) /\ q \in Nat
  <2>1. L \in 0 .. Len(Items)
    BY <1>6 DEF L
  <2>2. K \in Seq(V)
    BY <1>6, <2>1, KeptIs
  <2> QED BY <2>2
<1>13. Passed(w[N], Items, d, L, m, e, q)
  BY <1>10, <1>11, Zenon DEF Reached, L
<1> HIDE DEF K, q
<1>14. /\ m = q + (L - L) /\ Between(w[N], m, e, q + 1)
       /\ \A t \in 1 .. q : Shown(w[N].mem, m, e)[t] = K[t]
       /\ w[N].astray = (L > 0 /\ L = 1 /\ Items[1] = d)
  BY <1>13, Zenon DEF Passed, L, K
<1>15. m = q
  BY <1>6, <1>12, <1>14
<1>16. Fine(first', mem', m, e, memmap') /\ \A b \in Clients0(raw) : mem'[b] = mem[b]
  BY <1>0, <1>14 DEF Between
<1>17. lost' = (L = 1 /\ Items[1] = d)
  BY <1>0, <1>6, <1>14
<1>18. LInv' /\ live' = live /\ Items' = Shown(mem', m, e)
  BY <1>0, <1>2, <1>16, <1>17, LeftFine
<1>19. Items' = K
  <2>1. \A t \in 1 .. q : Shown(mem', m, e)[t] = K[t]
    BY <1>0, <1>14
  <2>2. K = [t \in 1 .. q |-> K[t]]
    BY <1>12, SeqIs DEF q
  <2>3. Shown(mem', m, e) = [t \in 1 .. q |-> Shown(mem', m, e)[t]]
    BY <1>15 DEF Shown
  <2> QED BY <1>18, <2>1, <2>2, <2>3
<1>20. ASSUME ~Skips(d) PROVE AsListing!RemoveAll(d)
  <2>1. Len(Items) = Count /\ Len(Items) = L
    BY NodesReady DEF L
  <2>2. Items[1] = d => L # 1 /\ Items[2] # d
    BY <1>20, <2>1 DEF Skips
  <2>3. lost' = FALSE /\ lost = FALSE
    BY <1>17, <2>2 DEF LInv
  <2>4. {t \in 1 .. Len(Items) : Stays(Items, d, t)} = {t \in 1 .. Len(Items) : Items[t] # d}
    BY <2>2 DEF Stays
  <2>5. Items' = KeptOf(Items, {t \in 1 .. Len(Items) : Items[t] # d})[Len(Items)]
    BY <1>19, <2>4 DEF K, L, Kept
  <2>6. Items' = AsListing!Kept({t \in 1 .. Len(Items) : Items[t] # d})
    BY <2>5, Zenon DEF AsListing!Kept, KeptOf
  <2>7. Items # <<>>
    BY <1>6 DEF L
  <2> QED BY <2>3, <2>6, <2>7 DEF AsListing!RemoveAll, AsListing!Becomes
<1> QED BY <1>18, <1>20

-----------------------------------------------------------------------------
(* The runs of the list and its neighbours.                                    *)

\* Call by call.
LEMMA ValuesFine ==
    ASSUME LInv, ~lost, NEW d \in Data
    PROVE  /\ PushBack(d)  => LInv' /\ live' = live /\ AsListing!PushBack(d)
           /\ PushFront(d) => LInv' /\ live' = live /\ AsListing!PushFront(d)
           /\ Remove(d)    => LInv' /\ live' = live /\ AsListing!RemoveOne(d)
           /\ RemoveAll(d) => LInv' /\ live' = live /\ (Skips(d) \/ AsListing!RemoveAll(d))
           /\ \A pos \in 0 .. N :
                 Insert(pos, d) => LInv' /\ live' = live /\ AsListing!Insert(pos, d)
BY AddsFine, RemoveFine, RemoveAllFine

LEMMA CallsFine ==
    ASSUME LInv, ~lost, ListCalls PROVE LInv' /\ live' = live
BY ValuesFine, PopsFine, EraseFine, DestroyFine DEF ListCalls

\* What a step does, the part of ListSteps that is about it.
Does == /\ \A d \in Data :
              /\ PushBack(d)  => AsListing!PushBack(d)
              /\ PushFront(d) => AsListing!PushFront(d)
              /\ Remove(d)    => AsListing!RemoveOne(d)
              /\ RemoveAll(d) => Skips(d) \/ AsListing!RemoveAll(d)
              /\ \A pos \in 0 .. N : Insert(pos, d) => AsListing!Insert(pos, d)
        /\ PopBack  => AsListing!PopBack
        /\ PopFront => AsListing!PopFront
        /\ \A pos \in 0 .. N : Erase(pos) => AsListing!Erase(pos)
        /\ Destroy  => AsListing!Destroy
        /\ ListCalls => UNCHANGED Ranges
        /\ Clients /\ UNCHANGED <<first, lost>> => UNCHANGED Items

LEMMA StepFine ==
    ASSUME LInv, [Next]_vars
    PROVE  /\ LInv'
           /\ AsHeap!Next \/ live' = live
           /\ [Does]_vars
           /\ [ListCalls => UNCHANGED Ranges]_vars
<1>1. CASE UNCHANGED vars
  BY <1>1 DEF vars, poolVars, LInv, MInv, InRow, live
<1>2. CASE Next
  <2>1. ~lost
    BY <1>2 DEF Next
  <2>2. ListCalls => LInv' /\ live' = live
    BY <2>1, CallsFine
  <2>3. Clients /\ UNCHANGED <<first, lost>> => LInv' /\ Items' = Items /\ (AsHeap!Next \/ live' = live)
    BY ClientsKeep, ClientsMap DEF LInv
  <2>4. Ranges = live
    BY DEF Ranges, live, Contents
  <2>5. Ranges' = live'
    BY DEF Ranges, live, Contents
  <2>6. Does
    BY <2>1, <2>2, <2>3, <2>4, <2>5, ValuesFine, PopsFine, EraseFine, DestroyFine, Zenon DEF Does
  <2> QED BY <1>2, <2>2, <2>3, <2>4, <2>5, <2>6 DEF Next
<1> QED BY <1>1, <1>2

LEMMA StartFine == ASSUME Init PROVE LInv /\ Items = <<>>
<1>1. MInv /\ ready = FALSE /\ raw = [p \in {} |-> 0] /\ memmap = [b \in Block |-> 0]
  BY InitFine DEF Init, PoolInit
<1>2. On(0, <<>>) = {} /\ Linked(NULL, mem, 0, <<>>)
  BY DEF On, Linked
<1>3. InRow(0, <<>>)
  BY <1>1, <1>2 DEF InRow, Shared, Init
<1>4. Items = <<>>
  BY <1>3, ItemsHere DEF Shown
<1> QED BY <1>1, <1>3, <1>4 DEF LInv, Init

\* The linked nodes are one row of blocks, each once, and every block the table has
\* marked is one of them or a client's (clist.c, malloc.c:207-211, 250-256).
THEOREM ListInvariance == Spec => []LInv
<1>1. Init => LInv
  BY StartFine
<1>2. LInv /\ [Next]_vars => LInv'
  BY StepFine
<1> QED BY <1>1, <1>2, PTL DEF Spec

\* The types of the state, whatever the list and the clients do (malloc.h:42-49,
\* clist.h:14-18).
THEOREM ListTypeCorrect == Spec => []TypeOK
<1>1. LInv => TypeOK
  <2> SUFFICES ASSUME LInv PROVE TypeOK
    OBVIOUS
  <2>1. PICK n, c : InRow(n, c)
    BY DEF LInv
  <2>2. first \in Block \cup {NULL}
    <3>1. n \in Nat /\ (n # 0 => 1 \in 1 .. n)
      BY <2>1 DEF InRow, Linked
    <3> QED BY <2>1, <3>1 DEF InRow, Linked
  <2> QED BY <2>2 DEF LInv, MInv, Agree, Held, TypeOK
<1> QED BY <1>1, ListInvariance, PTL

\* No call leaks a block or shares one, and no node is in the list twice: every block
\* is free, or a node of the list, or in one range of a client, for every pool and
\* every sequence of calls (clist.c:31-258, malloc.c:207-211, 250-256).
THEOREM BlocksAccounted == Spec => []Accounted
<1>1. LInv => Accounted
  <2> SUFFICES ASSUME LInv PROVE Accounted
    OBVIOUS
  <2>1. PICK n, c : InRow(n, c)
    BY DEF LInv
  <2>2. Nodes = c /\ Count = n
    BY <2>1, NodesHere
  <2>3. {Nodes[i] : i \in 1 .. Count} = On(n, c) /\ Cardinality(On(n, c)) = Count
    BY <2>1, <2>2, RowShort DEF InRow, On
  <2> DEFINE Here(b) == {p \in DOMAIN raw : b \in Span(p, raw[p])}
  <2>4. ASSUME NEW b \in Block
        PROVE  /\ Cardinality(Here(b)) = (IF b \in On(n, c) \/ memmap[b] = 0 THEN 0 ELSE 1)
               /\ \A p \in Here(b) : memmap[b] = raw[p]
               /\ b \in On(n, c) => memmap[b] = 1
    <3>1. \A p \in Here(b) : memmap[b] = raw[p] /\ raw[p] # 0
      BY DEF LInv, MInv, Agree, Marks, Held
    <3>2. b \in On(n, c) => memmap[b] = 1 /\ Here(b) = {}
      BY <2>1 DEF InRow, Shared
    <3>3. CASE b \in On(n, c) \/ memmap[b] = 0
      <4>1. Here(b) = {}
        BY <3>1, <3>2, <3>3
      <4> QED BY <3>1, <3>2, <3>3, <4>1, FS_EmptySet
    <3>4. CASE ~(b \in On(n, c) \/ memmap[b] = 0)
      <4>1. PICK p \in DOMAIN raw : b \in Span(p, raw[p])
        BY <2>1, <3>4 DEF InRow, Shared
      <4>2. \A q \in DOMAIN raw : b \in Span(q, raw[q]) => q = p
        BY <4>1 DEF LInv, MInv, Agree, Disjoint
      <4>3. Here(b) = {p}
        BY <4>1, <4>2
      <4>4. Cardinality(Here(b)) = 1
        <5> HIDE DEF Here
        <5> QED BY <4>3, FS_Singleton
      <4> HIDE DEF Here
      <4> QED BY <3>1, <3>2, <3>4, <4>4
    <3> QED BY <3>3, <3>4
  <2> QED BY <2>3, <2>4 DEF Accounted
<1> QED BY <1>1, ListInvariance, PTL

\* A free block holds zeros also with the list as the pool's tenant: what a node held
\* does not outlive it (malloc.c:131, 306, clist.c:99-166).
THEOREM ListLeavesZero == Spec => []FreeIsZero
<1>1. LInv => FreeIsZero
  BY DEF LInv, MInv, Clean, FreeIsZero
<1> QED BY <1>1, ListInvariance, PTL

\* What the allocator promises its other clients it keeps next to the list, and no call
\* of the list adds, takes or changes a range that one of them holds (clist.c:31-300,
\* malloc.c:205-338).
THEOREM ListSparesClients == Spec => HeapSpec /\ [][ListCalls => UNCHANGED Ranges]_vars
<1>1. Init => AsHeap!Init
  BY DEF Init, PoolInit, AsHeap!Init
<1>2. LInv /\ [Next]_vars
          => [AsHeap!Next]_[p \in DOMAIN raw |-> [i \in 0 .. raw[p] - 1 |-> mem[p + i]]]
  BY StepFine DEF live, Contents
<1>3. LInv /\ [Next]_vars => [ListCalls => UNCHANGED Ranges]_vars
  BY StepFine
<1> QED BY <1>1, <1>2, <1>3, ListInvariance, PTL DEF Spec, HeapSpec, AsHeap!Spec

\* The linked nodes are the sequence their user takes them for: every call does to it
\* what that specification says, and is lost only where it says so; clist_remove_all
\* wherever it does not skip the first node but one (clist.h:20-46, clist.c:287).
THEOREM ListIsListing == Spec => ListSteps
<1>1. Init => Items = <<>>
  BY StartFine
<1>2. LInv /\ [Next]_vars => [Does]_vars
  BY StepFine
<1> QED BY <1>1, <1>2, ListInvariance, PTL DEF Spec, ListSteps, Does
==============================================================================
