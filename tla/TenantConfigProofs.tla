------------------------- MODULE TenantConfigProofs -------------------------
(***************************************************************************)
(* Proofs about TenantConfig for every set of files, namespaces and          *)
(* goroutines: what a file is stored as says, in the end, what the file      *)
(* says; a loaded file is in force; and a namespace that every file has is   *)
(* never without a tenant, however many goroutines load.                     *)
(***************************************************************************)
EXTENDS TenantConfig, FiniteSetTheorems, SequenceTheorems, WellFoundedInduction, TLAPS

-----------------------------------------------------------------------------
(* FlattenSeq *)

\* flat is what the sequences of ss up to each of n make together.
Flat(flat, ss, n) ==
    flat = [i \in 1..n |-> IF i = 1 THEN ss[i] ELSE flat[i-1] \o ss[i]]

\* A set of numbers has a least one.
LEMMA LeastNat ==
    ASSUME NEW T \in SUBSET Nat, T # {}
    PROVE  \E n \in T : \A m \in T : n <= m
<1> DEFINE R == OpToRel(<, Nat)
<1>1. IsWellFoundedOn(R, Nat)
  BY NatLessThanWellFounded
<1>2. \A m, n \in Nat : m < n => <<m, n>> \in R
  BY DEF OpToRel
<1>3. PICK n \in T : \A m \in T : ~(<<m, n>> \in R)
  <2> HIDE DEF R
  <2> QED
    BY <1>1, WFMin
<1>4. ASSUME NEW m \in T PROVE n <= m
  <2>1. ~(m < n)
    BY <1>2, <1>3
  <2> QED
    BY <2>1
<1> QED
  BY <1>4

\* A set of indices has a greatest one.
LEMMA Greatest ==
    ASSUME NEW N \in Nat, NEW T \in SUBSET (1..N), T # {}
    PROVE  \E n \in T : \A m \in T : m <= n
<1> DEFINE Left == {k \in Nat : N - k \in T}
<1>1. Left # {}
  <2>1. PICK m \in T : TRUE
    OBVIOUS
  <2>2. N - m \in Nat /\ N - (N - m) = m
    OBVIOUS
  <2>3. N - m \in Left
    BY <2>1, <2>2
  <2> QED
    BY <2>3
<1>2. PICK k \in Left : \A l \in Left : k <= l
  <2>1. Left \in SUBSET Nat
    OBVIOUS
  <2> HIDE DEF Left
  <2> QED
    BY <1>1, <2>1, LeastNat
<1>3. k \in Nat /\ N - k \in T
  OBVIOUS
<1>4. ASSUME NEW m \in T PROVE m <= N - k
  <2>1. N - m \in Nat /\ N - (N - m) = m
    OBVIOUS
  <2>2. N - m \in Left
    BY <2>1
  <2>3. k <= N - m
    BY <1>2, <2>2
  <2> QED
    BY <1>3, <2>1, <2>3
<1> QED
  BY <1>3, <1>4

\* A set of indices that has 1, and n if it has n-1, has all of them.
LEMMA UpTo ==
    ASSUME NEW N \in Nat, NEW T \in SUBSET (1..N), 1 \in T,
           \A n \in 2..N : n-1 \in T => n \in T
    PROVE  T = 1..N
<1> DEFINE B == 1..N \ T
<1> SUFFICES ASSUME B # {} PROVE FALSE
  OBVIOUS
<1>1. PICK n \in B : \A m \in B : n <= m
  <2>1. B \in SUBSET Nat
    OBVIOUS
  <2> HIDE DEF B
  <2> QED
    BY <2>1, LeastNat
<1>2. n \in 1..N /\ n \notin T /\ n # 1
  <2>1. n \in 1..N \ T
    BY <1>1
  <2> QED
    BY <2>1
<1>3. n \in 2..N /\ n-1 \in 1..N /\ ~(n <= n-1)
  BY <1>2
<1>4. n-1 \in T
  BY <1>1, <1>3
<1> QED
  BY <1>2, <1>3, <1>4

\* FlattenSeq puts sequences together one after the other.
LEMMA FlatExists ==
    ASSUME NEW A, NEW ss \in Seq(Seq(A)), ss # <<>>
    PROVE  \E flat : Flat(flat, ss, Len(ss)) /\ FlattenSeq(ss) = flat[Len(ss)]
<1> DEFINE P(n) == \E f : Flat(f, ss, n)
           T == {n \in 1..Len(ss) : P(n)}
<1>0. Len(ss) \in Nat \ {0}
  OBVIOUS
<1>1. P(1)
  <2> DEFINE g == [i \in 1..1 |-> ss[i]]
  <2>1. Flat(g, ss, 1)
    BY DEF Flat
  <2> QED
    BY <2>1
<1>2. ASSUME NEW n \in 2..Len(ss), P(n-1)
      PROVE  P(n)
  <2>1. PICK f : Flat(f, ss, n-1)
    BY <1>2
  <2> DEFINE g == [i \in 1..n |-> IF i < n THEN f[i] ELSE f[n-1] \o ss[n]]
  <2>2. \A i \in 1..n-1 : f[i] = IF i = 1 THEN ss[i] ELSE f[i-1] \o ss[i]
    BY <2>1 DEF Flat
  <2>3. \A i \in 1..n : g[i] = IF i = 1 THEN ss[i] ELSE g[i-1] \o ss[i]
    BY <2>2, <1>2
  <2>4. Flat(g, ss, n)
    BY <2>3 DEF Flat
  <2> QED
    BY <2>4
<1>3. T = 1..Len(ss)
  <2>1. /\ T \in SUBSET (1..Len(ss))
        /\ 1 \in T
        /\ \A n \in 2..Len(ss) : n-1 \in T => n \in T
    <3>1. 1 \in T
      BY <1>0, <1>1
    <3>2. ASSUME NEW n \in 2..Len(ss), n-1 \in T PROVE n \in T
      <4>1. P(n-1)
        BY <3>2
      <4> HIDE DEF P
      <4>2. P(n)
        BY <4>1, <1>2
      <4> QED
        BY <4>2
    <3> QED
      BY <3>1, <3>2
  <2> HIDE DEF T
  <2> QED
    BY <2>1, <1>0, UpTo
<1>4. P(Len(ss))
  <2>1. Len(ss) \in 1..Len(ss)
    BY <1>0
  <2> QED
    BY <1>3, <2>1
<1> QED
  BY <1>4, <1>0 DEF FlattenSeq, Flat

-----------------------------------------------------------------------------
(* What storing a sequence of entries comes to *)

Keys == {"schema", "cluster", "master", "rd", "logPool", "iRules"}
Entries ==
    [kind : {"value"}, key : Keys, value : Clusters \cup {NoCluster} \cup BOOLEAN \cup Settings] \cup
    [kind : {"partition"}, key : Partitions, value : TenantRecord] \cup
    [kind : {"namespace"}, key : Namespaces, value : TenantRecord]

Match(e, kind, key) == e.kind = kind /\ e.key = key

\* From some entry on, kind and key are given value v and no other.
Ends(s, kind, key, v) ==
    \E k \in 1..Len(s) :
        /\ Match(s[k], kind, key)
        /\ \A j \in k..Len(s) : Match(s[j], kind, key) => s[j].value = v

Silent(s, kind, key) == \A k \in 1..Len(s) : ~Match(s[k], kind, key)

\* A namespace comes after the tenant that has it.
InOrder(s) ==
    \A k \in 1..Len(s) : s[k].kind = "namespace" =>
        \E j \in 1..(k-1) : Match(s[j], "partition", s[k].value.name)

\* What a sequence says is what its second part says, or else its first.
LEMMA Appended ==
    ASSUME NEW A, NEW s \in Seq(A), NEW t \in Seq(A), NEW kind, NEW key, NEW v
    PROVE  /\ Ends(t, kind, key, v) => Ends(s \o t, kind, key, v)
           /\ Ends(s, kind, key, v) /\ Silent(t, kind, key) => Ends(s \o t, kind, key, v)
           /\ Silent(s, kind, key) /\ Silent(t, kind, key) => Silent(s \o t, kind, key)
<1> DEFINE u == s \o t
<1>1. /\ u \in Seq(A) /\ Len(u) = Len(s) + Len(t)
      /\ Len(s) \in Nat /\ Len(t) \in Nat
      /\ \A k \in 1..Len(s) : u[k] = s[k]
      /\ \A k \in 1..Len(t) : u[Len(s) + k] = t[k]
      /\ \A k \in Len(s)+1..Len(u) : k - Len(s) \in 1..Len(t) /\ u[k] = t[k - Len(s)]
  OBVIOUS
<1> HIDE DEF u
<1>2. ASSUME Ends(t, kind, key, v) PROVE Ends(u, kind, key, v)
  <2>1. PICK k \in 1..Len(t) :
            /\ Match(t[k], kind, key)
            /\ \A j \in k..Len(t) : Match(t[j], kind, key) => t[j].value = v
    BY <1>2 DEF Ends
  <2>2. Len(s) + k \in 1..Len(u) /\ Match(u[Len(s) + k], kind, key)
    BY <1>1, <2>1
  <2>3. ASSUME NEW j \in (Len(s) + k)..Len(u), Match(u[j], kind, key)
        PROVE  u[j].value = v
    <3>1. j - Len(s) \in k..Len(t) /\ u[j] = t[j - Len(s)]
      BY <1>1
    <3> QED
      BY <2>1, <2>3, <3>1
  <2> QED
    BY <2>2, <2>3 DEF Ends
<1>3. ASSUME Ends(s, kind, key, v), Silent(t, kind, key) PROVE Ends(u, kind, key, v)
  <2>1. PICK k \in 1..Len(s) :
            /\ Match(s[k], kind, key)
            /\ \A j \in k..Len(s) : Match(s[j], kind, key) => s[j].value = v
    BY <1>3 DEF Ends
  <2>2. k \in 1..Len(u) /\ Match(u[k], kind, key)
    BY <1>1, <2>1
  <2>3. ASSUME NEW j \in k..Len(u), Match(u[j], kind, key)
        PROVE  u[j].value = v
    <3>1. CASE j <= Len(s)
      BY <1>1, <2>1, <2>3, <3>1
    <3>2. CASE j > Len(s)
      <4>1. j - Len(s) \in 1..Len(t) /\ u[j] = t[j - Len(s)]
        BY <1>1, <3>2
      <4> QED
        BY <1>3, <2>3, <4>1 DEF Silent
    <3> QED
      BY <3>1, <3>2
  <2> QED
    BY <2>2, <2>3 DEF Ends
<1>4. ASSUME Silent(s, kind, key), Silent(t, kind, key) PROVE Silent(u, kind, key)
  <2> SUFFICES ASSUME NEW j \in 1..Len(u) PROVE ~Match(u[j], kind, key)
    BY DEF Silent
  <2>1. CASE j <= Len(s)
    BY <1>1, <1>4, <2>1 DEF Silent
  <2>2. CASE j > Len(s)
    <3>1. j - Len(s) \in 1..Len(t) /\ u[j] = t[j - Len(s)]
      BY <1>1, <2>2
    <3> QED
      BY <1>4, <3>1 DEF Silent
  <2> QED
    BY <2>1, <2>2
<1> QED
  BY <1>2, <1>3, <1>4 DEF u

LEMMA AppendedInOrder ==
    ASSUME NEW A, NEW s \in Seq(A), NEW t \in Seq(A), InOrder(s), InOrder(t)
    PROVE  InOrder(s \o t)
<1> DEFINE u == s \o t
<1>1. /\ Len(u) = Len(s) + Len(t)
      /\ Len(s) \in Nat /\ Len(t) \in Nat
      /\ \A k \in 1..Len(s) : u[k] = s[k]
      /\ \A k \in 1..Len(t) : u[Len(s) + k] = t[k]
      /\ \A k \in Len(s)+1..Len(u) : k - Len(s) \in 1..Len(t) /\ u[k] = t[k - Len(s)]
  OBVIOUS
<1> HIDE DEF u
<1> SUFFICES ASSUME NEW k \in 1..Len(u), u[k].kind = "namespace"
             PROVE  \E j \in 1..(k-1) : Match(u[j], "partition", u[k].value.name)
  BY DEF u, InOrder
<1>2. CASE k <= Len(s)
  <2>1. k \in 1..Len(s) /\ u[k] = s[k]
    BY <1>1, <1>2
  <2>2. PICK j \in 1..(k-1) : Match(s[j], "partition", s[k].value.name)
    BY <2>1 DEF InOrder
  <2> QED
    BY <1>1, <2>1, <2>2
<1>3. CASE k > Len(s)
  <2>1. k - Len(s) \in 1..Len(t) /\ u[k] = t[k - Len(s)]
    BY <1>1, <1>3
  <2>2. PICK j \in 1..(k - Len(s) - 1) : Match(t[j], "partition", t[k - Len(s)].value.name)
    BY <2>1 DEF InOrder
  <2>3. Len(s) + j \in 1..(k-1) /\ u[Len(s) + j] = t[j]
    BY <1>1, <2>1, <2>2
  <2> QED
    BY <2>1, <2>2, <2>3
<1> QED
  BY <1>1, <1>2, <1>3

\* A flattened sequence says what the last of its sequences says that says anything.
LEMMA Flattened ==
    ASSUME NEW ss \in Seq(Seq(Entries)), ss # <<>>,
           \A i \in 1..Len(ss) : InOrder(ss[i])
    PROVE  /\ FlattenSeq(ss) \in Seq(Entries)
           /\ InOrder(FlattenSeq(ss))
           /\ \A kind, key :
                (\A i \in 1..Len(ss) : Silent(ss[i], kind, key)) =>
                    Silent(FlattenSeq(ss), kind, key)
           /\ \A kind, key, v : \A i \in 1..Len(ss) :
                /\ Ends(ss[i], kind, key, v)
                /\ \A j \in (i+1)..Len(ss) : Silent(ss[j], kind, key)
                => Ends(FlattenSeq(ss), kind, key, v)
<1>0. Len(ss) \in Nat \ {0} /\ \A i \in 1..Len(ss) : ss[i] \in Seq(Entries)
  OBVIOUS
<1>1. PICK flat : Flat(flat, ss, Len(ss)) /\ FlattenSeq(ss) = flat[Len(ss)]
  BY FlatExists
<1> DEFINE N == Len(ss)
<1>2. N \in Nat \ {0}
  BY <1>0
<1>3. \A i \in 1..N : flat[i] = IF i = 1 THEN ss[i] ELSE flat[i-1] \o ss[i]
  BY <1>1 DEF Flat
<1>4. /\ flat[1] = ss[1]
      /\ \A n \in 2..N : /\ n \in 1..N /\ n-1 \in 1..N
                         /\ flat[n] = flat[n-1] \o ss[n]
  <2> HIDE DEF N
  <2>1. 1 \in 1..N
    BY <1>2
  <2>2. ASSUME NEW n \in 2..N
        PROVE  n \in 1..N /\ n-1 \in 1..N /\ n # 1
    BY <1>2
  <2>3. ASSUME NEW n \in 2..N PROVE flat[n] = flat[n-1] \o ss[n]
    BY ONLY <1>3, <2>2
  <2> QED
    BY <1>3, <2>1, <2>2, <2>3
<1>5. \A i \in 1..N : ss[i] \in Seq(Entries) /\ InOrder(ss[i])
  BY <1>0
<1> HIDE DEF N
<1>6. \A n \in 1..N : flat[n] \in Seq(Entries) /\ InOrder(flat[n])
  <2> DEFINE T == {n \in 1..N : flat[n] \in Seq(Entries) /\ InOrder(flat[n])}
  <2>1. 1 \in T
    BY <1>2, <1>5, <1>4
  <2>2. ASSUME NEW n \in 2..N, n-1 \in T PROVE n \in T
    <3>1. /\ flat[n-1] \in Seq(Entries) /\ InOrder(flat[n-1])
          /\ ss[n] \in Seq(Entries) /\ InOrder(ss[n]) /\ n \in 1..N
          /\ flat[n] = flat[n-1] \o ss[n]
      BY <1>2, <1>5, <1>4, <2>2
    <3>2. flat[n] \in Seq(Entries)
      BY <3>1
    <3>3. InOrder(flat[n])
      BY <3>1, AppendedInOrder
    <3> QED
      BY <3>1, <3>2, <3>3
  <2>3. T \in SUBSET (1..N)
    OBVIOUS
  <2>4. T = 1..N
    <3> HIDE DEF T
    <3> QED
      BY <1>2, <1>5, <2>1, <2>2, <2>3, UpTo
  <2> QED
    BY <2>4
<1>7. ASSUME NEW kind, NEW key, \A i \in 1..N : Silent(ss[i], kind, key)
      PROVE  Silent(flat[N], kind, key)
  <2> DEFINE T == {n \in 1..N : Silent(flat[n], kind, key)}
  <2>1. 1 \in T
    BY <1>2, <1>5, <1>4, <1>7
  <2>2. ASSUME NEW n \in 2..N, n-1 \in T PROVE n \in T
    <3>1. /\ flat[n-1] \in Seq(Entries) /\ Silent(flat[n-1], kind, key)
          /\ ss[n] \in Seq(Entries) /\ Silent(ss[n], kind, key) /\ n \in 1..N
          /\ flat[n] = flat[n-1] \o ss[n]
      BY <1>2, <1>5, <1>4, <1>6, <1>7, <2>2
    <3>2. Silent(flat[n], kind, key)
      BY <3>1, Appended
    <3> QED
      BY <3>1, <3>2
  <2>3. T \in SUBSET (1..N)
    OBVIOUS
  <2>4. T = 1..N
    <3> HIDE DEF T
    <3> QED
      BY <1>2, <1>5, <2>1, <2>2, <2>3, UpTo
  <2> QED
    BY <1>2, <1>5, <2>4
<1>8. ASSUME NEW kind, NEW key, NEW v, NEW i \in 1..N,
             Ends(ss[i], kind, key, v),
             \A j \in (i+1)..N : Silent(ss[j], kind, key)
      PROVE  Ends(flat[N], kind, key, v)
  <2> DEFINE T == {n \in 1..N : n >= i => Ends(flat[n], kind, key, v)}
  <2>1. ASSUME NEW n \in 2..N, n >= i, n > i => Ends(flat[n-1], kind, key, v)
        PROVE  Ends(flat[n], kind, key, v)
    <3>1. /\ flat[n-1] \in Seq(Entries) /\ ss[n] \in Seq(Entries)
          /\ flat[n] = flat[n-1] \o ss[n]
      BY <1>2, <1>5, <1>4, <1>6
    <3>2. CASE n = i
      BY <1>8, <3>1, <3>2, Appended
    <3>3. CASE n > i
      <4>1. Silent(ss[n], kind, key)
        BY <1>8, <3>3
      <4> QED
        BY <2>1, <3>1, <3>3, <4>1, Appended
    <3> QED
      BY <2>1, <3>2, <3>3
  <2>2. 1 \in T
    <3>1. 1 >= i => i = 1
      OBVIOUS
    <3> QED
      BY <1>2, <1>5, <1>4, <1>8, <3>1
  <2>3. ASSUME NEW n \in 2..N, n-1 \in T PROVE n \in T
    <3>1. n \in 1..N /\ (n > i => n-1 >= i)
      OBVIOUS
    <3>2. n > i => Ends(flat[n-1], kind, key, v)
      BY <2>3, <3>1
    <3>3. n >= i => Ends(flat[n], kind, key, v)
      BY <2>1, <3>2
    <3> QED
      BY <3>1, <3>3
  <2>4. T \in SUBSET (1..N)
    OBVIOUS
  <2>5. T = 1..N
    <3> HIDE DEF T
    <3> QED
      BY <1>2, <1>5, <2>2, <2>3, <2>4, UpTo
  <2>6. N \in 1..N /\ N >= i
    BY <1>2
  <2>7. N \in T
    BY ONLY <2>5, <2>6
  <2> QED
    BY ONLY <2>6, <2>7
<1> QED
  BY <1>1, <1>6, <1>7, <1>8, <1>2 DEF N

-----------------------------------------------------------------------------
(* What a file is stored as *)

LEMMA RoutedTyped ==
    ASSUME NEW t \in TenantRecord
    PROVE  /\ Routed(t) \in TenantRecord
           /\ Routed(t).name = t.name /\ Routed(t).namespaces = t.namespaces
  BY ConfigAssumption DEF Routed, TenantRecord

\* cacheTenantConfigForParttition once, then cacheTenantConfigForNamespace for each
\* namespace.
LEMMA TenantEntries ==
    ASSUME NEW t \in TenantRecord
    PROVE  /\ EntriesOf(t) \in Seq(Entries)
           /\ InOrder(EntriesOf(t))
           /\ Ends(EntriesOf(t), "partition", t.name, t)
           /\ \A ns \in Range(t.namespaces) : Ends(EntriesOf(t), "namespace", ns, t)
           /\ \A p : p # t.name => Silent(EntriesOf(t), "partition", p)
           /\ \A ns : ns \notin Range(t.namespaces) => Silent(EntriesOf(t), "namespace", ns)
           /\ \A k : Silent(EntriesOf(t), "value", k)
<1> DEFINE L == Len(t.namespaces)
           s == EntriesOf(t)
<1>1. /\ t.name \in Partitions /\ t.namespaces \in Seq(Namespaces)
      /\ L \in Nat /\ DOMAIN t.namespaces = 1..L
      /\ \A i \in 1..L : t.namespaces[i] \in Namespaces
  BY DEF TenantRecord
<1>2. Entry("partition", t.name, t) \in Entries
  BY <1>1 DEF Entry, Entries
<1>3. \A i \in 1..L : Entry("namespace", t.namespaces[i], t) \in Entries
  BY <1>1 DEF Entry, Entries
<1> DEFINE rest == [i \in 1..L |-> Entry("namespace", t.namespaces[i], t)]
<1>4. rest \in Seq(Entries) /\ Len(rest) = L
  <2>1. rest \in [1..L -> Entries]
    BY <1>3
  <2> QED
    BY <1>1, <2>1
<1>5. s = <<Entry("partition", t.name, t)>> \o rest
  BY <1>1 DEF EntriesOf
<1>6. /\ s \in Seq(Entries) /\ Len(s) = L + 1
      /\ s[1] = Entry("partition", t.name, t)
      /\ \A i \in 1..L : s[i+1] = Entry("namespace", t.namespaces[i], t)
  <2> DEFINE e == Entry("partition", t.name, t)
  <2>1. s = <<e>> \o rest /\ e \in Entries
    BY <1>2, <1>5
  <2>2. \A i \in 1..L : rest[i] = Entry("namespace", t.namespaces[i], t)
    OBVIOUS
  <2> HIDE DEF e, rest, s
  <2>3. /\ s \in Seq(Entries) /\ Len(s) = L + 1 /\ s[1] = e
        /\ \A i \in 1..L : s[i+1] = rest[i]
    BY <1>1, <1>4, <2>1
  <2> QED
    BY <2>2, <2>3 DEF e
<1> HIDE DEF s, L
<1>7. /\ s[1].kind = "partition" /\ s[1].key = t.name /\ s[1].value = t
      /\ \A k \in 2..(L+1) : /\ k-1 \in 1..L
                             /\ s[k].kind = "namespace" /\ s[k].value = t
                             /\ s[k].key = t.namespaces[k-1]
  <2>1. s[1].kind = "partition" /\ s[1].key = t.name /\ s[1].value = t
    BY <1>6 DEF Entry
  <2>2. ASSUME NEW k \in 2..(L+1)
        PROVE  /\ k-1 \in 1..L
               /\ s[k].kind = "namespace" /\ s[k].value = t
               /\ s[k].key = t.namespaces[k-1]
    <3>1. k-1 \in 1..L /\ (k-1)+1 = k
      BY <1>1
    <3>2. s[k] = Entry("namespace", t.namespaces[k-1], t)
      BY <1>6, <3>1
    <3> QED
      BY <3>1, <3>2 DEF Entry
  <2> QED
    BY <2>1, <2>2
<1>8. \A k \in 1..Len(s) : k = 1 \/ k \in 2..(L+1)
  BY <1>1, <1>6
<1>9. 1 \in 1..Len(s)
  BY <1>1, <1>6
<1>10. InOrder(s)
  <2> SUFFICES ASSUME NEW k \in 1..Len(s), s[k].kind = "namespace"
               PROVE  \E j \in 1..(k-1) : Match(s[j], "partition", s[k].value.name)
    BY DEF InOrder
  <2>1. k \in 2..(L+1)
    BY <1>7, <1>8
  <2>2. 1 \in 1..(k-1)
    BY <2>1
  <2> QED
    BY <1>7, <2>1, <2>2 DEF Match
<1>11. Ends(s, "partition", t.name, t)
  <2>1. \A j \in 1..Len(s) : s[j].value = t
    BY <1>7, <1>8
  <2> QED
    BY <1>7, <1>9, <2>1 DEF Ends, Match
<1>12. ASSUME NEW ns \in Range(t.namespaces) PROVE Ends(s, "namespace", ns, t)
  <2>1. PICK i \in 1..L : t.namespaces[i] = ns
    BY <1>1 DEF Range
  <2>2. i+1 \in 2..(L+1) /\ (i+1)-1 = i /\ i+1 \in 1..Len(s)
    BY <1>1, <1>6
  <2>3. Match(s[i+1], "namespace", ns)
    BY <1>7, <2>1, <2>2 DEF Match
  <2>4. \A j \in (i+1)..Len(s) : j \in 1..Len(s)
    BY <2>2
  <2>5. \A j \in (i+1)..Len(s) : s[j].value = t
    BY <1>7, <1>8, <2>4
  <2> QED
    BY <2>2, <2>3, <2>5 DEF Ends
<1>13. ASSUME NEW p, p # t.name PROVE Silent(s, "partition", p)
  BY <1>7, <1>8, <1>13 DEF Silent, Match
<1>14. ASSUME NEW ns, ns \notin Range(t.namespaces) PROVE Silent(s, "namespace", ns)
  <2>1. \A i \in 1..L : t.namespaces[i] # ns
    BY <1>1, <1>14 DEF Range
  <2> QED
    BY <1>7, <1>8, <2>1 DEF Silent, Match
<1>15. ASSUME NEW k PROVE Silent(s, "value", k)
  BY <1>7, <1>8 DEF Silent, Match
<1> QED
  BY <1>6, <1>10, <1>11, <1>12, <1>13, <1>14, <1>15 DEF s

LEMMA SettingEntries ==
    ASSUME NEW f \in As3Config
    PROVE  /\ SettingsOf(f) \in Seq(Entries)
           /\ InOrder(SettingsOf(f))
           /\ Ends(SettingsOf(f), "value", "rd", f.rd)
           /\ \A kind, key : kind # "value" => Silent(SettingsOf(f), kind, key)
<1> DEFINE s == SettingsOf(f)
           master == IF f.master = NoCluster THEN f.cluster ELSE f.master
<1>1. /\ f.other \in Settings /\ f.cluster \in Clusters \cup {NoCluster} /\ master \in Clusters \cup {NoCluster}
      /\ f.rd \in BOOLEAN
  BY DEF As3Config
<1>2. s = << Entry("value", "schema", f.other), Entry("value", "cluster", f.cluster),
             Entry("value", "master", master), Entry("value", "rd", f.rd),
             Entry("value", "logPool", f.other), Entry("value", "iRules", f.other) >>
  BY DEF SettingsOf
<1> HIDE DEF s, master
<1> DEFINE V == Clusters \cup {NoCluster} \cup BOOLEAN \cup Settings
<1>3. \A key \in Keys, v \in V : Entry("value", key, v) \in Entries
  BY DEF Entry, Entries
<1>4. /\ s \in Seq(Entries) /\ Len(s) = 6
  <2>1. \A a, b, c, d, e, g \in Entries :
            <<a, b, c, d, e, g>> \in Seq(Entries) /\ Len(<<a, b, c, d, e, g>>) = 6
    OBVIOUS
  <2>2. /\ Entry("value", "schema", f.other) \in Entries
        /\ Entry("value", "cluster", f.cluster) \in Entries
        /\ Entry("value", "master", master) \in Entries
        /\ Entry("value", "rd", f.rd) \in Entries
        /\ Entry("value", "logPool", f.other) \in Entries
        /\ Entry("value", "iRules", f.other) \in Entries
    <3>1. f.other \in V /\ f.cluster \in V /\ master \in V
      BY <1>1
    <3>2. f.rd \in V
      BY <1>1, Zenon
    <3>3. \A k \in {"schema", "cluster", "master", "rd", "logPool", "iRules"} : k \in Keys
      BY DEF Keys
    <3> HIDE DEF V
    <3> QED
      BY ONLY <1>3, <3>1, <3>2, <3>3
  <2> QED
    BY <1>2, <2>1, <2>2
<1>5. \A k \in 1..6 : s[k].kind = "value"
  BY <1>2 DEF Entry
<1>6. s[4].key = "rd" /\ s[4].value = f.rd /\ s[5].key = "logPool" /\ s[6].key = "iRules"
  BY <1>2 DEF Entry
<1>7. Ends(s, "value", "rd", f.rd)
  <2>1. \A j \in 4..6 : j = 4 \/ j = 5 \/ j = 6
    OBVIOUS
  <2> QED
    BY <1>4, <1>5, <1>6, <2>1 DEF Ends, Match
<1>8. ASSUME NEW kind, NEW key, kind # "value" PROVE Silent(s, kind, key)
  BY <1>4, <1>5, <1>8 DEF Silent, Match
<1>9. InOrder(s)
  BY <1>4, <1>5 DEF InOrder
<1> QED
  BY <1>4, <1>7, <1>8, <1>9 DEF s

\* Some tenant of f has namespace ns; the last one that has it.
Lists(f, ns) == \E i \in DOMAIN f.tenants : ns \in Range(f.tenants[i].namespaces)
TenantOf(f, ns) ==
    LET listing == {i \in DOMAIN f.tenants : ns \in Range(f.tenants[i].namespaces)}
    IN  Routed(f.tenants[CHOOSE i \in listing : \A j \in listing : j <= i])

\* What initTenantConfig stores, in the end, is what the file says.
LEMMA WorkSays ==
    ASSUME NEW f \in As3Config
    PROVE  /\ Work(f) \in Seq(Entries)
           /\ InOrder(Work(f))
           /\ Ends(Work(f), "value", "rd", f.rd)
           /\ \A p : TenantIn(f, p) # Unknown =>
                    Ends(Work(f), "partition", p, TenantIn(f, p))
           /\ \A ns : Lists(f, ns) => Ends(Work(f), "namespace", ns, TenantOf(f, ns))
<1> DEFINE N == Len(f.tenants)
           t(i) == Routed(f.tenants[i])
           ss == [i \in 1..N |-> EntriesOf(t(i))]
           S == SettingsOf(f)
<1>1. /\ f.tenants \in Seq(TenantRecord) /\ N \in Nat /\ DOMAIN f.tenants = 1..N
      /\ \A i \in 1..N : f.tenants[i] \in TenantRecord
  BY DEF As3Config
<1>2. \A i \in 1..N : /\ t(i) \in TenantRecord /\ t(i).name = f.tenants[i].name
                      /\ t(i).namespaces = f.tenants[i].namespaces
  BY <1>1, RoutedTyped
<1>3. \A i \in 1..N :
        /\ ss[i] \in Seq(Entries)
        /\ InOrder(ss[i])
        /\ Ends(ss[i], "partition", t(i).name, t(i))
        /\ \A ns \in Range(t(i).namespaces) : Ends(ss[i], "namespace", ns, t(i))
        /\ \A p : p # t(i).name => Silent(ss[i], "partition", p)
        /\ \A ns : ns \notin Range(t(i).namespaces) => Silent(ss[i], "namespace", ns)
        /\ \A k : Silent(ss[i], "value", k)
  <2> SUFFICES ASSUME NEW i \in 1..N
               PROVE  /\ EntriesOf(t(i)) \in Seq(Entries)
                      /\ InOrder(EntriesOf(t(i)))
                      /\ Ends(EntriesOf(t(i)), "partition", t(i).name, t(i))
                      /\ \A ns \in Range(t(i).namespaces) :
                            Ends(EntriesOf(t(i)), "namespace", ns, t(i))
                      /\ \A p : p # t(i).name => Silent(EntriesOf(t(i)), "partition", p)
                      /\ \A ns : ns \notin Range(t(i).namespaces) =>
                            Silent(EntriesOf(t(i)), "namespace", ns)
                      /\ \A k : Silent(EntriesOf(t(i)), "value", k)
    OBVIOUS
  <2>1. t(i) \in TenantRecord
    BY <1>2
  <2> HIDE DEF t
  <2> QED
    BY <2>1, TenantEntries
<1>4. Work(f) = S \o FlattenSeq(ss)
  BY <1>1 DEF Work
<1>5. ss \in Seq(Seq(Entries)) /\ Len(ss) = N
  <2>1. ss \in [1..N -> Seq(Entries)]
    BY <1>3
  <2> QED
    BY <1>1, <2>1
<1>6. /\ S \in Seq(Entries) /\ InOrder(S) /\ Ends(S, "value", "rd", f.rd)
  BY SettingEntries
<1> HIDE DEF S, ss, N
<1>7. CASE N = 0
  <2>1. ss = <<>> /\ FlattenSeq(ss) = <<>> /\ Work(f) = S
    <3>1. ss = <<>>
      BY <1>5, <1>7
    <3>2. FlattenSeq(ss) = <<>>
      BY <1>5, <1>7, <3>1 DEF FlattenSeq
    <3> QED
      BY <1>4, <1>6, <3>1, <3>2
  <2>2. \A p : TenantIn(f, p) = Unknown
    BY <1>1, <1>7 DEF TenantIn
  <2> QED
    BY <1>1, <1>6, <1>7, <2>1, <2>2 DEF Lists
<1>8. CASE N # 0
  <2> DEFINE F == FlattenSeq(ss)
  <2>1. ss # <<>> /\ \A i \in 1..Len(ss) : InOrder(ss[i])
    BY <1>3, <1>5, <1>8
  <2>2. /\ F \in Seq(Entries) /\ InOrder(F)
        /\ \A kind, key : (\A i \in 1..N : Silent(ss[i], kind, key)) => Silent(F, kind, key)
        /\ \A kind, key, v : \A i \in 1..N :
             /\ Ends(ss[i], kind, key, v)
             /\ \A j \in (i+1)..N : Silent(ss[j], kind, key)
             => Ends(F, kind, key, v)
    BY <1>5, <2>1, Flattened
  <2> HIDE DEF F
  <2>3. Work(f) = S \o F
    BY <1>4 DEF F
  <2>4. Work(f) \in Seq(Entries) /\ InOrder(Work(f))
    BY <1>6, <2>2, <2>3, AppendedInOrder
  <2>5. Ends(Work(f), "value", "rd", f.rd)
    <3>1. Silent(F, "value", "rd")
      BY <1>3, <2>2
    <3> QED
      BY <1>6, <2>2, <2>3, <3>1, Appended
  <2>6. ASSUME NEW kind, NEW key, NEW v, NEW i \in 1..N, Ends(ss[i], kind, key, v),
               \A j \in (i+1)..N : Silent(ss[j], kind, key)
        PROVE  Ends(Work(f), kind, key, v)
    <3>1. Ends(F, kind, key, v)
      BY <2>2, <2>6
    <3> QED
      BY <1>6, <2>2, <2>3, <3>1, Appended
  <2>7. ASSUME NEW p, TenantIn(f, p) # Unknown
        PROVE  Ends(Work(f), "partition", p, TenantIn(f, p))
    <3> DEFINE named == {i \in 1..N : f.tenants[i].name = p}
               i == CHOOSE i \in named : \A j \in named : j <= i
    <3>1. named # {} /\ TenantIn(f, p) = t(i)
      BY <1>1, <2>7 DEF TenantIn
    <3>2. \E k \in named : \A j \in named : j <= k
      <4>1. named \in SUBSET (1..N)
        OBVIOUS
      <4> HIDE DEF named
      <4> QED
        BY <1>1, <3>1, <4>1, Greatest
    <3>3. i \in named /\ \A j \in named : j <= i
      <4> HIDE DEF named
      <4> QED
        BY <3>2
    <3> HIDE DEF i
    <3>4. i \in 1..N /\ f.tenants[i].name = p
      BY <3>3
    <3>5. \A j \in (i+1)..N : j \in 1..N /\ f.tenants[j].name # p
      BY <1>1, <3>3
    <3>6. Ends(ss[i], "partition", p, t(i))
      BY <1>2, <1>3, <3>4
    <3>7. \A j \in (i+1)..N : Silent(ss[j], "partition", p)
      BY <1>2, <1>3, <3>5
    <3> QED
      BY <2>6, <3>1, <3>4, <3>6, <3>7
  <2>8. ASSUME NEW ns, Lists(f, ns)
        PROVE  Ends(Work(f), "namespace", ns, TenantOf(f, ns))
    <3> DEFINE listing == {i \in 1..N : ns \in Range(f.tenants[i].namespaces)}
               i == CHOOSE i \in listing : \A j \in listing : j <= i
    <3>1. listing # {} /\ TenantOf(f, ns) = t(i)
      BY <1>1, <2>8 DEF Lists, TenantOf
    <3>2. \E k \in listing : \A j \in listing : j <= k
      <4>1. listing \in SUBSET (1..N)
        OBVIOUS
      <4> HIDE DEF listing
      <4> QED
        BY <1>1, <3>1, <4>1, Greatest
    <3>3. i \in listing /\ \A j \in listing : j <= i
      <4> HIDE DEF listing
      <4> QED
        BY <3>2
    <3> HIDE DEF i
    <3>4. i \in 1..N /\ ns \in Range(f.tenants[i].namespaces)
      BY <3>3
    <3>5. \A j \in (i+1)..N : j \in 1..N /\ ns \notin Range(f.tenants[j].namespaces)
      BY <1>1, <3>3
    <3>6. Ends(ss[i], "namespace", ns, t(i))
      BY <1>2, <1>3, <3>4
    <3>7. \A j \in (i+1)..N : Silent(ss[j], "namespace", ns)
      BY <1>2, <1>3, <3>5
    <3> QED
      BY <2>6, <3>1, <3>4, <3>6, <3>7
  <2> QED
    BY <2>4, <2>5, <2>7, <2>8
<1> QED
  BY <1>1, <1>7, <1>8

\* Nothing read is stored as settings alone.
LEMMA WorkOfNothing ==
    \A k \in 1..Len(Work(Zero)) : Work(Zero)[k].kind # "partition"
<1> DEFINE s == SettingsOf(Zero)
<1>1. Zero \in As3Config /\ Zero.tenants = <<>>
  BY ConfigAssumption
<1>2. s \in Seq(Entries) /\ \A key : Silent(s, "partition", key)
  BY <1>1, SettingEntries
<1>3. FlattenSeq(<<>>) = <<>>
  BY DEF FlattenSeq
<1>4. Work(Zero) = s \o FlattenSeq(<<>>)
  <2>1. [i \in DOMAIN Zero.tenants |-> EntriesOf(Routed(Zero.tenants[i]))] = <<>>
    BY <1>1
  <2> QED
    BY <2>1 DEF Work
<1> HIDE DEF s
<1>5. Work(Zero) = s
  BY <1>2, <1>3, <1>4
<1>6. ASSUME NEW k \in 1..Len(s) PROVE s[k].kind # "partition"
  BY <1>2 DEF Silent, Match
<1> QED
  BY <1>5, <1>6

-----------------------------------------------------------------------------
(* Storing one entry *)

\* The map has v under key once the entries of s are stored too.
Will(map, s, kind, key, v) ==
    \/ Ends(s, kind, key, v)
    \/ /\ key \in DOMAIN map /\ map[key] = v
       /\ \A k \in 1..Len(s) : Match(s[k], kind, key) => s[k].value = v

\* It has something there by then.
Soon(map, s, kind, key) ==
    key \in DOMAIN map \/ \E k \in 1..Len(s) : Match(s[k], kind, key)

LEMMA PutIs ==
    ASSUME NEW map, NEW e
    PROVE  /\ DOMAIN Put(map, e) = DOMAIN map \cup {e.key}
           /\ Put(map, e)[e.key] = e.value
           /\ \A k \in DOMAIN map : k # e.key => Put(map, e)[k] = map[k]
           /\ \A A : /\ e.value \in A
                     /\ map \in [DOMAIN map -> A]
                     => Put(map, e) \in [DOMAIN Put(map, e) -> A]
<1>1. DOMAIN Put(map, e) = DOMAIN map \cup {e.key}
  BY DEF Put
<1>2. \A k \in DOMAIN map \cup {e.key} :
        Put(map, e)[k] = IF k = e.key THEN e.value ELSE map[k]
  BY DEF Put
<1>3. ASSUME NEW A, e.value \in A, map \in [DOMAIN map -> A]
      PROVE  Put(map, e) \in [DOMAIN Put(map, e) -> A]
  <2>1. \A k \in DOMAIN map : map[k] \in A
    BY <1>3
  <2> QED
    BY <1>3, <2>1 DEF Put
<1> QED
  BY <1>1, <1>2, <1>3

LEMMA PutTyped ==
    ASSUME NEW A, NEW K, NEW map, map \in [DOMAIN map -> A], DOMAIN map \subseteq K,
           NEW e, e.key \in K, e.value \in A
    PROVE  /\ DOMAIN Put(map, e) \subseteq K
           /\ Put(map, e) \in [DOMAIN Put(map, e) -> A]
           /\ DOMAIN map \subseteq DOMAIN Put(map, e)
           /\ e.key \in DOMAIN Put(map, e)
           /\ \A k \in DOMAIN Put(map, e) :
                \/ k = e.key /\ Put(map, e)[k] = e.value
                \/ k \in DOMAIN map /\ Put(map, e)[k] = map[k]
<1>1. DOMAIN Put(map, e) = DOMAIN map \cup {e.key}
  BY PutIs
<1>2. Put(map, e) \in [DOMAIN Put(map, e) -> A]
  BY PutIs
<1>3. \A k \in DOMAIN map \cup {e.key} :
        Put(map, e)[k] = IF k = e.key THEN e.value ELSE map[k]
  BY DEF Put
<1> QED
  BY <1>1, <1>2, <1>3

LEMMA TailIs ==
    ASSUME NEW A, NEW s \in Seq(A), s # <<>>
    PROVE  /\ Tail(s) \in Seq(A) /\ Head(s) \in A /\ Head(s) = s[1]
           /\ \A k \in 1..Len(Tail(s)) : k+1 \in 1..Len(s) /\ Tail(s)[k] = s[k+1]
           /\ \A k \in 2..Len(s) : k-1 \in 1..Len(Tail(s)) /\ Tail(s)[k-1] = s[k]
           /\ 1 \in 1..Len(s)
  OBVIOUS

\* What will be in a map still will when the first entry is stored.
LEMMA WillStay ==
    ASSUME NEW A, NEW s \in Seq(A), s # <<>>, NEW map, NEW kind, NEW key, NEW v,
           NEW after, after = IF Head(s).kind = kind THEN Put(map, Head(s)) ELSE map
    PROVE  /\ Will(map, s, kind, key, v) => Will(after, Tail(s), kind, key, v)
           /\ Soon(map, s, kind, key) => Soon(after, Tail(s), kind, key)
<1> DEFINE t == Tail(s)
           e == Head(s)
<1>1. /\ t \in Seq(A) /\ e = s[1] /\ Len(s) \in Nat /\ Len(t) \in Nat
      /\ \A k \in 1..Len(t) : k+1 \in 1..Len(s) /\ t[k] = s[k+1]
      /\ \A k \in 2..Len(s) : k-1 \in 1..Len(t) /\ t[k-1] = s[k]
      /\ 1 \in 1..Len(s)
  BY TailIs
<1>2. /\ DOMAIN Put(map, e) = DOMAIN map \cup {e.key}
      /\ Put(map, e)[e.key] = e.value
      /\ \A k \in DOMAIN map : k # e.key => Put(map, e)[k] = map[k]
  BY PutIs
<1>3. after = IF e.kind = kind THEN Put(map, e) ELSE map
  OBVIOUS
<1> HIDE DEF t, e
<1>4. ASSUME Match(e, kind, key) PROVE key \in DOMAIN after /\ after[key] = e.value
  BY <1>2, <1>3, <1>4 DEF Match
<1>5. ASSUME ~Match(e, kind, key), key \in DOMAIN map
      PROVE  key \in DOMAIN after /\ after[key] = map[key]
  BY <1>2, <1>3, <1>5 DEF Match
<1>6. ASSUME \A k \in 1..Len(s) : Match(s[k], kind, key) => s[k].value = v
      PROVE  \A k \in 1..Len(t) : Match(t[k], kind, key) => t[k].value = v
  BY <1>1, <1>6
<1>7. ASSUME Will(map, s, kind, key, v) PROVE Will(after, t, kind, key, v)
  <2>1. CASE Ends(s, kind, key, v)
    <3>1. PICK k \in 1..Len(s) :
              /\ Match(s[k], kind, key)
              /\ \A j \in k..Len(s) : Match(s[j], kind, key) => s[j].value = v
      BY <2>1 DEF Ends
    <3>2. CASE k = 1
      <4>1. key \in DOMAIN after /\ after[key] = v
        BY <1>1, <1>4, <3>1, <3>2
      <4> QED
        BY <1>6, <3>1, <3>2, <4>1 DEF Will
    <3>3. CASE k # 1
      <4>1. k-1 \in 1..Len(t) /\ t[k-1] = s[k]
        BY <1>1, <3>3
      <4>2. ASSUME NEW j \in (k-1)..Len(t), Match(t[j], kind, key)
            PROVE  t[j].value = v
        <5>1. j \in 1..Len(t) /\ j+1 \in k..Len(s) /\ t[j] = s[j+1]
          BY <1>1, <4>1
        <5> QED
          BY <3>1, <4>2, <5>1
      <4> QED
        BY <3>1, <4>1, <4>2 DEF Will, Ends
    <3> QED
      BY <3>2, <3>3
  <2>2. CASE /\ key \in DOMAIN map /\ map[key] = v
             /\ \A k \in 1..Len(s) : Match(s[k], kind, key) => s[k].value = v
    <3>1. key \in DOMAIN after /\ after[key] = v
      BY <1>1, <1>4, <1>5, <2>2
    <3> QED
      BY <1>6, <2>2, <3>1 DEF Will
  <2> QED
    BY <1>7, <2>1, <2>2 DEF Will
<1>8. ASSUME Soon(map, s, kind, key) PROVE Soon(after, t, kind, key)
  <2>1. CASE key \in DOMAIN map
    BY <1>4, <1>5, <2>1 DEF Soon
  <2>2. CASE \E k \in 1..Len(s) : Match(s[k], kind, key)
    <3>1. PICK k \in 1..Len(s) : Match(s[k], kind, key)
      BY <2>2
    <3>2. CASE k = 1
      BY <1>1, <1>4, <3>1, <3>2 DEF Soon
    <3>3. CASE k # 1
      <4>1. k-1 \in 1..Len(t) /\ t[k-1] = s[k]
        BY <1>1, <3>3
      <4> QED
        BY <3>1, <4>1 DEF Soon
    <3> QED
      BY <3>2, <3>3
  <2> QED
    BY <1>8, <2>1, <2>2 DEF Soon
<1> QED
  BY <1>7, <1>8 DEF t

-----------------------------------------------------------------------------
(* Types *)

Typed ==
    /\ file \in Files
    /\ event \in BOOLEAN
    /\ viper \in (Files \ {Garbled}) \cup {Zero}
    /\ phase \in Phases
    /\ loading \in [Loaders -> Seq(Entries) \cup {Spawned}]
    /\ DOMAIN partition \subseteq Partitions
    /\ DOMAIN namespace \subseteq Namespaces
    /\ partition \in [DOMAIN partition -> TenantRecord]
    /\ namespace \in [DOMAIN namespace -> TenantRecord]

\* Only main loads before the workers start, and nobody in a stopped process.
OnlyMain ==
    /\ phase = "stopped" => \A l \in Loaders : loading[l] = Idle
    /\ phase = "init" => \A l \in Loaders \ {Main} : loading[l] = Idle

\* A tenant is in the one map before its namespaces are in the other.
TenantFirst ==
    /\ \A ns \in DOMAIN namespace : namespace[ns].name \in DOMAIN partition
    /\ \A l \in Loaders : \A k \in 1..Len(loading[l]) :
         loading[l][k].kind = "namespace" =>
            \/ loading[l][k].value.name \in DOMAIN partition
            \/ \E j \in 1..(k-1) :
                 Match(loading[l][j], "partition", loading[l][k].value.name)

TypeInv == Typed /\ OnlyMain /\ TenantFirst

\* A goroutine has still to unmarshal the file, or has entries to store.
LEMMA SpawnedIs ==
    /\ Spawned # Idle /\ Head(Spawned).kind = "file" /\ Len(Spawned) = 1
    /\ Spawned[1].kind = "file"
    /\ \A e \in Entries : e.kind \in {"value", "partition", "namespace"}
    /\ \A s \in Seq(Entries) : s # <<>> => Head(s).kind # "file"
<1>1. \A e \in Entries : e.kind \in {"value", "partition", "namespace"}
  BY DEF Entries
<1>2. ASSUME NEW s \in Seq(Entries), s # <<>> PROVE Head(s).kind # "file"
  BY <1>1, <1>2
<1>3. /\ Spawned # Idle /\ Head(Spawned).kind = "file" /\ Len(Spawned) = 1
      /\ Spawned[1].kind = "file"
  BY DEF Spawned, Idle, Entry
<1> QED
  BY <1>1, <1>2, <1>3

\* What a step of Store does.
LEMMA StoreIs ==
    ASSUME Typed, NEW l \in Loaders, Store(l)
    PROVE  /\ loading[l] \in Seq(Entries) /\ loading[l] # <<>>
           /\ Head(loading[l]) \in Entries
           /\ loading' = [loading EXCEPT ![l] = Tail(loading[l])]
           /\ values' = IF Head(loading[l]).kind = "value"
                        THEN Put(values, Head(loading[l])) ELSE values
           /\ partition' = IF Head(loading[l]).kind = "partition"
                           THEN Put(partition, Head(loading[l])) ELSE partition
           /\ namespace' = IF Head(loading[l]).kind = "namespace"
                           THEN Put(namespace, Head(loading[l])) ELSE namespace
           /\ UNCHANGED <<file, event, viper, phase>>
<1>1. loading[l] \in Seq(Entries) \cup {Spawned} /\ loading[l] # Idle /\ ~Unread(l)
  BY DEF Typed, Store
<1>2. loading[l] # Spawned
  BY <1>1, SpawnedIs DEF Unread
<1>3. loading[l] \in Seq(Entries) /\ loading[l] # <<>>
  BY <1>1, <1>2 DEF Idle
<1>4. Head(loading[l]) \in Entries
  BY <1>3
<1> QED
  BY <1>3, <1>4 DEF Store, Stored

\* A map with nothing in it.
LEMMA EmptyMap == \A A : DOMAIN <<>> = {} /\ <<>> \in [DOMAIN <<>> -> A]
  OBVIOUS

LEMMA StoppedTyped ==
    ASSUME file' \in Files, Stopped
    PROVE  TypeInv'
<1>1. loading' \in [Loaders -> Seq(Entries) \cup {Spawned}]
  BY DEF Stopped, Idle
<1>2. Typed'
  BY <1>1, EmptyMap DEF Typed, Stopped, Phases
<1>3. OnlyMain'
  BY DEF OnlyMain, Stopped
<1>4. TenantFirst'
  <2>1. DOMAIN namespace' = {}
    BY EmptyMap DEF Stopped
  <2>2. \A l \in Loaders : Len(loading'[l]) = 0
    BY DEF Stopped, Idle
  <2> QED
    BY <2>1, <2>2 DEF TenantFirst
<1> QED
  BY <1>2, <1>3, <1>4 DEF TypeInv

\* A loader that is given entries in order keeps the invariant, whatever the others do.
LEMMA GivenEntries ==
    ASSUME TypeInv, NEW l \in Loaders, NEW s, s \in Seq(Entries) \cup {Spawned},
           s = Spawned \/ InOrder(s),
           loading' = [loading EXCEPT ![l] = s],
           UNCHANGED cached
    PROVE  TenantFirst' /\ loading' \in [Loaders -> Seq(Entries) \cup {Spawned}]
<1>1. loading' \in [Loaders -> Seq(Entries) \cup {Spawned}]
  BY DEF TypeInv, Typed
<1>2. /\ loading'[l] = s
      /\ \A m \in Loaders \ {l} : loading'[m] = loading[m]
  BY DEF TypeInv, Typed
<1>3. partition' = partition /\ namespace' = namespace
  BY DEF cached
<1>4. ASSUME NEW k \in 1..Len(s), s[k].kind = "namespace"
      PROVE  \E j \in 1..(k-1) : Match(s[j], "partition", s[k].value.name)
  <2>1. s # Spawned
    BY <1>4, SpawnedIs
  <2> QED
    BY <1>4, <2>1 DEF InOrder
<1>5. ASSUME NEW m \in Loaders, NEW k \in 1..Len(loading'[m]),
             loading'[m][k].kind = "namespace"
      PROVE  \/ loading'[m][k].value.name \in DOMAIN partition'
             \/ \E j \in 1..(k-1) :
                  Match(loading'[m][j], "partition", loading'[m][k].value.name)
  <2>1. CASE m = l
    BY <1>2, <1>4, <1>5, <2>1
  <2>2. CASE m # l
    <3>1. loading'[m] = loading[m]
      BY <1>2, <2>2
    <3> QED
      BY <1>3, <1>5, <3>1 DEF TypeInv, TenantFirst
  <2> QED
    BY <2>1, <2>2
<1>6. TenantFirst'
  BY <1>3, <1>5 DEF TypeInv, TenantFirst
<1> QED
  BY <1>1, <1>6

LEMMA StoreTyped ==
    ASSUME TypeInv, NEW l \in Loaders, Store(l)
    PROVE  TypeInv'
<1> DEFINE s == loading[l]
           e == Head(loading[l])
<1>1. /\ s \in Seq(Entries) /\ s # <<>> /\ e \in Entries
      /\ loading' = [loading EXCEPT ![l] = Tail(s)]
      /\ partition' = IF e.kind = "partition" THEN Put(partition, e) ELSE partition
      /\ namespace' = IF e.kind = "namespace" THEN Put(namespace, e) ELSE namespace
      /\ UNCHANGED <<file, event, viper, phase>>
  BY StoreIs DEF TypeInv
<1>2. /\ loading'[l] = Tail(s)
      /\ \A m \in Loaders \ {l} : loading'[m] = loading[m]
  BY <1>1 DEF TypeInv, Typed
<1>3. /\ Tail(s) \in Seq(Entries) /\ e = s[1] /\ 1 \in 1..Len(s)
      /\ \A k \in 1..Len(Tail(s)) : k+1 \in 1..Len(s) /\ Tail(s)[k] = s[k+1]
      /\ \A k \in 2..Len(s) : k-1 \in 1..Len(Tail(s)) /\ Tail(s)[k-1] = s[k]
  BY <1>1, TailIs
<1>4. /\ e.kind = "partition" => e.key \in Partitions /\ e.value \in TenantRecord
      /\ e.kind = "namespace" => e.key \in Namespaces /\ e.value \in TenantRecord
  BY <1>1 DEF Entries
<1> HIDE DEF s, e
<1>5. /\ DOMAIN partition' \subseteq Partitions
      /\ partition' \in [DOMAIN partition' -> TenantRecord]
      /\ DOMAIN partition \subseteq DOMAIN partition'
      /\ e.kind = "partition" => e.key \in DOMAIN partition'
  <2>1. CASE e.kind = "partition"
    <3>1. partition' = Put(partition, e)
      BY <1>1, <2>1
    <3>2. partition \in [DOMAIN partition -> TenantRecord] /\ DOMAIN partition \subseteq Partitions
      BY DEF TypeInv, Typed
    <3>3. e.key \in Partitions /\ e.value \in TenantRecord
      BY <1>4, <2>1
    <3>4. /\ DOMAIN Put(partition, e) \subseteq Partitions
          /\ Put(partition, e) \in [DOMAIN Put(partition, e) -> TenantRecord]
          /\ DOMAIN partition \subseteq DOMAIN Put(partition, e)
          /\ e.key \in DOMAIN Put(partition, e)
      BY ONLY <3>2, <3>3, PutTyped
    <3> QED
      BY ONLY <3>1, <3>4
  <2>2. CASE e.kind # "partition"
    BY <1>1, <2>2 DEF TypeInv, Typed
  <2> QED
    BY <2>1, <2>2
<1>6. /\ DOMAIN namespace' \subseteq Namespaces
      /\ namespace' \in [DOMAIN namespace' -> TenantRecord]
      /\ \A ns \in DOMAIN namespace' :
            \/ e.kind = "namespace" /\ namespace'[ns] = e.value
            \/ ns \in DOMAIN namespace /\ namespace'[ns] = namespace[ns]
  <2>1. CASE e.kind = "namespace"
    <3>1. namespace' = Put(namespace, e)
      BY <1>1, <2>1
    <3>2. namespace \in [DOMAIN namespace -> TenantRecord] /\ DOMAIN namespace \subseteq Namespaces
      BY DEF TypeInv, Typed
    <3>3. e.key \in Namespaces /\ e.value \in TenantRecord
      BY <1>4, <2>1
    <3>4. /\ DOMAIN Put(namespace, e) \subseteq Namespaces
          /\ Put(namespace, e) \in [DOMAIN Put(namespace, e) -> TenantRecord]
          /\ \A ns \in DOMAIN Put(namespace, e) :
                \/ ns = e.key /\ Put(namespace, e)[ns] = e.value
                \/ ns \in DOMAIN namespace /\ Put(namespace, e)[ns] = namespace[ns]
      BY ONLY <3>2, <3>3, PutTyped
    <3> QED
      BY ONLY <2>1, <3>1, <3>4
  <2>2. CASE e.kind # "namespace"
    BY <1>1, <2>2 DEF TypeInv, Typed
  <2> QED
    BY <2>1, <2>2
<1>7. Typed'
  <2>1. loading' \in [Loaders -> Seq(Entries) \cup {Spawned}]
    BY <1>1, <1>3 DEF TypeInv, Typed
  <2> QED
    BY <1>1, <1>5, <1>6, <2>1 DEF TypeInv, Typed
<1>8. OnlyMain'
  BY <1>1, <1>2, <1>3 DEF TypeInv, OnlyMain, Idle, s
<1>9. TenantFirst'
  <2>1. ASSUME NEW ns \in DOMAIN namespace'
        PROVE  namespace'[ns].name \in DOMAIN partition'
    <3>1. CASE ns \in DOMAIN namespace /\ namespace'[ns] = namespace[ns]
      BY <1>5, <3>1 DEF TypeInv, TenantFirst
    <3>2. CASE ~(ns \in DOMAIN namespace /\ namespace'[ns] = namespace[ns])
      <4>1. e.kind = "namespace" /\ namespace'[ns] = e.value
        BY <1>6, <2>1, <3>2
      <4>2. s[1].value.name \in DOMAIN partition
        <5>1. s[1].kind = "namespace"
          BY <1>3, <4>1
        <5>2. ~\E j \in 1..(1-1) : TRUE
          OBVIOUS
        <5> QED
          BY <1>3, <5>1, <5>2 DEF TypeInv, TenantFirst, s
      <4> QED
        BY <1>3, <1>5, <4>1, <4>2
    <3> QED
      BY <3>1, <3>2
  <2>2. ASSUME NEW m \in Loaders, NEW k \in 1..Len(loading'[m]),
               loading'[m][k].kind = "namespace"
        PROVE  \/ loading'[m][k].value.name \in DOMAIN partition'
               \/ \E j \in 1..(k-1) :
                    Match(loading'[m][j], "partition", loading'[m][k].value.name)
    <3>1. CASE m # l
      <4>1. loading'[m] = loading[m]
        BY <1>2, <3>1
      <4> QED
        BY <1>5, <2>2, <4>1 DEF TypeInv, TenantFirst
    <3>2. CASE m = l
      <4> DEFINE n == s[k+1].value.name
      <4>1. k \in Nat /\ k+1 \in 1..Len(s) /\ loading'[m][k] = s[k+1]
        <5>1. loading'[m] = Tail(s)
          BY <1>2, <3>2
        <5>2. k \in 1..Len(Tail(s))
          BY <2>2, <5>1
        <5> QED
          BY <1>3, <5>1, <5>2
      <4>2. s[k+1].kind = "namespace"
        BY <2>2, <4>1
      <4>3. \/ n \in DOMAIN partition
            \/ \E j \in 1..((k+1)-1) : Match(s[j], "partition", n)
        BY <4>1, <4>2 DEF TypeInv, TenantFirst, s
      <4>4. CASE n \in DOMAIN partition
        BY <1>5, <4>1, <4>4
      <4>5. ASSUME NEW j \in 1..((k+1)-1), Match(s[j], "partition", n)
            PROVE  \/ n \in DOMAIN partition'
                   \/ \E i \in 1..(k-1) : Match(Tail(s)[i], "partition", n)
        <5>1. CASE j = 1
          <6>1. e.kind = "partition" /\ e.key = n
            BY <1>3, <4>5, <5>1 DEF Match
          <6>2. n \in DOMAIN partition'
            BY <1>5, <6>1
          <6> QED
            BY <6>2
        <5>2. CASE j # 1
          <6>1. j \in 2..Len(s) /\ j-1 \in 1..(k-1)
            BY <1>1, <4>1, <5>2
          <6>2. Tail(s)[j-1] = s[j]
            BY <1>3, <6>1
          <6> QED
            BY <4>5, <6>1, <6>2
        <5> QED
          BY <5>1, <5>2
      <4>6. \/ n \in DOMAIN partition'
            \/ \E i \in 1..(k-1) : Match(Tail(s)[i], "partition", n)
        BY <1>5, <4>3, <4>4, <4>5
      <4> HIDE DEF n
      <4>7. loading'[m][k].value.name = n
        BY <4>1 DEF n
      <4> QED
        BY <1>2, <3>2, <4>6, <4>7
    <3> QED
      BY <3>1, <3>2
  <2> QED
    BY <2>1, <2>2 DEF TenantFirst
<1> QED
  BY <1>7, <1>8, <1>9 DEF TypeInv

LEMMA TypeInvStep ==
    ASSUME TypeInv, [Next]_vars
    PROVE  TypeInv'
<1>1. CASE Start
  <2>1. TenantFirst' /\ loading' \in [Loaders -> Seq(Entries) \cup {Spawned}]
    BY <1>1, ConfigAssumption, GivenEntries DEF Start
  <2>2. OnlyMain'
    BY <1>1 DEF Start, TypeInv, OnlyMain, Typed
  <2>3. Typed'
    BY <1>1, <2>1 DEF Start, ReadInConfig, TypeInv, Typed, Phases, cached
  <2> QED
    BY <2>1, <2>2, <2>3 DEF TypeInv
<1>2. CASE Started
  BY <1>2 DEF Started, TypeInv, Typed, OnlyMain, TenantFirst, Phases, cached
<1>3. CASE NoCommon
  <2>1. file' \in Files /\ Stopped
    BY <1>3 DEF NoCommon, TypeInv, Typed
  <2> QED
    BY <2>1, StoppedTyped
<1>4. ASSUME NEW l \in Loaders, Unmarshal(l) PROVE TypeInv'
  <2>1. viper \in As3Config
    BY <1>4, ConfigAssumption DEF Unmarshal, TypeInv, Typed
  <2>2. Work(viper) \in Seq(Entries) /\ InOrder(Work(viper))
    BY <2>1, WorkSays
  <2>3. /\ loading' = [loading EXCEPT ![l] = Work(viper)]
        /\ UNCHANGED <<file, event, viper, phase, cached>> /\ loading[l] # Idle
    BY <1>4 DEF Unmarshal, Unread
  <2>4. TenantFirst' /\ loading' \in [Loaders -> Seq(Entries) \cup {Spawned}]
    BY <2>2, <2>3, GivenEntries
  <2>5. OnlyMain'
    BY <2>3 DEF TypeInv, OnlyMain, Typed
  <2>6. Typed'
    BY <2>3, <2>4 DEF TypeInv, Typed, cached
  <2> QED
    BY <2>4, <2>5, <2>6 DEF TypeInv
<1>5. ASSUME NEW l \in Loaders, Panic(l) PROVE TypeInv'
  <2>1. file' \in Files /\ Stopped
    BY <1>5 DEF Panic, TypeInv, Typed
  <2> QED
    BY <2>1, StoppedTyped
<1>6. ASSUME NEW l \in Loaders, Store(l) PROVE TypeInv'
  BY <1>6, StoreTyped
<1>7. CASE Notify
  <2>1. CASE phase = "running"
    <3>1. PICK l \in Loaders : loading[l] = Idle /\ loading' = [loading EXCEPT ![l] = Spawned]
      BY <1>7, <2>1 DEF Notify
    <3>2. TenantFirst' /\ loading' \in [Loaders -> Seq(Entries) \cup {Spawned}]
      BY <1>7, <3>1, GivenEntries DEF Notify
    <3>3. OnlyMain'
      BY <1>7, <2>1 DEF Notify, OnlyMain
    <3>4. Typed'
      BY <1>7, <3>2 DEF Notify, ReadInConfig, TypeInv, Typed, cached
    <3> QED
      BY <3>2, <3>3, <3>4 DEF TypeInv
  <2>2. CASE phase # "running"
    BY <1>7, <2>2 DEF Notify, ReadInConfig, TypeInv, Typed, OnlyMain, TenantFirst, cached
  <2> QED
    BY <2>1, <2>2
<1>8. CASE Change
  <2>1. file' \in Files /\ event' \in BOOLEAN /\ UNCHANGED <<viper, phase, loading, cached>>
    BY <1>8 DEF Change
  <2> QED
    BY <2>1 DEF TypeInv, Typed, OnlyMain, TenantFirst, cached
<1>9. CASE Crash
  <2>1. file' \in Files /\ Stopped
    BY <1>9 DEF Crash, TypeInv, Typed
  <2> QED
    BY <2>1, StoppedTyped
<1>10. CASE UNCHANGED vars
  BY <1>10 DEF TypeInv, Typed, OnlyMain, TenantFirst, vars, cached
<1> QED
  BY <1>1, <1>2, <1>3, <1>4, <1>5, <1>6, <1>7, <1>8, <1>9, <1>10 DEF Next, Step

LEMMA TypeInvInit == Init => TypeInv
<1> SUFFICES ASSUME Init PROVE TypeInv
  OBVIOUS
<1>1. loading \in [Loaders -> Seq(Entries) \cup {Spawned}]
  BY DEF Init, Idle
<1>2. Typed
  BY <1>1, EmptyMap DEF Typed, Init, Phases
<1>3. OnlyMain
  BY DEF OnlyMain, Init
<1>4. TenantFirst
  <2>1. DOMAIN namespace = {}
    BY EmptyMap DEF Init
  <2>2. \A l \in Loaders : Len(loading[l]) = 0
    BY DEF Init, Idle
  <2> QED
    BY <2>1, <2>2 DEF TenantFirst
<1> QED
  BY <1>2, <1>3, <1>4 DEF TypeInv

\* What is read and stored keeps its type, only main loads before the workers start, and
\* each namespace's tenant is also known by its partition (initTenantConfig), for all
\* files and however many goroutines load at a time.
THEOREM TypeCorrect == Spec => []TypeOK
<1>1. TypeInv => TypeOK
  <2> SUFFICES ASSUME TypeInv PROVE TypeOK
    OBVIOUS
  <2>1. ASSUME phase = "init"
        PROVE  Cardinality({l \in Loaders : loading[l] # Idle}) <= 1
    <3> DEFINE L == {l \in Loaders : loading[l] # Idle}
    <3>1. L = {} \/ L = {Main}
      BY <2>1 DEF TypeInv, OnlyMain
    <3>2. Cardinality({}) = 0 /\ Cardinality({Main}) = 1
      BY FS_EmptySet, FS_Singleton
    <3> QED
      BY <3>1, <3>2
  <2>2. \A ns \in DOMAIN namespace :
            namespace[ns].name \in DOMAIN partition /\ namespace[ns].route \in Routes
    BY DEF TypeInv, Typed, TenantFirst, TenantRecord
  <2>3. DOMAIN loading = Loaders
    BY DEF TypeInv, Typed
  <2> QED
    BY <2>1, <2>2, <2>3 DEF TypeInv, Typed, TypeOK
<1> QED
  BY <1>1, TypeInvInit, TypeInvStep, PTL DEF Spec

-----------------------------------------------------------------------------
(* What the workers may rely on *)

\* No tenant is known, nor will be when s is stored.
Bare(s) ==
    DOMAIN partition = {} /\ \A k \in 1..Len(s) : s[k].kind # "partition"

\* By the end of the first load, every namespace of the file that was loaded has a tenant,
\* unless there was no such file: then there is no Common.
Loading ==
    /\ phase = "stopped" => Bare(loading[Main])
    /\ phase = "init" =>
        \/ Bare(loading[Main])
        \/ /\ loading[Main] # Spawned
           /\ \E f \in Files \cap As3Config : \A ns :
                Lists(f, ns) => Soon(namespace, loading[Main], "namespace", ns)

\* From then on no entry goes away.
Kept ==
    phase = "running" =>
        /\ DefaultPartition \in DOMAIN partition
        /\ \A ns \in Always : ns \in DOMAIN namespace

WatchInv == TypeInv /\ Loading /\ Kept

LEMMA TenantKnown == \A t \in TenantRecord : t # Unknown
<1> SUFFICES ASSUME NEW t \in TenantRecord, t = Unknown PROVE FALSE
  OBVIOUS
<1>1. DOMAIN t = {"name", "namespaces", "route", "pool"}
  BY DEF TenantRecord
<1>2. DOMAIN t = {}
  BY EmptyMap DEF Unknown
<1> QED
  BY <1>1, <1>2

\* A goroutine that can take a step before the workers run is main's.
LEMMA MainLoads ==
    ASSUME TypeInv, NEW l \in Loaders, loading[l] # Idle
    PROVE  phase # "stopped" /\ (phase = "init" => l = Main)
  BY DEF TypeInv, OnlyMain

\* What has no tenant has none after the next entry either.
LEMMA BareStored ==
    ASSUME Typed, NEW l \in Loaders, Store(l), Bare(loading[l])
    PROVE  Bare(loading[l])'
<1> DEFINE s == loading[l]
<1>1. /\ s \in Seq(Entries) /\ s # <<>>
      /\ loading' = [loading EXCEPT ![l] = Tail(s)]
      /\ partition' = IF Head(s).kind = "partition" THEN Put(partition, Head(s)) ELSE partition
  BY StoreIs
<1>2. loading'[l] = Tail(s)
  BY <1>1 DEF Typed
<1>3. DOMAIN partition = {} /\ \A k \in 1..Len(s) : s[k].kind # "partition"
  BY DEF Bare
<1> HIDE DEF s
<1>4. /\ Head(s) = s[1] /\ 1 \in 1..Len(s)
      /\ \A k \in 1..Len(Tail(s)) : k+1 \in 1..Len(s) /\ Tail(s)[k] = s[k+1]
  BY <1>1, TailIs
<1>5. DOMAIN partition' = {}
  BY <1>1, <1>3, <1>4
<1>6. \A k \in 1..Len(Tail(s)) : Tail(s)[k].kind # "partition"
  BY <1>3, <1>4
<1> QED
  BY <1>2, <1>5, <1>6 DEF Bare

\* A first load that has stored nothing and is of no file finds no tenant.
LEMMA BareUnread ==
    ASSUME Typed, NEW l \in Loaders, Unmarshal(l), Bare(loading[l])
    PROVE  IF viper \in Files THEN viper \in Files \cap As3Config
           ELSE Bare(loading[l])'
<1>1. loading'[l] = Work(viper) /\ partition' = partition /\ viper # Invalid
  BY DEF Unmarshal, Typed, cached
<1>2. CASE viper \in Files
  BY <1>1, <1>2, ConfigAssumption DEF Typed
<1>3. CASE viper \notin Files
  <2>1. viper = Zero
    BY <1>3 DEF Typed
  <2> QED
    BY <1>1, <1>3, <2>1, WorkOfNothing DEF Bare
<1> QED
  BY <1>2, <1>3

LEMMA StoppedBare ==
    ASSUME Stopped
    PROVE  Bare(loading[Main])'
<1>1. loading'[Main] = Idle /\ partition' = <<>>
  BY ConfigAssumption DEF Stopped
<1>2. Len(Idle) = 0
  BY DEF Idle
<1> QED
  BY <1>1, <1>2, EmptyMap DEF Bare

LEMMA LoadingStep ==
    ASSUME WatchInv, [Next]_vars
    PROVE  Loading'
<1>0. TypeInv /\ Typed /\ Main \in Loaders
  BY ConfigAssumption DEF WatchInv, TypeInv
<1>1. CASE Start
  <2>1. Bare(loading[Main]) /\ partition' = partition
    BY <1>1 DEF WatchInv, Loading, Start, cached
  <2>2. loading'[Main] = Spawned /\ phase' = "init"
    BY <1>0, <1>1 DEF Start, Typed
  <2>3. Spawned[1].kind # "partition" /\ Len(Spawned) = 1
    BY SpawnedIs
  <2>4. Bare(loading[Main])'
    BY <2>1, <2>2, <2>3 DEF Bare
  <2> QED
    BY <2>2, <2>4 DEF Loading
<1>2. CASE NoCommon \/ Crash \/ \E l \in Loaders : Panic(l)
  <2>1. Stopped
    BY <1>2 DEF NoCommon, Crash, Panic
  <2>2. phase' = "stopped"
    BY <2>1 DEF Stopped
  <2> QED
    BY <2>1, <2>2, StoppedBare DEF Loading
<1>3. CASE Started
  BY <1>3 DEF Started, Loading
<1>4. ASSUME NEW l \in Loaders, Unmarshal(l) PROVE Loading'
  <2>1. phase' = phase /\ phase # "stopped"
    BY <1>0, <1>4, MainLoads DEF Unmarshal, Unread
  <2>2. CASE phase # "init"
    BY <2>1, <2>2 DEF Loading
  <2>3. CASE phase = "init"
    <3>1. l = Main
      BY <1>0, <1>4, <2>3, MainLoads DEF Unmarshal, Unread
    <3>2. loading[Main] = Spawned
      BY <1>0, <1>4, <3>1, SpawnedIs DEF Unmarshal, Unread, Typed, Idle
    <3>3. Bare(loading[Main])
      BY <2>3, <3>2 DEF WatchInv, Loading
    <3>4. CASE viper \in Files
      <4>1. viper \in Files \cap As3Config /\ loading'[Main] = Work(viper)
        BY <1>0, <1>4, <3>1, <3>3, <3>4, BareUnread DEF Unmarshal, Typed
      <4>2. Work(viper) \in Seq(Entries)
        BY <4>1, WorkSays
      <4>3. Work(viper) # Spawned
        <5>1. Spawned \notin Seq(Entries)
          BY SpawnedIs DEF Idle
        <5> QED
          BY <4>2, <5>1
      <4>4. ASSUME NEW ns, Lists(viper, ns)
            PROVE  Soon(namespace', Work(viper), "namespace", ns)
        <5>1. Ends(Work(viper), "namespace", ns, TenantOf(viper, ns))
          BY <4>1, <4>4, WorkSays
        <5> QED
          BY <5>1 DEF Ends, Soon
      <4> QED
        BY <2>1, <2>3, <4>1, <4>3, <4>4 DEF Loading
    <3>5. CASE viper \notin Files
      <4>1. Bare(loading[Main])'
        BY <1>0, <1>4, <3>1, <3>3, <3>5, BareUnread
      <4> QED
        BY <2>1, <2>3, <4>1 DEF Loading
    <3> QED
      BY <3>4, <3>5
  <2> QED
    BY <2>2, <2>3
<1>5. ASSUME NEW l \in Loaders, Store(l) PROVE Loading'
  <2>1. phase' = phase /\ phase # "stopped"
    BY <1>0, <1>5, MainLoads DEF Store
  <2>2. CASE phase # "init"
    BY <2>1, <2>2 DEF Loading
  <2>3. CASE phase = "init" /\ Bare(loading[Main])
    <3>1. l = Main
      BY <1>0, <1>5, <2>3, MainLoads DEF Store
    <3>2. Bare(loading[Main])'
      BY <1>0, <1>5, <2>3, <3>1, BareStored
    <3> QED
      BY <2>1, <2>3, <3>2 DEF Loading
  <2>4. CASE phase = "init" /\ ~Bare(loading[Main])
    <3> DEFINE s == loading[Main]
    <3>1. l = Main
      BY <1>0, <1>5, <2>4, MainLoads DEF Store
    <3>2. /\ s \in Seq(Entries) /\ s # <<>> /\ loading'[Main] = Tail(s)
          /\ namespace' = IF Head(s).kind = "namespace"
                          THEN Put(namespace, Head(s)) ELSE namespace
      BY <1>0, <1>5, <3>1, StoreIs DEF Typed
    <3>3. PICK f \in Files \cap As3Config : \A ns :
              Lists(f, ns) => Soon(namespace, s, "namespace", ns)
      BY <2>4 DEF WatchInv, Loading
    <3> HIDE DEF s
    <3>4. ASSUME NEW ns, Lists(f, ns) PROVE Soon(namespace', Tail(s), "namespace", ns)
      BY <3>2, <3>3, <3>4, WillStay
    <3>5. Tail(s) \in Seq(Entries)
      BY <3>2, TailIs
    <3>6. Tail(s) # Spawned
      BY <3>5, SpawnedIs
    <3> QED
      BY <2>1, <2>4, <3>2, <3>4, <3>6 DEF Loading
  <2> QED
    BY <2>2, <2>3, <2>4
<1>6. CASE Notify \/ Change \/ UNCHANGED vars
  <2>1. CASE phase' = "running"
    BY <2>1 DEF Loading
  <2>2. CASE phase' # "running"
    <3>1. phase' = phase /\ loading' = loading /\ namespace' = namespace /\ partition' = partition
      BY <1>6, <2>2 DEF Notify, Change, vars, cached
    <3> QED
      BY <3>1 DEF WatchInv, Loading, Bare
  <2> QED
    BY <2>1, <2>2
<1> QED
  BY <1>1, <1>2, <1>3, <1>4, <1>5, <1>6 DEF Next, Step

LEMMA KeptStep ==
    ASSUME WatchInv, [Next]_vars
    PROVE  Kept'
<1> SUFFICES ASSUME phase' = "running"
             PROVE  /\ DefaultPartition \in DOMAIN partition'
                    /\ \A ns \in Always : ns \in DOMAIN namespace'
  BY DEF Kept, Always, ConfigIn, TenantIn
<1>0. TypeInv /\ Typed /\ Main \in Loaders
  BY ConfigAssumption DEF WatchInv, TypeInv
<1>1. CASE Started
  <2>1. /\ phase = "init" /\ loading[Main] = Idle
        /\ UNCHANGED <<partition, namespace>>
        /\ GetTenantConfigForParttition(DefaultPartition) # Unknown
    BY <1>1 DEF Started, cached
  <2>2. DefaultPartition \in DOMAIN partition
    BY <2>1 DEF GetTenantConfigForParttition, Held
  <2>3. PICK f \in Files \cap As3Config : \A ns :
            Lists(f, ns) => Soon(namespace, Idle, "namespace", ns)
    BY <2>1, <2>2 DEF WatchInv, Loading, Bare
  <2>4. ASSUME NEW ns \in Always PROVE ns \in DOMAIN namespace
    <3>1. ConfigIn(f, ns) # Unknown
      BY <2>4 DEF Always
    <3>2. Lists(f, ns)
      BY <3>1 DEF ConfigIn, Lists
    <3>3. Soon(namespace, Idle, "namespace", ns)
      BY <2>3, <3>2
    <3> QED
      BY <3>3 DEF Soon, Idle
  <2> QED
    BY <2>1, <2>2, <2>4
<1>2. ASSUME NEW l \in Loaders, Store(l)
      PROVE  /\ DefaultPartition \in DOMAIN partition'
             /\ \A ns \in Always : ns \in DOMAIN namespace'
  <2> DEFINE e == Head(loading[l])
  <2>1. /\ partition' = IF e.kind = "partition" THEN Put(partition, e) ELSE partition
        /\ namespace' = IF e.kind = "namespace" THEN Put(namespace, e) ELSE namespace
        /\ phase = "running"
    BY <1>0, <1>2, StoreIs
  <2> HIDE DEF e
  <2>2. /\ DOMAIN Put(partition, e) = DOMAIN partition \cup {e.key}
        /\ DOMAIN Put(namespace, e) = DOMAIN namespace \cup {e.key}
    BY PutIs
  <2> QED
    BY <2>1, <2>2 DEF WatchInv, Kept
<1>3. CASE Start \/ NoCommon \/ Crash \/ \E l \in Loaders : Panic(l)
  BY <1>3 DEF Start, NoCommon, Crash, Panic, Stopped
<1>4. CASE Notify \/ Change \/ UNCHANGED vars \/ \E l \in Loaders : Unmarshal(l)
  <2>1. phase = "running" /\ partition' = partition /\ namespace' = namespace
    BY <1>4 DEF Notify, Change, Unmarshal, vars, cached
  <2> QED
    BY <2>1 DEF WatchInv, Kept
<1> QED
  BY <1>1, <1>2, <1>3, <1>4 DEF Next, Step

LEMMA WatchInvInit == Init => WatchInv
<1> SUFFICES ASSUME Init PROVE WatchInv
  OBVIOUS
<1>1. loading[Main] = Idle /\ Len(Idle) = 0 /\ phase = "stopped"
  BY ConfigAssumption DEF Init, Idle
<1>2. Bare(loading[Main])
  BY <1>1, EmptyMap DEF Init, Bare
<1> QED
  BY <1>1, <1>2, TypeInvInit DEF WatchInv, Loading, Kept

LEMMA WatchInvStep == WatchInv /\ [Next]_vars => WatchInv'
  BY TypeInvStep, LoadingStep, KeptStep DEF WatchInv

\* While the workers run, a lookup of Common and of a namespace that every file has finds
\* a tenant (GetTenantConfigForNamespace), however many goroutines store entries at the
\* time and whenever the file is edited: no handler drops an event for the lack of one.
THEOREM NeverUnknown == Spec => []StaysWatched
<1>1. WatchInv => StaysWatched
  <2> SUFFICES ASSUME WatchInv, phase = "running"
               PROVE  /\ GetTenantConfigForParttition(DefaultPartition) # Unknown
                      /\ \A ns \in Always : GetTenantConfigForNamespace(ns) # Unknown
    BY DEF StaysWatched
  <2>1. /\ DefaultPartition \in DOMAIN partition
        /\ \A ns \in Always : ns \in DOMAIN namespace
    BY DEF WatchInv, Kept
  <2>2. /\ partition[DefaultPartition] \in TenantRecord
        /\ \A ns \in Always : namespace[ns] \in TenantRecord
    BY <2>1 DEF WatchInv, TypeInv, Typed
  <2>3. GetTenantConfigForParttition(DefaultPartition) # Unknown
    BY <2>1, <2>2, TenantKnown DEF GetTenantConfigForParttition, Held
  <2>4. ASSUME NEW ns \in Always PROVE GetTenantConfigForNamespace(ns) # Unknown
    <3>1. namespace[ns] # Unknown /\ ns \in DOMAIN namespace
      BY <2>1, <2>2, TenantKnown
    <3> QED
      BY <2>3, <3>1 DEF GetTenantConfigForNamespace, Held
  <2> QED
    BY <2>3, <2>4
<1> QED
  BY <1>1, WatchInvInit, WatchInvStep, PTL DEF Spec

-----------------------------------------------------------------------------
(* What is loaded, when edits wait until the last one is *)

\* Once rest is stored, the maps say what viper read.
InForce(rest) ==
    /\ viper \in As3Config
    /\ Will(values, rest, "value", "rd", viper.rd)
    /\ \A p : TenantIn(viper, p) # Unknown =>
            Will(partition, rest, "partition", p, TenantIn(viper, p))
    /\ \A ns : Lists(viper, ns) =>
            Will(namespace, rest, "namespace", ns, TenantOf(viper, ns))

LoadInv ==
    /\ event => phase = "running" /\ Loaded
    /\ phase # "stopped" /\ ~event => file \in {viper, Garbled}
    /\ phase = "init" => viper \in Files \/ Bare(loading[Main])
    /\ phase = "running" => viper \in Files
    /\ \A l, m \in Loaders : loading[l] # Idle /\ loading[m] # Idle => l = m
    /\ phase # "stopped" /\ ~event /\ (\A l \in Loaders : loading[l] # Spawned) =>
        \E l \in Loaders : /\ InForce(loading[l])
                           /\ \A m \in Loaders : m # l => loading[m] = Idle

\* Storing an entry brings the maps nearer to what viper read.
LEMMA InForceStored ==
    ASSUME TypeInv, NEW l \in Loaders, Store(l), InForce(loading[l])
    PROVE  InForce(loading[l])'
<1> DEFINE s == loading[l]
           e == Head(s)
<1>1. /\ s \in Seq(Entries) /\ s # <<>>
      /\ loading' = [loading EXCEPT ![l] = Tail(s)]
      /\ values' = IF e.kind = "value" THEN Put(values, e) ELSE values
      /\ partition' = IF e.kind = "partition" THEN Put(partition, e) ELSE partition
      /\ namespace' = IF e.kind = "namespace" THEN Put(namespace, e) ELSE namespace
      /\ viper' = viper
  BY StoreIs DEF TypeInv
<1>2. loading'[l] = Tail(s)
  BY <1>1 DEF TypeInv, Typed
<1>3. InForce(s)
  OBVIOUS
<1> HIDE DEF s
<1>4. Will(values', Tail(s), "value", "rd", viper.rd)
  BY <1>1, <1>3, WillStay DEF InForce
<1>5. ASSUME NEW p, TenantIn(viper, p) # Unknown
      PROVE  Will(partition', Tail(s), "partition", p, TenantIn(viper, p))
  <2>1. Will(partition, s, "partition", p, TenantIn(viper, p))
    BY <1>3, <1>5 DEF InForce
  <2> QED
    BY <1>1, <2>1, WillStay
<1>6. ASSUME NEW ns, Lists(viper, ns)
      PROVE  Will(namespace', Tail(s), "namespace", ns, TenantOf(viper, ns))
  <2>1. Will(namespace, s, "namespace", ns, TenantOf(viper, ns))
    BY <1>3, <1>6 DEF InForce
  <2> QED
    BY <1>1, <2>1, WillStay
<1> QED
  BY <1>1, <1>2, <1>3, <1>4, <1>5, <1>6 DEF InForce

\* What was just unmarshalled will be in force.
LEMMA InForceWork ==
    ASSUME viper \in As3Config
    PROVE  InForce(Work(viper))
  BY WorkSays DEF InForce, Will

\* With nothing left to store, it is.
LEMMA InForceNow ==
    ASSUME Typed, InForce(Idle)
    PROVE  Says(viper)
<1>1. \A map, kind, key, v : Will(map, Idle, kind, key, v) =>
            key \in DOMAIN map /\ map[key] = v
  BY DEF Will, Ends, Idle
<1>2. values["rd"] = viper.rd
  BY <1>1 DEF InForce
<1>3. ASSUME NEW p, TenantIn(viper, p) # Unknown
      PROVE  p \in DOMAIN partition /\ partition[p] = TenantIn(viper, p)
  BY <1>1, <1>3 DEF InForce
<1>4. ASSUME NEW ns \in Namespaces, ConfigIn(viper, ns) # Unknown
      PROVE  GetTenantConfigForNamespace(ns) = ConfigIn(viper, ns)
  <2>1. Lists(viper, ns)
    BY <1>4 DEF ConfigIn, Lists
  <2>2. ns \in DOMAIN namespace /\ namespace[ns] = TenantOf(viper, ns)
    BY <1>1, <2>1 DEF InForce
  <2>3. ConfigIn(viper, ns) = IF ~viper.rd THEN TenantIn(viper, DefaultPartition)
                             ELSE TenantOf(viper, ns)
    BY <2>1 DEF ConfigIn, Lists, TenantOf
  <2>4. IsSupportRouteDomain <=> viper.rd
    BY <1>2 DEF IsSupportRouteDomain
  <2>5. Held(namespace, ns) = TenantOf(viper, ns)
    BY <2>2 DEF Held
  <2>6. CASE viper.rd
    BY <2>2, <2>3, <2>4, <2>5, <2>6, <1>4 DEF GetTenantConfigForNamespace
  <2>7. CASE ~viper.rd
    <3>1. GetTenantConfigForParttition(DefaultPartition) = ConfigIn(viper, ns)
      BY <1>3, <1>4, <2>3, <2>7 DEF GetTenantConfigForParttition, Held
    <3>2. Held(namespace, ns) # Unknown
      BY <2>2, <2>5, TenantKnown DEF Typed
    <3> QED
      BY <2>4, <2>7, <3>1, <3>2 DEF GetTenantConfigForNamespace
  <2> QED
    BY <2>6, <2>7
<1> QED
  BY <1>2, <1>4 DEF Says

LEMMA LoadInvStep ==
    ASSUME EditsWait = "loaded", TypeInv, Loading, LoadInv, [Next]_vars
    PROVE  LoadInv'
<1>0. Typed
  BY DEF TypeInv
<1>1. CASE Start
  <2>1. \A l \in Loaders : loading[l] = Idle
    BY <1>1 DEF Start, TypeInv, OnlyMain
  <2>2. /\ Main \in Loaders /\ loading'[Main] = Spawned
        /\ \A l \in Loaders \ {Main} : loading'[l] = Idle
    BY <1>0, <1>1, <2>1, ConfigAssumption DEF Start, Typed
  <2>3. ~event' /\ file' \in {viper', Garbled} /\ phase' = "init"
    BY <1>1 DEF Start, ReadInConfig, LoadInv
  <2>4. Bare(loading[Main])'
    <3>1. Bare(loading[Main]) /\ partition' = partition
      BY <1>1 DEF Loading, Start, cached
    <3>2. Spawned[1].kind # "partition" /\ Len(Spawned) = 1
      BY SpawnedIs
    <3> QED
      BY <2>2, <3>1, <3>2 DEF Bare
  <2> QED
    BY <2>2, <2>3, <2>4 DEF LoadInv
<1>2. CASE Started
  <2>1. phase # "stopped" /\ ~event
    BY <1>2 DEF Started, LoadInv
  <2>2. /\ UNCHANGED <<file, event, viper, loading, values, partition, namespace>>
        /\ phase' = "running"
    BY <1>2 DEF Started, cached
  <2>3. \A l \in Loaders : InForce(loading[l])' <=> InForce(loading[l])
    BY <2>2 DEF InForce
  <2>4. viper \in Files
    <3>1. DefaultPartition \in DOMAIN partition
      BY <1>2 DEF Started, GetTenantConfigForParttition, Held
    <3> QED
      BY <1>2, <3>1 DEF Started, LoadInv, Bare
  <2> QED
    BY <2>1, <2>2, <2>3, <2>4 DEF LoadInv
<1>3. CASE NoCommon \/ Crash \/ \E l \in Loaders : Panic(l)
  <2>1. Stopped
    BY <1>3 DEF NoCommon, Crash, Panic
  <2> QED
    BY <2>1 DEF Stopped, LoadInv
<1>4. ASSUME NEW l \in Loaders, Unmarshal(l) PROVE LoadInv'
  <2>1. loading[l] # Idle /\ viper # Invalid
    BY <1>4 DEF Unmarshal, Unread
  <2>2. /\ ~event /\ phase # "stopped" /\ file \in {viper, Garbled}
        /\ \A m \in Loaders \ {l} : loading[m] = Idle
    BY <2>1, MainLoads DEF LoadInv, Loaded
  <2>3. /\ loading'[l] = Work(viper)
        /\ \A m \in Loaders \ {l} : loading'[m] = Idle
        /\ UNCHANGED <<file, event, viper, phase, values, partition, namespace>>
    BY <1>0, <1>4, <2>2 DEF Unmarshal, Typed, cached
  <2>4. InForce(Work(viper))
    BY <1>0, <2>1, ConfigAssumption, InForceWork DEF Typed
  <2>5. InForce(loading[l])'
    BY <2>3, <2>4 DEF InForce
  <2>6. phase = "init" => viper \in Files \/ Bare(loading[Main])'
    BY <1>0, <1>4, <2>1, MainLoads, BareUnread DEF LoadInv
  <2> QED
    BY <2>2, <2>3, <2>5, <2>6 DEF LoadInv
<1>5. ASSUME NEW l \in Loaders, Store(l) PROVE LoadInv'
  <2>1. /\ loading[l] \in Seq(Entries) /\ loading[l] # Idle
        /\ loading' = [loading EXCEPT ![l] = Tail(loading[l])]
        /\ UNCHANGED <<file, event, viper, phase>>
    BY <1>0, <1>5, StoreIs DEF Idle
  <2>2. /\ ~event /\ phase # "stopped" /\ file \in {viper, Garbled}
        /\ \A m \in Loaders \ {l} : loading[m] = Idle
    BY <2>1, MainLoads DEF LoadInv, Loaded
  <2>3. \A m \in Loaders \ {l} : loading'[m] = Idle
    BY <1>0, <2>1, <2>2 DEF Typed
  <2>4. \A m \in Loaders : loading[m] # Spawned
    BY <2>1, <2>2, SpawnedIs
  <2>5. PICK k \in Loaders : /\ InForce(loading[k])
                             /\ \A m \in Loaders : m # k => loading[m] = Idle
    BY <2>2, <2>4 DEF LoadInv
  <2>6. k = l
    BY <2>1, <2>5
  <2>7. InForce(loading[l])'
    BY <1>5, <2>5, <2>6, InForceStored
  <2>8. phase = "init" => viper \in Files \/ Bare(loading[Main])'
    BY <1>0, <1>5, <2>1, MainLoads, BareStored DEF LoadInv
  <2> QED
    BY <2>1, <2>2, <2>3, <2>7, <2>8 DEF LoadInv
<1>6. CASE Notify
  <2>1. event /\ phase = "running" /\ \A m \in Loaders : loading[m] = Idle
    BY <1>6 DEF Notify, LoadInv, Loaded
  <2>2. PICK l \in Loaders : loading' = [loading EXCEPT ![l] = Spawned]
    BY <1>6, <2>1 DEF Notify
  <2>3. loading'[l] = Spawned /\ \A m \in Loaders \ {l} : loading'[m] = Idle
    BY <1>0, <2>1, <2>2 DEF Typed
  <2>4. ~event' /\ file' \in {viper', Garbled} /\ viper' \in Files /\ phase' = "running"
    BY <1>0, <1>6, <2>1 DEF Notify, ReadInConfig, LoadInv, Typed
  <2> QED
    BY <2>3, <2>4 DEF LoadInv
<1>7. CASE Change
  <2>1. /\ phase = "stopped" \/ (phase = "running" /\ Loaded)
        /\ event' = (phase # "stopped")
        /\ phase' = phase /\ loading' = loading /\ viper' = viper
    BY <1>7 DEF Change
  <2>2. CASE phase = "stopped"
    BY <2>1, <2>2 DEF LoadInv
  <2>3. CASE phase = "running" /\ Loaded
    BY <2>1, <2>3 DEF LoadInv, Loaded
  <2> QED
    BY <2>1, <2>2, <2>3
<1>8. CASE UNCHANGED vars
  <2>1. UNCHANGED <<file, event, viper, phase, loading, values, partition, namespace>>
    BY <1>8 DEF vars, cached
  <2>2. \A l \in Loaders : InForce(loading[l])' <=> InForce(loading[l])
    BY <2>1 DEF InForce
  <2>3. Bare(loading[Main])' <=> Bare(loading[Main])
    BY <2>1 DEF Bare
  <2> QED
    BY <2>1, <2>2, <2>3 DEF LoadInv, Loaded
<1> QED
  BY <1>1, <1>2, <1>3, <1>4, <1>5, <1>6, <1>7, <1>8 DEF Next, Step

\* When an edit waits until the last one is loaded, every lookup that nothing is under way
\* for says what viper read last says: a namespace has the last tenant that lists it,
\* Common's if route domains are off, with the route domain and pool of the file (init.go,
\* register.go).  That is the file, unless it is no YAML: then viper keeps what it had.
\* Without that, TenantConfig_Overlap and TenantConfig_EarlyEdit show the contrary.
THEOREM LoadedIsInForce ==
    ASSUME EditsWait = "loaded"
    PROVE  Spec => []Reloaded
<1>1. Init => WatchInv /\ LoadInv
  BY WatchInvInit DEF Init, LoadInv
<1>2. WatchInv /\ LoadInv /\ [Next]_vars => (WatchInv /\ LoadInv)'
  BY WatchInvStep, LoadInvStep DEF WatchInv
<1>3. WatchInv /\ LoadInv => Reloaded
  <2> SUFFICES ASSUME Typed, LoadInv, Settled
               PROVE  /\ viper \in Files \cap As3Config /\ Says(viper)
                      /\ file \in {viper, Garbled}
    BY DEF Reloaded, WatchInv, TypeInv
  <2>1. /\ phase = "running" /\ ~event /\ \A l \in Loaders : loading[l] = Idle
    BY DEF Settled, Loaded
  <2>2. PICK l \in Loaders : InForce(loading[l])
    BY <2>1, SpawnedIs DEF LoadInv
  <2>3. InForce(Idle)
    BY <2>1, <2>2
  <2>4. viper \in Files \cap As3Config /\ file \in {viper, Garbled}
    BY <2>1, <2>3 DEF LoadInv, InForce
  <2> QED
    BY <2>3, <2>4, InForceNow
<1> QED
  BY <1>1, <1>2, <1>3, PTL DEF Spec
=============================================================================
