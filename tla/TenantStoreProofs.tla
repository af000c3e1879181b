-------------------------- MODULE TenantStoreProofs --------------------------
(***************************************************************************)
(* Proofs about TenantStore for every set of rules and requests: what        *)
(* fullResource posts uses lists that are declared and declares only lists   *)
(* that are used, each policy has its rules' uses in the order they came in  *)
(* with the deny-all last, and a request that is made again changes nothing. *)
(***************************************************************************)
EXTENDS TenantStore, SequenceTheorems, WellFoundedInduction, TLAPS

-----------------------------------------------------------------------------
(* What policyMergeFullJson makes of a policy: what is left of a sequence without    *)
(* some elements, and where the deny-all goes.  The induction over sequences goes by *)
(* the least index for which a statement fails.                                      *)

\* A set of numbers has a least one.
LEMMA LeastNat ==
    ASSUME NEW T \in SUBSET Nat, T # {}
    PROVE  \E n \in T : \A m \in T : n <= m
<1> DEFINE R == OpToRel(<, Nat)
<1>1. IsWellFoundedOn(R, Nat)
  BY NatLessThanWellFounded
<1>2. \A m, n \in Nat : m < n => <<m, n>> \in R
  BY DEF OpToRel
<1>3. PICK n \in T : \A m \in T : ~(<<m, n>> \in R)
  <2> HIDE DEF R
  <2>1. T \subseteq Nat
    OBVIOUS
  <2> QED
    BY <1>1, <2>1, WFMin
<1>4. ASSUME NEW m \in T PROVE n <= m
  <2>1. ~(m < n)
    BY <1>2, <1>3
  <2> QED
    BY <2>1
<1> QED
  BY <1>4

-----------------------------------------------------------------------------
(* Without *)

\* left is what the loop of Without has gathered after each of n elements.
Loop(left, s, S, n) ==
    left = [m \in 0..n |-> IF m = 0 THEN <<>>
                           ELSE IF s[m] \in S THEN left[m-1] ELSE Append(left[m-1], s[m])]

\* The loop can be carried out.
LEMMA LoopExists ==
    ASSUME NEW A, NEW s \in Seq(A), NEW S
    PROVE  \E left : Loop(left, s, S, Len(s)) /\ Without(s, S) = left[Len(s)]
<1> DEFINE P(n) == \E f : Loop(f, s, S, n)
           T == {n \in 0..Len(s) : ~P(n)}
<1>1. P(0)
  <2> DEFINE g == [n \in 0..0 |-> <<>>]
  <2>1. Loop(g, s, S, 0)
    BY DEF Loop
  <2> QED
    BY <2>1
<1>2. ASSUME NEW n \in 0..Len(s), n # 0, P(n-1)
      PROVE  P(n)
  <2>1. PICK f : Loop(f, s, S, n-1)
    BY <1>2
  <2> DEFINE g == [m \in 0..n |-> IF m < n THEN f[m]
                                  ELSE IF s[n] \in S THEN f[n-1] ELSE Append(f[n-1], s[n])]
  <2>2. \A m \in 0..n-1 : f[m] = IF m = 0 THEN <<>>
                                 ELSE IF s[m] \in S THEN f[m-1] ELSE Append(f[m-1], s[m])
    BY <2>1 DEF Loop
  <2>3. \A m \in 0..n : g[m] = IF m = 0 THEN <<>>
                               ELSE IF s[m] \in S THEN g[m-1] ELSE Append(g[m-1], s[m])
    BY <2>2, <1>2
  <2>4. Loop(g, s, S, n)
    BY <2>3 DEF Loop
  <2> QED
    BY <2>4
<1>3. T = {}
  <2> SUFFICES ASSUME T # {} PROVE FALSE
    OBVIOUS
  <2>1. PICK n \in T : \A m \in T : n <= m
    <3>1. T \in SUBSET Nat
      OBVIOUS
    <3> HIDE DEF T
    <3> QED
      BY <3>1, LeastNat
  <2>2. n # 0 /\ n \in 0..Len(s)
    BY <1>1
  <2>3. n-1 \notin T
    BY <2>1, <2>2
  <2>4. P(n-1)
    BY <2>3, <2>2
  <2> HIDE DEF P
  <2> QED
    BY <2>4, <2>2, <1>2
<1>4. P(Len(s))
  <2>1. Len(s) \in 0..Len(s)
    OBVIOUS
  <2> QED
    BY <1>3, <2>1
<1> QED
  BY <1>4 DEF Without, Loop

\* h gives the place in s, among the first m, of each element of t: t is what is
\* left of them without S, in order.
Places(h, t, s, S, m) ==
    /\ h \in [1..Len(t) -> 1..m]
    /\ \A j, k \in 1..Len(t) : j < k => h[j] < h[k]
    /\ \A j \in 1..Len(t) : t[j] = s[h[j]] /\ t[j] \notin S
    /\ \A i \in 1..m : s[i] \notin S => \E j \in 1..Len(t) : h[j] = i

LEMMA WithoutPlaces ==
    ASSUME NEW A, NEW s \in Seq(A), NEW S
    PROVE  /\ Without(s, S) \in Seq(A)
           /\ \E h : Places(h, Without(s, S), s, S, Len(s))
<1>1. PICK f : Loop(f, s, S, Len(s)) /\ Without(s, S) = f[Len(s)]
  BY LoopExists
<1>2. \A m \in 0..Len(s) : f[m] = IF m = 0 THEN <<>>
                                 ELSE IF s[m] \in S THEN f[m-1] ELSE Append(f[m-1], s[m])
  BY <1>1 DEF Loop
<1> DEFINE P(n) == f[n] \in Seq(A) /\ \E h : Places(h, f[n], s, S, n)
           T == {n \in 0..Len(s) : ~P(n)}
<1>3. P(0)
  <2> DEFINE h == [j \in 1..0 |-> 0]
  <2>1. f[0] = <<>>
    BY <1>2
  <2>2. Places(h, f[0], s, S, 0)
    BY <2>1 DEF Places
  <2> QED
    BY <2>1, <2>2
<1>4. ASSUME NEW n \in 0..Len(s), n # 0, P(n-1)
      PROVE  P(n)
  <2>1. PICK g : Places(g, f[n-1], s, S, n-1)
    BY <1>4
  <2> PICK t : t = f[n-1]
    OBVIOUS
  <2>2. t \in Seq(A) /\ Len(t) \in Nat
    BY <1>4
  <2>3. CASE s[n] \in S
    <3>1. f[n] = t
      BY <1>2, <1>4, <2>3
    <3>2. Places(g, t, s, S, n)
      BY <1>4, <2>1, <2>2, <2>3 DEF Places
    <3> QED
      BY <2>2, <3>1, <3>2
  <2>4. CASE s[n] \notin S
    <3> DEFINE u == Append(t, s[n])
               h == [j \in 1..Len(u) |-> IF j <= Len(t) THEN g[j] ELSE n]
    <3>1. f[n] = u
      BY <1>2, <1>4, <2>4
    <3>2. s[n] \in A
      BY <1>4
    <3>3. /\ u \in Seq(A) /\ Len(u) = Len(t) + 1 /\ u[Len(t) + 1] = s[n]
          /\ \A j \in 1..Len(t) : u[j] = t[j]
      BY <2>2, <3>2, AppendProperties
    <3> HIDE DEF u
    <3>4. h \in [1..Len(u) -> 1..n]
      BY <1>4, <2>1, <2>2, <3>3 DEF Places
    <3>5. \A j, k \in 1..Len(u) : j < k => h[j] < h[k]
      <4>1. \A j \in 1..Len(t) : g[j] \in Nat /\ g[j] < n
        <5>1. g \in [1..Len(t) -> 1..n-1]
          BY <2>1 DEF Places
        <5>2. \A i \in 1..n-1 : i \in Nat /\ i < n
          BY <1>4
        <5> QED
          BY <5>1, <5>2
      <4>2. \A j, k \in 1..Len(t) : j < k => g[j] < g[k]
        BY <2>1 DEF Places
      <4>3. \A k \in 1..Len(u) : k <= Len(t) \/ k = Len(t) + 1
        BY <2>2, <3>3
      <4> QED
        BY <2>2, <3>3, <4>1, <4>2, <4>3
    <3>6. \A j \in 1..Len(u) : u[j] = s[h[j]] /\ u[j] \notin S
      <4>1. \A j \in 1..Len(t) : t[j] = s[g[j]] /\ t[j] \notin S
        BY <2>1 DEF Places
      <4>2. \A j \in 1..Len(u) : j = Len(t) + 1 \/ (j \in 1..Len(t) /\ j <= Len(t))
        BY <2>2, <3>3
      <4>3. ~(Len(t) + 1 <= Len(t))
        BY <2>2
      <4> QED
        BY <2>4, <3>3, <4>1, <4>2, <4>3
    <3>7. \A i \in 1..n : s[i] \notin S => \E j \in 1..Len(u) : h[j] = i
      <4> SUFFICES ASSUME NEW i \in 1..n, s[i] \notin S PROVE \E j \in 1..Len(u) : h[j] = i
        OBVIOUS
      <4>1. CASE i = n
        <5>1. Len(u) \in 1..Len(u) /\ h[Len(u)] = n
          BY <2>2, <3>3
        <5> QED
          BY <4>1, <5>1
      <4>2. CASE i # n
        <5>1. PICK j \in 1..Len(t) : g[j] = i
          BY <1>4, <2>1, <4>2 DEF Places
        <5>2. j \in 1..Len(u) /\ h[j] = i
          BY <2>2, <3>3, <5>1
        <5> QED
          BY <5>2
      <4> QED
        BY <4>1, <4>2
    <3> HIDE DEF h
    <3>8. Places(h, u, s, S, n)
      BY <3>4, <3>5, <3>6, <3>7 DEF Places
    <3> QED
      BY <3>1, <3>3, <3>8
  <2> QED
    BY <2>3, <2>4
<1>5. T = {}
  <2> SUFFICES ASSUME T # {} PROVE FALSE
    OBVIOUS
  <2>1. PICK n \in T : \A m \in T : n <= m
    <3>1. T \in SUBSET Nat
      OBVIOUS
    <3> HIDE DEF T
    <3> QED
      BY <3>1, LeastNat
  <2>2. n # 0 /\ n \in 0..Len(s)
    BY <1>3
  <2> HIDE DEF P
  <2>3. P(n-1)
    BY <2>1, <2>2
  <2> QED
    BY <1>4, <2>2, <2>3
<1>6. P(Len(s))
  <2>1. Len(s) \in 0..Len(s)
    OBVIOUS
  <2> HIDE DEF P
  <2> QED
    BY <1>5, <2>1
<1> QED
  BY <1>1, <1>6

\* What is left of s without S.
LEMMA WithoutRange ==
    ASSUME NEW A, NEW s \in Seq(A), NEW S
    PROVE  Range(Without(s, S)) = Range(s) \ S
<1> PICK t : t = Without(s, S)
  OBVIOUS
<1>1. t \in Seq(A)
  BY WithoutPlaces
<1>2. PICK h : Places(h, t, s, S, Len(s))
  BY WithoutPlaces
<1>3. \A j \in 1..Len(t) : h[j] \in 1..Len(s) /\ t[j] = s[h[j]] /\ t[j] \notin S
  BY <1>2 DEF Places
<1>4. \A i \in 1..Len(s) : s[i] \notin S => \E j \in 1..Len(t) : t[j] = s[i]
  BY <1>2 DEF Places
<1>5. Range(t) = {t[j] : j \in 1..Len(t)} /\ Range(s) = {s[i] : i \in 1..Len(s)}
  BY <1>1 DEF Range
<1> QED
  BY <1>3, <1>4, <1>5

\* Nothing is left twice.
LEMMA WithoutInjective ==
    ASSUME NEW A, NEW s \in Seq(A), NEW S, IsInjective(s)
    PROVE  IsInjective(Without(s, S))
<1> PICK t : t = Without(s, S)
  OBVIOUS
<1>1. t \in Seq(A)
  BY WithoutPlaces
<1>2. PICK h : Places(h, t, s, S, Len(s))
  BY WithoutPlaces
<1>3. \A j \in 1..Len(t) : h[j] \in 1..Len(s) /\ t[j] = s[h[j]]
  BY <1>2 DEF Places
<1>4. ASSUME NEW j \in 1..Len(t), NEW k \in 1..Len(t), t[j] = t[k]
      PROVE  j = k
  <2>1. h[j] = h[k]
    BY <1>3, <1>4 DEF IsInjective
  <2>2. h[j] \in Int
    BY <1>3
  <2>3. ~(j < k) /\ ~(k < j)
    BY <1>2, <2>1, <2>2 DEF Places
  <2> QED
    BY <1>1, <2>3
<1> QED
  BY <1>1, <1>4 DEF IsInjective

\* What is left stays in order.
LEMMA WithoutOrder ==
    ASSUME NEW A, NEW s \in Seq(A), NEW S, NEW i \in DOMAIN s, NEW j \in DOMAIN s,
           i < j, s[i] \notin S, s[j] \notin S
    PROVE  \E k, l \in DOMAIN Without(s, S) :
                k < l /\ Without(s, S)[k] = s[i] /\ Without(s, S)[l] = s[j]
<1> PICK t : t = Without(s, S)
  OBVIOUS
<1>1. t \in Seq(A) /\ Len(t) \in Nat
  BY WithoutPlaces
<1>2. PICK h : Places(h, t, s, S, Len(s))
  BY WithoutPlaces
<1>3. i \in 1..Len(s) /\ j \in 1..Len(s)
  OBVIOUS
<1>4. PICK k \in 1..Len(t) : h[k] = i
  BY <1>2, <1>3 DEF Places
<1>5. PICK l \in 1..Len(t) : h[l] = j
  BY <1>2, <1>3 DEF Places
<1>6. t[k] = s[i] /\ t[l] = s[j]
  BY <1>2, <1>4, <1>5 DEF Places
<1>7. k < l
  <2>1. l < k => j < i
    BY <1>2, <1>4, <1>5 DEF Places
  <2>2. k # l
    BY <1>3, <1>4, <1>5
  <2> QED
    BY <1>1, <1>3, <2>1, <2>2
<1> QED
  BY <1>1, <1>6, <1>7

\* A last element that is not taken away stays the last.
LEMMA WithoutLast ==
    ASSUME NEW A, NEW s \in Seq(A), NEW S, s # <<>>, s[Len(s)] \notin S
    PROVE  /\ Without(s, S) # <<>>
           /\ Without(s, S)[Len(Without(s, S))] = s[Len(s)]
<1> PICK t : t = Without(s, S)
  OBVIOUS
<1>1. t \in Seq(A) /\ Len(t) \in Nat
  BY WithoutPlaces
<1>2. PICK h : Places(h, t, s, S, Len(s))
  BY WithoutPlaces
<1>3. Len(s) \in 1..Len(s)
  BY EmptySeq
<1>4. PICK j \in 1..Len(t) : h[j] = Len(s)
  BY <1>2, <1>3 DEF Places
<1>5. Len(t) \in 1..Len(t)
  BY <1>1, <1>4
<1>6. j = Len(t)
  <2>1. h[Len(t)] \in 1..Len(s)
    BY <1>2, <1>5 DEF Places
  <2>2. j < Len(t) => Len(s) < h[Len(t)]
    BY <1>2, <1>4, <1>5 DEF Places
  <2> QED
    BY <1>1, <1>3, <2>1, <2>2
<1>7. t[Len(t)] = s[Len(s)]
  BY <1>2, <1>4, <1>6 DEF Places
<1> QED
  BY <1>1, <1>5, <1>7

\* If there is nothing to take away, all is left.
LEMMA WithoutNothing ==
    ASSUME NEW A, NEW s \in Seq(A), NEW S, Range(s) \cap S = {}
    PROVE  Without(s, S) = s
<1>1. PICK f : Loop(f, s, S, Len(s)) /\ Without(s, S) = f[Len(s)]
  BY LoopExists
<1>2. \A m \in 0..Len(s) : f[m] = IF m = 0 THEN <<>>
                                 ELSE IF s[m] \in S THEN f[m-1] ELSE Append(f[m-1], s[m])
  BY <1>1 DEF Loop
<1> DEFINE P(n) == /\ f[n] \in Seq(A) /\ Len(f[n]) = n
                   /\ \A i \in 1..n : f[n][i] = s[i]
           T == {n \in 0..Len(s) : ~P(n)}
<1>3. P(0)
  <2>1. f[0] = <<>>
    BY <1>2
  <2> QED
    BY <2>1
<1>4. ASSUME NEW n \in 0..Len(s), n # 0, P(n-1)
      PROVE  P(n)
  <2>1. s[n] \in A /\ s[n] \notin S /\ n \in 1..Len(s)
    BY <1>4 DEF Range
  <2> PICK t : t = f[n-1]
    OBVIOUS
  <2>2. f[n] = Append(t, s[n])
    BY <1>2, <1>4, <2>1
  <2>3. /\ f[n] \in Seq(A) /\ Len(f[n]) = Len(t) + 1 /\ f[n][Len(t) + 1] = s[n]
        /\ \A i \in 1..Len(t) : f[n][i] = t[i]
    BY <1>4, <2>1, <2>2, AppendProperties
  <2>4. Len(t) + 1 = n /\ \A i \in 1..n : i = n \/ i \in 1..Len(t)
    BY <1>4
  <2> QED
    BY <1>4, <2>3, <2>4
<1>5. T = {}
  <2> SUFFICES ASSUME T # {} PROVE FALSE
    OBVIOUS
  <2>1. PICK n \in T : \A m \in T : n <= m
    <3>1. T \in SUBSET Nat
      OBVIOUS
    <3> HIDE DEF T
    <3> QED
      BY <3>1, LeastNat
  <2>2. n # 0 /\ n \in 0..Len(s)
    BY <1>3
  <2> HIDE DEF P
  <2>3. P(n-1)
    BY <2>1, <2>2
  <2> QED
    BY <1>4, <2>2, <2>3
<1>6. P(Len(s))
  <2>1. Len(s) \in 0..Len(s)
    OBVIOUS
  <2> HIDE DEF P
  <2> QED
    BY <1>5, <2>1
<1> QED
  BY <1>1, <1>6, SeqEqual

-----------------------------------------------------------------------------
(* DenyToEnd *)

LEMMA DenyNowhere ==
    ASSUME NEW s, Deny \notin Range(s)
    PROVE  DenyToEnd(s) = s
BY DEF DenyToEnd

\* The deny-all and the last use change places, the others keep theirs.
LEMMA DenySwaps ==
    ASSUME NEW A, NEW s \in Seq(A), IsInjective(s), NEW p \in DOMAIN s, s[p] = Deny
    PROVE  LET r == DenyToEnd(s)
           IN  /\ r \in Seq(A) /\ Len(r) = Len(s)
               /\ r[Len(s)] = Deny
               /\ p # Len(s) => r[p] = s[Len(s)]
               /\ \A i \in DOMAIN s : i # p /\ i # Len(s) => r[i] = s[i]
<1> DEFINE r == DenyToEnd(s)
<1>1. Deny \in Range(s)
  BY DEF Range
<1>2. (CHOOSE i \in DOMAIN s : s[i] = Deny /\ \A j \in DOMAIN s : s[j] = Deny => j <= i) = p
  BY DEF IsInjective
<1>3. r = [s EXCEPT ![p] = s[Len(s)], ![Len(s)] = Deny]
  BY <1>1, <1>2 DEF DenyToEnd
<1>4. Len(s) \in 1..Len(s) /\ s[Len(s)] \in A /\ Deny \in A
  OBVIOUS
<1> QED
  BY <1>3, <1>4

\* It neither adds nor drops a use.
LEMMA DenyToEndKeeps ==
    ASSUME NEW A, NEW s \in Seq(A), IsInjective(s)
    PROVE  LET r == DenyToEnd(s)
           IN  /\ r \in Seq(A) /\ IsInjective(r) /\ Range(r) = Range(s)
               /\ Deny \in Range(s) => r # <<>> /\ r[Len(r)] = Deny
<1> DEFINE r == DenyToEnd(s)
<1>1. CASE Deny \notin Range(s)
  BY <1>1, DenyNowhere
<1>2. CASE Deny \in Range(s)
  <2>1. PICK p \in DOMAIN s : s[p] = Deny
    BY <1>2 DEF Range
  <2>2. /\ r \in Seq(A) /\ Len(r) = Len(s)
        /\ r[Len(s)] = Deny
        /\ p # Len(s) => r[p] = s[Len(s)]
        /\ \A i \in DOMAIN s : i # p /\ i # Len(s) => r[i] = s[i]
    BY <2>1, DenySwaps
  <2> DEFINE n == Len(s)
             to == [i \in DOMAIN s |-> IF i = p THEN n ELSE IF i = n THEN p ELSE i]
  <2>3. n \in DOMAIN s /\ DOMAIN r = DOMAIN s
    BY <2>1, <2>2
  <2> HIDE DEF r
  <2>4. \A i \in DOMAIN s : to[i] \in DOMAIN s /\ r[i] = s[to[i]] /\ to[to[i]] = i
    BY <2>1, <2>2, <2>3
  <2> HIDE DEF to
  <2>5. Range(r) = Range(s)
    <3>1. \A i \in DOMAIN s : r[i] \in Range(s)
      BY <2>4 DEF Range
    <3>2. \A i \in DOMAIN s : s[i] = r[to[i]]
      BY <2>4
    <3>3. ASSUME NEW i \in DOMAIN s PROVE s[i] \in Range(r)
      <4>1. to[i] \in DOMAIN r
        BY <2>3, <2>4
      <4> QED
        BY <3>2, <4>1 DEF Range
    <3> QED
      BY <2>3, <3>1, <3>3 DEF Range
  <2>6. IsInjective(r)
    <3>1. ASSUME NEW i \in DOMAIN s, NEW j \in DOMAIN s, r[i] = r[j] PROVE i = j
      <4>1. to[i] \in DOMAIN s /\ to[j] \in DOMAIN s /\ s[to[i]] = s[to[j]]
        BY <2>4, <3>1
      <4>2. to[i] = to[j]
        BY <4>1 DEF IsInjective
      <4> QED
        BY <2>4, <4>2
    <3> QED
      BY <2>3, <3>1 DEF IsInjective
  <2> QED
    BY <2>2, <2>3, <2>5, <2>6 DEF r
<1> QED
  BY <1>1, <1>2

\* A deny-all that is the last use stays there.
LEMMA DenyStays ==
    ASSUME NEW A, NEW s \in Seq(A), IsInjective(s), s # <<>>, s[Len(s)] = Deny
    PROVE  DenyToEnd(s) = s
<1>1. Len(s) \in DOMAIN s
  BY EmptySeq
<1> DEFINE r == DenyToEnd(s)
<1>2. /\ r \in Seq(A) /\ Len(r) = Len(s)
      /\ r[Len(s)] = Deny
      /\ \A i \in DOMAIN s : i # Len(s) => r[i] = s[i]
  BY <1>1, DenySwaps
<1> HIDE DEF r
<1>3. \A i \in 1..Len(s) : r[i] = s[i]
  BY <1>2
<1>4. r = s
  BY <1>2, <1>3, SeqEqual
<1> QED
  BY <1>4 DEF r

-----------------------------------------------------------------------------
(* Policies *)

\* The uses of a policy of type y: each once, the deny-all at the end of the service
\* policy and in no other.
PolicyShape(s, y) ==
    /\ s \in Seq(Uses) /\ IsInjective(s)
    /\ y = "svc" => s # <<>> /\ s[Len(s)] = Deny
    /\ y # "svc" => Deny \notin Range(s)

LEMMA ShapeStays ==
    ASSUME NEW s, NEW y, PolicyShape(s, y)
    PROVE  DenyToEnd(s) = s
BY DenyStays, DenyNowhere DEF PolicyShape

LEMMA ConcatRange ==
    ASSUME NEW A, NEW s \in Seq(A), NEW t \in Seq(A)
    PROVE  Range(s \o t) = Range(s) \cup Range(t)
<1> DEFINE c == s \o t
<1>1. /\ DOMAIN s = 1..Len(s) /\ DOMAIN t = 1..Len(t) /\ DOMAIN c = 1..(Len(s) + Len(t))
      /\ Len(s) \in Nat /\ Len(t) \in Nat
      /\ \A i \in 1..Len(s) : c[i] = s[i]
      /\ \A i \in 1..Len(t) : c[Len(s) + i] = t[i]
  BY ConcatProperties
<1> HIDE DEF c
<1>2. \A i \in DOMAIN c : i \in DOMAIN s \/ (i - Len(s) \in DOMAIN t /\ i = Len(s) + (i - Len(s)))
  BY <1>1
<1>3. \A i \in DOMAIN s : i \in DOMAIN c
  BY <1>1
<1>4. \A i \in DOMAIN t : Len(s) + i \in DOMAIN c
  BY <1>1
<1>5. Range(c) \subseteq Range(s) \cup Range(t)
  BY <1>1, <1>2 DEF Range
<1>6. Range(s) \cup Range(t) \subseteq Range(c)
  BY <1>1, <1>3, <1>4 DEF Range
<1> QED
  BY <1>5, <1>6 DEF c

LEMMA ConcatInjective ==
    ASSUME NEW A, NEW s \in Seq(A), NEW t \in Seq(A), IsInjective(s), IsInjective(t),
           Range(s) \cap Range(t) = {}
    PROVE  IsInjective(s \o t)
<1> DEFINE c == s \o t
<1>1. /\ DOMAIN s = 1..Len(s) /\ DOMAIN t = 1..Len(t) /\ DOMAIN c = 1..(Len(s) + Len(t))
      /\ Len(s) \in Nat /\ Len(t) \in Nat
      /\ \A i \in DOMAIN c : c[i] = IF i <= Len(s) THEN s[i] ELSE t[i - Len(s)]
  BY ConcatProperties
<1> HIDE DEF c
<1>2. \A i \in DOMAIN c : \/ i \in DOMAIN s /\ c[i] = s[i]
                          \/ i - Len(s) \in DOMAIN t /\ c[i] = t[i - Len(s)] /\ i > Len(s)
  BY <1>1
<1>3. ASSUME NEW i \in DOMAIN c, NEW j \in DOMAIN c, c[i] = c[j] PROVE i = j
  <2>1. CASE i \in DOMAIN s /\ c[i] = s[i] /\ j \in DOMAIN s /\ c[j] = s[j]
    BY <1>3, <2>1 DEF IsInjective
  <2>2. CASE /\ i - Len(s) \in DOMAIN t /\ c[i] = t[i - Len(s)]
             /\ j - Len(s) \in DOMAIN t /\ c[j] = t[j - Len(s)]
    <3>1. i - Len(s) = j - Len(s)
      BY <1>3, <2>2 DEF IsInjective
    <3> QED
      BY <1>1, <3>1
  <2>3. ~ \E k \in DOMAIN s, l \in DOMAIN t : s[k] = t[l]
    BY DEF Range
  <2> QED
    BY <1>2, <1>3, <2>1, <2>2, <2>3
<1> QED
  BY <1>3 DEF c, IsInjective

\* Sequences without repetition and with at most one element, and the same ones.
LEMMA ShortSame ==
    ASSUME NEW A, NEW s \in Seq(A), NEW t \in Seq(A), Len(s) < 2, IsInjective(t),
           Range(s) = Range(t)
    PROVE  s = t
<1>1. Len(s) \in Nat /\ Len(t) \in Nat /\ DOMAIN s = 1..Len(s) /\ DOMAIN t = 1..Len(t)
  OBVIOUS
<1>2. /\ \A i \in 1..Len(s) : \E j \in 1..Len(t) : s[i] = t[j]
      /\ \A j \in 1..Len(t) : \E i \in 1..Len(s) : t[j] = s[i]
  BY <1>1 DEF Range
<1>3. \A i, j \in 1..Len(t) : t[i] = t[j] => i = j
  BY <1>1 DEF IsInjective
<1>4. CASE Len(s) = 0
  <2>1. Len(t) = 0
    <3>1. 1 \in 1..Len(t) => FALSE
      BY <1>2, <1>4
    <3> QED
      BY <1>1, <3>1
  <2> QED
    BY <1>4, <2>1, EmptySeq
<1>5. CASE Len(s) = 1
  <2>1. 1..Len(s) = {1}
    BY <1>5
  <2>2. \A j \in 1..Len(t) : t[j] = s[1]
    BY <1>2, <2>1
  <2>3. PICK j \in 1..Len(t) : s[1] = t[j]
    BY <1>2, <2>1
  <2>4. 1 \in 1..Len(t)
    BY <1>1, <2>3
  <2>5. \A i \in 1..Len(t) : i = 1
    BY <1>3, <2>2, <2>4
  <2>6. Len(t) \in 1..Len(t)
    BY <1>1, <2>3
  <2>7. Len(t) = 1
    BY <2>5, <2>6
  <2>8. \A i \in 1..Len(s) : s[i] = t[i]
    BY <2>1, <2>2, <2>4
  <2> QED
    BY <1>5, <2>7, <2>8, SeqEqual
<1>6. Len(s) = 0 \/ Len(s) = 1
  BY <1>1
<1> QED
  BY <1>4, <1>5, <1>6

\* What policyMergeFullJson makes of two policies of the same type.
LEMMA MergeShape ==
    ASSUME NEW s, NEW d, NEW y, PolicyShape(s, y), PolicyShape(d, y), NEW isDelete \in BOOLEAN
    PROVE  /\ PolicyShape(PolicyMerge(s, d, isDelete), y)
           /\ Range(PolicyMerge(s, d, isDelete)) =
                 IF isDelete THEN Range(s) \ (Range(d) \ {Deny}) ELSE Range(s) \cup Range(d)
<1> DEFINE r == PolicyMerge(s, d, isDelete)
<1>1. s \in Seq(Uses) /\ d \in Seq(Uses) /\ IsInjective(s) /\ IsInjective(d)
  BY DEF PolicyShape
<1>2. CASE isDelete
  <2> DEFINE w == Without(s, Range(d) \ {Deny})
  <2>1. /\ w \in Seq(Uses) /\ IsInjective(w)
        /\ Range(w) = Range(s) \ (Range(d) \ {Deny})
    BY <1>1, WithoutPlaces, WithoutInjective, WithoutRange
  <2>2. y = "svc" => w # <<>> /\ w[Len(w)] = Deny
    BY <1>1, WithoutLast DEF PolicyShape
  <2>3. y # "svc" => Deny \notin Range(w)
    BY <2>1 DEF PolicyShape
  <2>4. r = DenyToEnd(w)
    BY <1>2 DEF PolicyMerge
  <2> HIDE DEF w, r
  <2>5. PolicyShape(w, y)
    BY <2>1, <2>2, <2>3 DEF PolicyShape
  <2>6. r = w
    BY <2>4, <2>5, ShapeStays
  <2> QED
    BY <1>2, <2>1, <2>5, <2>6 DEF r
<1>3. CASE ~isDelete
  <2> DEFINE w == Without(d, Range(s))
             c == s \o w
  <2>1. w \in Seq(Uses) /\ IsInjective(w) /\ Range(w) = Range(d) \ Range(s)
    BY <1>1, WithoutPlaces, WithoutInjective, WithoutRange
  <2> HIDE DEF w
  <2>2. c \in Seq(Uses) /\ IsInjective(c) /\ Range(c) = Range(s) \cup Range(d)
    BY <1>1, <2>1, ConcatProperties, ConcatInjective, ConcatRange
  <2>3. r = DenyToEnd(c)
    BY <1>3 DEF PolicyMerge, w
  <2>4. y = "svc" => Deny \in Range(c)
    <3>1. y = "svc" => Len(s) \in DOMAIN s
      BY <1>1, EmptySeq DEF PolicyShape
    <3> QED
      BY <2>2, <3>1 DEF PolicyShape, Range
  <2>5. y # "svc" => Deny \notin Range(c)
    BY <2>2 DEF PolicyShape
  <2> HIDE DEF c, r
  <2>6. /\ r \in Seq(Uses) /\ IsInjective(r) /\ Range(r) = Range(c)
        /\ Deny \in Range(c) => r # <<>> /\ r[Len(r)] = Deny
    BY <2>2, <2>3, DenyToEndKeeps
  <2> QED
    BY <1>3, <2>2, <2>4, <2>5, <2>6 DEF r, PolicyShape
<1> QED
  BY <1>2, <1>3

\* If nothing in it is new, adding changes nothing.
LEMMA MergeIdempotent ==
    ASSUME NEW s, NEW d, NEW y, PolicyShape(s, y), PolicyShape(d, y), Range(d) \subseteq Range(s)
    PROVE  PolicyMerge(s, d, FALSE) = s
<1> DEFINE w == Without(d, Range(s))
<1>1. s \in Seq(Uses) /\ d \in Seq(Uses)
  BY DEF PolicyShape
<1>2. w \in Seq(Uses) /\ Range(w) = {}
  BY <1>1, WithoutPlaces, WithoutRange
<1> HIDE DEF w
<1>3. w = <<>>
  <2>1. w # <<>> => 1 \in DOMAIN w
    BY <1>2, EmptySeq
  <2> QED
    BY <1>2, <2>1 DEF Range
<1>4. s \o w = s
  BY <1>1, <1>3, ConcatEmptySeq
<1>5. PolicyMerge(s, d, FALSE) = DenyToEnd(s)
  BY <1>4 DEF PolicyMerge, w
<1> QED
  BY <1>5, ShapeStays

\* A merge that is done again changes nothing.
LEMMA MergeAgain ==
    ASSUME NEW s, NEW d, NEW y, PolicyShape(s, y), PolicyShape(d, y), NEW isDelete \in BOOLEAN
    PROVE  PolicyMerge(PolicyMerge(s, d, isDelete), d, isDelete) = PolicyMerge(s, d, isDelete)
<1> PICK r : r = PolicyMerge(s, d, isDelete)
  OBVIOUS
<1>1. /\ PolicyShape(r, y)
      /\ Range(r) = IF isDelete THEN Range(s) \ (Range(d) \ {Deny}) ELSE Range(s) \cup Range(d)
  BY MergeShape
<1>2. CASE isDelete
  <2>1. r \in Seq(Uses) /\ Range(r) \cap (Range(d) \ {Deny}) = {}
    BY <1>1, <1>2 DEF PolicyShape
  <2>2. Without(r, Range(d) \ {Deny}) = r
    BY <2>1, WithoutNothing
  <2>3. PolicyMerge(r, d, isDelete) = DenyToEnd(r)
    BY <1>2, <2>2 DEF PolicyMerge
  <2>4. PolicyMerge(r, d, isDelete) = r
    BY <1>1, <2>3, ShapeStays
  <2> QED
    BY <2>4
<1>3. CASE ~isDelete
  <2>1. Range(d) \subseteq Range(r) /\ isDelete = FALSE
    BY <1>1, <1>3
  <2>2. PolicyMerge(r, d, FALSE) = r
    BY <1>1, <2>1, MergeIdempotent
  <2> QED
    BY <2>1, <2>2
<1> QED
  BY <1>2, <1>3

\* Two uses that stay in a policy keep their order.
LEMMA MergeOrder ==
    ASSUME NEW s, NEW d, NEW y, PolicyShape(s, y), PolicyShape(d, y), NEW isDelete \in BOOLEAN,
           NEW i \in DOMAIN s, NEW j \in DOMAIN s, i < j,
           s[i] \in Range(PolicyMerge(s, d, isDelete)),
           s[j] \in Range(PolicyMerge(s, d, isDelete))
    PROVE  \E k, l \in DOMAIN PolicyMerge(s, d, isDelete) :
                /\ k < l
                /\ PolicyMerge(s, d, isDelete)[k] = s[i]
                /\ PolicyMerge(s, d, isDelete)[l] = s[j]
<1> DEFINE r == PolicyMerge(s, d, isDelete)
<1>1. s \in Seq(Uses) /\ d \in Seq(Uses) /\ IsInjective(s) /\ IsInjective(d)
  BY DEF PolicyShape
<1>2. CASE isDelete
  <2> DEFINE S == Range(d) \ {Deny}
             w == Without(s, S)
  <2>1. w \in Seq(Uses) /\ IsInjective(w) /\ Range(w) = Range(s) \ S
    BY <1>1, WithoutPlaces, WithoutInjective, WithoutRange
  <2>2. y = "svc" => w # <<>> /\ w[Len(w)] = Deny
    BY <1>1, WithoutLast DEF PolicyShape
  <2>3. PolicyShape(w, y)
    BY <2>1, <2>2 DEF PolicyShape
  <2>4. r = w
    <3>1. r = DenyToEnd(w)
      BY <1>2 DEF PolicyMerge
    <3> QED
      BY <2>3, <3>1, ShapeStays
  <2>5. s[i] \notin S /\ s[j] \notin S
    BY <2>1, <2>4
  <2>6. \E k, l \in DOMAIN w : k < l /\ w[k] = s[i] /\ w[l] = s[j]
    <3> HIDE DEF S
    <3> QED
      BY <1>1, <2>5, WithoutOrder
  <2> QED
    BY <2>4, <2>6
<1>3. CASE ~isDelete
  <2> DEFINE w == Without(d, Range(s))
             c == s \o w
  <2>1. w \in Seq(Uses) /\ IsInjective(w) /\ Range(w) = Range(d) \ Range(s)
    BY <1>1, WithoutPlaces, WithoutInjective, WithoutRange
  <2>2. r = DenyToEnd(c)
    BY <1>3 DEF PolicyMerge
  <2> HIDE DEF w
  <2>3. c \in Seq(Uses) /\ IsInjective(c) /\ Range(c) = Range(s) \cup Range(d)
    BY <1>1, <2>1, ConcatProperties, ConcatInjective, ConcatRange
  <2>4. /\ Len(s) \in Nat /\ Len(w) \in Nat /\ Len(c) = Len(s) + Len(w)
        /\ DOMAIN s = 1..Len(s) /\ DOMAIN c = 1..Len(c)
        /\ \A k \in DOMAIN s : c[k] = s[k]
    BY <1>1, <2>1, ConcatProperties
  <2> HIDE DEF c, r
  <2>5. CASE y # "svc"
    <3>1. Deny \notin Range(c)
      BY <2>3, <2>5 DEF PolicyShape
    <3>2. r = c
      BY <2>2, <3>1, DenyNowhere
    <3>3. i \in DOMAIN c /\ j \in DOMAIN c /\ c[i] = s[i] /\ c[j] = s[j]
      BY <2>4
    <3> QED
      BY <3>2, <3>3 DEF r
  <2>6. CASE y = "svc"
    \* the deny-all, the last of s, is put behind what is new
    <3> DEFINE p == Len(s)
    <3>1. p \in DOMAIN s /\ s[p] = Deny /\ p \in DOMAIN c /\ c[p] = Deny
      BY <1>1, <2>4, <2>6, EmptySeq DEF PolicyShape
    <3>2. /\ r \in Seq(Uses) /\ Len(r) = Len(c) /\ r[Len(c)] = Deny
          /\ \A k \in DOMAIN c : k # p /\ k # Len(c) => r[k] = c[k]
      BY <2>2, <2>3, <3>1, DenySwaps
    <3>3. i \in DOMAIN r /\ i # p /\ i # Len(c) /\ r[i] = s[i]
      BY <2>4, <3>1, <3>2
    <3>4. CASE j = p
      <4>1. Len(c) \in DOMAIN r /\ i < Len(c) /\ r[Len(c)] = s[j]
        BY <2>4, <3>1, <3>2, <3>4
      <4> QED
        BY <3>3, <4>1 DEF r
    <3>5. CASE j # p
      <4>1. j \in DOMAIN r /\ r[j] = s[j]
        BY <2>4, <3>1, <3>2, <3>5
      <4> QED
        BY <3>3, <4>1 DEF r
    <3> QED
      BY <3>4, <3>5
  <2> QED
    BY <2>5, <2>6
<1> QED
  BY <1>2, <1>3

\* initDefault prepares the deny-all in the service policy and no use elsewhere.
LEMMA InitShape ==
    ASSUME NEW t
    PROVE  /\ DOMAIN InitPolicies(t) = PolicyTypes(t)
           /\ \A y \in PolicyTypes(t) :
                /\ PolicyShape(InitPolicies(t)[y], y)
                /\ Range(InitPolicies(t)[y]) = IF y = "svc" THEN {Deny} ELSE {}
<1>1. <<Deny>> \in Seq(Uses) /\ Range(<<Deny>>) = {Deny} /\ IsInjective(<<Deny>>)
  BY DEF Uses, Range, IsInjective
<1>2. <<>> \in Seq(Uses) /\ Range(<<>>) = {} /\ IsInjective(<<>>)
  BY DEF Range, IsInjective
<1> QED
  BY <1>1, <1>2 DEF InitPolicies, PolicyShape

\* newPoliciesDecl lists the rule lists of the request in the policy of the rule's
\* type, in front of what initDefault prepared.
LEMMA DeltaShape ==
    ASSUME NEW q, WellFormed(q)
    PROVE  LET t == TenantOf[q.rule]
               y0 == RuleType[q.rule]
           IN  /\ DOMAIN DeltaPolicies(q) = PolicyTypes(t)
               /\ y0 \in PolicyTypes(t)
               /\ \A y \in PolicyTypes(t) :
                    /\ PolicyShape(DeltaPolicies(q)[y], y)
                    /\ Range(DeltaPolicies(q)[y]) =
                          (IF y = y0 THEN KeysOf(q) ELSE {}) \cup (IF y = "svc" THEN {Deny} ELSE {})
<1> DEFINE t == TenantOf[q.rule]
           y0 == RuleType[q.rule]
           uses == [i \in DOMAIN q.exts |-> <<q.rule, q.exts[i]>>]
           none == InitPolicies(t)
<1>1. /\ q.rule \in Rules /\ q.exts \in Seq(Exts) /\ IsInjective(q.exts)
      /\ y0 \in Types /\ (y0 = "global" => t = Common)
  BY DeclarationAssumption DEF WellFormed, IsRequest
<1>2. y0 \in PolicyTypes(t)
  BY <1>1 DEF PolicyTypes
<1>3. /\ DOMAIN none = PolicyTypes(t)
      /\ \A y \in PolicyTypes(t) :
            /\ PolicyShape(none[y], y)
            /\ Range(none[y]) = IF y = "svc" THEN {Deny} ELSE {}
  BY InitShape
<1>4. /\ uses \in Seq(Uses) /\ Len(uses) = Len(q.exts)
      /\ \A i \in DOMAIN q.exts : uses[i] = <<q.rule, q.exts[i]>>
      /\ DOMAIN uses = DOMAIN q.exts
  <2>1. \A i \in 1..Len(q.exts) : <<q.rule, q.exts[i]>> \in Uses
    BY <1>1 DEF Uses, RuleKeys
  <2>2. uses = [i \in 1..Len(q.exts) |-> <<q.rule, q.exts[i]>>]
    BY <1>1
  <2> HIDE DEF uses
  <2>3. uses \in [1..Len(q.exts) -> Uses]
    BY <2>1, <2>2
  <2>4. Len(q.exts) \in Nat
    BY <1>1
  <2>5. uses \in Seq(Uses) /\ Len(uses) = Len(q.exts)
    BY <2>3, <2>4
  <2> QED
    BY <1>1, <2>2, <2>5
<1> HIDE DEF uses
<1>5. Range(uses) = KeysOf(q)
  BY <1>4 DEF Range, KeysOf
<1>6. IsInjective(uses)
  BY <1>4, <1>1 DEF IsInjective
<1>7. Deny \notin Range(uses)
  <2>1. Deny \notin RuleKeys
    BY DeclarationAssumption DEF RuleKeys
  <2>2. KeysOf(q) \subseteq RuleKeys
    BY <1>1 DEF KeysOf, RuleKeys, Range
  <2> QED
    BY <1>5, <2>1, <2>2
<1>8. \A y \in PolicyTypes(t) :
        DeltaPolicies(q)[y] = (IF y = y0 THEN uses ELSE <<>>) \o none[y]
  BY <1>3 DEF DeltaPolicies, uses
<1>9. DOMAIN DeltaPolicies(q) = PolicyTypes(t)
  BY <1>3 DEF DeltaPolicies
<1> HIDE DEF none, t, y0
<1>10. ASSUME NEW y \in PolicyTypes(t)
       PROVE  /\ PolicyShape(DeltaPolicies(q)[y], y)
              /\ Range(DeltaPolicies(q)[y]) =
                    (IF y = y0 THEN KeysOf(q) ELSE {}) \cup (IF y = "svc" THEN {Deny} ELSE {})
  <2> PICK n : n = none[y]
    OBVIOUS
  <2>1. PolicyShape(n, y) /\ Range(n) = (IF y = "svc" THEN {Deny} ELSE {})
    BY <1>3
  <2>2. n \in Seq(Uses) /\ IsInjective(n)
    BY <2>1 DEF PolicyShape
  <2>3. CASE y # y0
    <3>1. DeltaPolicies(q)[y] = n
      BY <1>8, <2>2, <2>3, ConcatEmptySeq
    <3> QED
      BY <2>1, <2>3, <3>1
  <2>4. CASE y = y0
    <3>1. DeltaPolicies(q)[y] = uses \o n
      BY <1>8, <2>4
    <3> DEFINE c == uses \o n
    <3>2. Range(uses) \cap Range(n) = {}
      BY <1>7, <2>1
    <3>3. c \in Seq(Uses) /\ IsInjective(c) /\ Range(c) = Range(uses) \cup Range(n)
      BY <1>4, <1>6, <2>2, <3>2, ConcatProperties, ConcatInjective, ConcatRange
    <3>4. y = "svc" => c # <<>> /\ c[Len(c)] = Deny
      <4> SUFFICES ASSUME y = "svc" PROVE c # <<>> /\ c[Len(c)] = Deny
        OBVIOUS
      <4>1. n # <<>> /\ n[Len(n)] = Deny
        BY <2>1 DEF PolicyShape
      <4>2. Len(n) \in 1..Len(n)
        BY <2>2, <4>1, EmptySeq
      <4>3. Len(c) = Len(uses) + Len(n) /\ c[Len(uses) + Len(n)] = n[Len(n)]
        <5>1. Len(c) = Len(uses) + Len(n) /\ \A i \in 1..Len(n) : c[Len(uses) + i] = n[i]
          <6>1. uses \in Seq(Uses) /\ n \in Seq(Uses)
            BY <1>4, <2>2
          <6> QED
            BY ONLY <6>1, ConcatProperties
        <5> QED
          BY <4>2, <5>1
      <4>4. Len(uses) \in Nat
        BY <1>4
      <4>5. c # <<>>
        BY <3>3, <4>2, <4>3, <4>4
      <4> QED
        BY <4>1, <4>3, <4>5
    <3> HIDE DEF c
    <3>5. y # "svc" => Deny \notin Range(c)
      BY <1>7, <2>1, <3>3
    <3>6. PolicyShape(c, y)
      BY <3>3, <3>4, <3>5 DEF PolicyShape
    <3> QED
      BY <1>5, <2>1, <2>4, <3>1, <3>3, <3>6 DEF c
  <2> QED
    BY <2>3, <2>4
<1> QED
  BY <1>2, <1>9, <1>10 DEF t, y0

-----------------------------------------------------------------------------
(* The store *)

\* Rule lists are named after a rule and an external service: without this,
\* a deletion could not be told to remove only its own port lists.
Keyed(app) == DOMAIN app.rules \subseteq RuleKeys

Sound(app) == Keyed(app) /\ NoOrphans(app) /\ Resolves(app)

LEMMA DefaultSound ==
    ASSUME NEW t
    PROVE  Sound(DefaultApp(t))
BY DEF DefaultApp, Sound, Keyed, NoOrphans, Resolves, ReferencedPorts, ReferencedSrc

\* The lists that newRulesDecl generates for a request are those that its rule
\* lists use.
LEMMA DeltaSound ==
    ASSUME NEW q \in Requests
    PROVE  Sound(Delta(q))
<1>1. /\ DOMAIN Delta(q).rules = KeysOf(q)
      /\ DOMAIN Delta(q).dst = KeysOf(q)
      /\ DOMAIN Delta(q).ports = PortKeysOf(q)
      /\ DOMAIN Delta(q).src = SrcKeysOf(q)
      /\ \A k \in KeysOf(q) : /\ Delta(q).rules[k].ports = q.spec[k[2]].ports
                              /\ Delta(q).rules[k].from = FromOf(q)
  BY DEF Delta
<1>2. ReferencedPorts(Delta(q)) = PortKeysOf(q)
  <2>1. ASSUME NEW e \in Range(q.exts), NEW p \in Range(q.spec[e].ports)
        PROVE  <<q.rule, e, p>> \in ReferencedPorts(Delta(q))
    <3>1. <<q.rule, e>> \in KeysOf(q)
      BY DEF KeysOf
    <3> QED
      BY <1>1, <3>1 DEF ReferencedPorts
  <2>2. ASSUME NEW k \in KeysOf(q), NEW p \in Range(Delta(q).rules[k].ports)
        PROVE  <<k[1], k[2], p>> \in PortKeysOf(q)
    BY <1>1 DEF KeysOf, PortKeysOf
  <2>3. PortKeysOf(q) \subseteq ReferencedPorts(Delta(q))
    BY <2>1 DEF PortKeysOf
  <2>4. ReferencedPorts(Delta(q)) \subseteq PortKeysOf(q)
    BY <1>1, <2>2 DEF ReferencedPorts
  <2> QED
    BY <2>3, <2>4
<1>3. SrcKeysOf(q) \subseteq ReferencedSrc(Delta(q))
  <2>0. q.exts \in Seq(Exts) /\ q.exts # <<>>
    BY RequestsAssumption DEF WellFormed, IsRequest
  <2>1. PICK e \in Range(q.exts) : TRUE
    BY <2>0, 1 \in DOMAIN q.exts DEF Range
  <2>2. <<q.rule, e>> \in KeysOf(q)
    BY DEF KeysOf
  <2> QED
    BY <1>1, <2>2 DEF SrcKeysOf, ReferencedSrc
<1>4. KeysOf(q) \subseteq RuleKeys
  <2>1. q.rule \in Rules /\ q.exts \in Seq(Exts)
    BY RequestsAssumption DEF WellFormed, IsRequest
  <2>2. Range(q.exts) \subseteq Exts
    BY <2>1 DEF Range
  <2> QED
    BY <2>1, <2>2 DEF KeysOf, RuleKeys
<1> QED
  BY <1>1, <1>2, <1>3, <1>4 DEF Sound, Keyed, NoOrphans, Resolves

\* The merge keeps what the rule lists use.
LEMMA MergedResolves ==
    ASSUME NEW app, Keyed(app), Resolves(app), NEW q \in Requests
    PROVE  /\ Keyed(Merged(app, Delta(q), q.isDelete))
           /\ Resolves(Merged(app, Delta(q), q.isDelete))
<1> DEFINE d == Delta(q)
           m == Merged(app, d, q.isDelete)
<1>1. /\ m.rules = MergeAttrs(app.rules, d.rules, q.isDelete)
      /\ m.dst = MergeAttrs(app.dst, d.dst, q.isDelete)
      /\ m.ports = MergeAttrs(app.ports, d.ports, q.isDelete)
  BY DEF Merged
<1>2. /\ DOMAIN d.rules = KeysOf(q)
      /\ DOMAIN d.dst = KeysOf(q)
      /\ DOMAIN d.ports = PortKeysOf(q)
  BY DEF Delta
<1>3. CASE q.isDelete
  <2>1. /\ DOMAIN m.rules = DOMAIN app.rules \ KeysOf(q)
        /\ DOMAIN m.dst = DOMAIN app.dst \ KeysOf(q)
        /\ DOMAIN m.ports = DOMAIN app.ports \ PortKeysOf(q)
        /\ \A k \in DOMAIN m.rules : m.rules[k] = app.rules[k]
    BY <1>1, <1>2, <1>3 DEF MergeAttrs, Restrict
  <2>2. ASSUME NEW k \in DOMAIN m.rules, NEW p \in Range(m.rules[k].ports)
        PROVE  <<k[1], k[2], p>> \in DOMAIN m.ports
    <3>1. <<k[1], k[2], p>> \in DOMAIN app.ports
      BY <2>1 DEF Resolves, ReferencedPorts
    <3>2. <<k[1], k[2], p>> \notin PortKeysOf(q)
      \* the port lists of q are those of the external services of q
      <4> SUFFICES ASSUME <<k[1], k[2], p>> \in PortKeysOf(q) PROVE FALSE
        OBVIOUS
      <4>1. k = <<k[1], k[2]>>
        BY <2>1 DEF Keyed, RuleKeys
      <4>2. <<k[1], k[2]>> \in KeysOf(q)
        BY DEF PortKeysOf, KeysOf
      <4> QED
        BY <2>1, <4>1, <4>2
    <3> QED
      BY <2>1, <3>1, <3>2
  <2> QED
    BY <2>1, <2>2 DEF Keyed, Resolves, ReferencedPorts
<1>4. CASE ~q.isDelete
  <2>1. /\ DOMAIN m.rules = KeysOf(q) \cup DOMAIN app.rules
        /\ DOMAIN m.dst = KeysOf(q) \cup DOMAIN app.dst
        /\ DOMAIN m.ports = PortKeysOf(q) \cup DOMAIN app.ports
        /\ \A k \in DOMAIN m.rules :
              m.rules[k] = IF k \in KeysOf(q) THEN d.rules[k] ELSE app.rules[k]
    BY <1>1, <1>2, <1>4 DEF MergeAttrs, Override
  <2>2. ASSUME NEW k \in DOMAIN m.rules, NEW p \in Range(m.rules[k].ports)
        PROVE  <<k[1], k[2], p>> \in DOMAIN m.ports
    <3>1. CASE k \in KeysOf(q)
      BY <2>1, <3>1, <1>2, DeltaSound DEF Sound, Resolves, ReferencedPorts
    <3>2. CASE k \notin KeysOf(q)
      BY <2>1, <3>2 DEF Resolves, ReferencedPorts
    <3> QED
      BY <3>1, <3>2
  <2>3. KeysOf(q) \subseteq RuleKeys
    BY <1>2, DeltaSound DEF Sound, Keyed
  <2> QED
    BY <2>1, <2>2, <2>3 DEF Keyed, Resolves, ReferencedPorts
<1> QED
  BY <1>3, <1>4

\* clearUpUnreferencePolicy removes all that is not used and nothing that is.
LEMMA ClearUpSound ==
    ASSUME NEW app, Keyed(app), Resolves(app), NEW c
    PROVE  Sound(ClearUp(app, c))
<1> DEFINE a == ClearUp(app, c)
<1>1. /\ a.rules = app.rules
      /\ DOMAIN a.dst = DOMAIN app.dst \cap DOMAIN app.rules
      /\ DOMAIN a.ports = DOMAIN app.ports \cap ReferencedPorts(app)
      /\ DOMAIN a.src = DOMAIN app.src \cap ReferencedSrc(app)
  BY DEF ClearUp, Used, Restrict
<1>2. ReferencedPorts(a) = ReferencedPorts(app) /\ ReferencedSrc(a) = ReferencedSrc(app)
  BY <1>1 DEF ReferencedPorts, ReferencedSrc
<1> QED
  BY <1>1, <1>2 DEF Sound, Keyed, NoOrphans, Resolves

\* What is posted for a request is sound if what was read is.
LEMMA BodySound ==
    ASSUME NEW app, app # Absent => Sound(app), NEW q \in Requests,
           Body(app, q) # Absent
    PROVE  Sound(Body(app, q))
BY DeltaSound, MergedResolves, ClearUpSound DEF Body, Sound

-----------------------------------------------------------------------------
StoreInv ==
    /\ DOMAIN store = Tenants
    /\ \A t \in Declared : Sound(store[t])

LEMMA StoreInvInit == StoreInit => StoreInv
BY DefaultSound DEF StoreInit, StoreInv, Declared

LEMMA StoreInvStep ==
    ASSUME StoreInv, [StoreNext]_store PROVE StoreInv'
<1> USE DEF StoreInv, Declared
<1>1. CASE InitCommon
  BY <1>1, DefaultSound DEF InitCommon
<1>2. ASSUME NEW q \in Requests, Apply(q) PROVE StoreInv'
  BY <1>2, BodySound DEF Apply
<1>3. ASSUME NEW r, NEW s, NEW A, PatchSource(r, s, A) PROVE StoreInv'
  \* a patch changes the contents of a list, not which lists there are
  <2> DEFINE t == TenantOf[r]
  <2>1. CASE t \in Tenants
    <3>1. store'[t] = [store[t] EXCEPT !.src[<<r, s>>] = A]
      BY <1>3, <2>1 DEF PatchSource
    <3>2. Sound(store'[t])
      BY <1>3, <2>1, <3>1 DEF PatchSource, Sound, Keyed, NoOrphans, Resolves, ReferencedPorts, ReferencedSrc
    <3> QED
      BY <1>3, <3>2 DEF PatchSource
  <2>2. CASE t \notin Tenants
    BY <1>3, <2>2 DEF PatchSource
  <2> QED
    BY <2>1, <2>2
<1>4. CASE UNCHANGED store
  BY <1>4
<1> QED
  BY <1>1, <1>2, <1>3, <1>4 DEF StoreNext

\* No step leaves an address list or port list that nothing uses, or a use of
\* a destination or port list that is not there (newRulesDecl, fullResource,
\* clearUpUnreferencePolicy).
THEOREM ListsMatch == StoreSpec => [](NoOrphanLists /\ RefsResolve)
<1>1. StoreInv => NoOrphanLists /\ RefsResolve
  BY DEF StoreInv, Sound, NoOrphanLists, RefsResolve
<1> QED
  BY <1>1, StoreInvInit, StoreInvStep, PTL DEF StoreSpec

\* No list stays that nothing uses (clearUpUnreferencePolicy).
THEOREM NothingUnused == StoreSpec => []NoOrphanLists
BY ListsMatch, PTL

-----------------------------------------------------------------------------
(* A step concerns one rule. *)

\* The names of what a request declares begin with its rule.
LEMMA NamesOfRequest ==
    ASSUME NEW q
    PROVE  \A k \in KeysOf(q) \cup PortKeysOf(q) \cup SrcKeysOf(q) : k[1] = q.rule
BY DEF KeysOf, PortKeysOf, SrcKeysOf

\* Both branches of the loop in fullResource leave other attributes alone.
LEMMA OtherAttrs ==
    ASSUME NEW f, NEW d, NEW del \in BOOLEAN, NEW k, k \notin DOMAIN d
    PROVE  /\ k \in DOMAIN MergeAttrs(f, d, del) <=> k \in DOMAIN f
           /\ k \in DOMAIN f => MergeAttrs(f, d, del)[k] = f[k]
BY DEF MergeAttrs, Override, Restrict

\* What the merge and the clean-up make of another rule's attributes: nothing.
LEMMA OtherRules ==
    ASSUME NEW app, Sound(app), NEW q \in Requests, NEW r, r # q.rule
    PROVE  PartOf(ClearUp(Merged(app, Delta(q), q.isDelete), q.conf), r) = PartOf(app, r)
<1> DEFINE d == Delta(q)
           m == Merged(app, d, q.isDelete)
           a == ClearUp(m, q.conf)
<1>1. /\ m.rules = MergeAttrs(app.rules, d.rules, q.isDelete)
      /\ m.dst = MergeAttrs(app.dst, d.dst, q.isDelete)
      /\ m.ports = MergeAttrs(app.ports, d.ports, q.isDelete)
      /\ m.src = MergeAttrs(app.src, d.src, q.isDelete)
  BY DEF Merged
<1>2. /\ a.rules = m.rules
      /\ a.dst = Restrict(m.dst, DOMAIN m.dst \cap DOMAIN m.rules)
      /\ a.ports = Restrict(m.ports, DOMAIN m.ports \cap ReferencedPorts(m))
      /\ a.src = Restrict(m.src, DOMAIN m.src \cap ReferencedSrc(m))
  BY DEF ClearUp, Used
<1>3. /\ DOMAIN d.rules = KeysOf(q) /\ DOMAIN d.dst = KeysOf(q)
      /\ DOMAIN d.ports = PortKeysOf(q) /\ DOMAIN d.src = SrcKeysOf(q)
  BY DEF Delta
<1>4. q.isDelete \in BOOLEAN
  BY RequestsAssumption DEF WellFormed, IsRequest
<1>5. ASSUME NEW k, k[1] = r
      PROVE  /\ k \notin DOMAIN d.rules /\ k \notin DOMAIN d.dst
             /\ k \notin DOMAIN d.ports /\ k \notin DOMAIN d.src
  BY <1>3, <1>5, NamesOfRequest
<1> HIDE DEF d, m, a
<1>6. ASSUME NEW k, k[1] = r
      PROVE  /\ k \in DOMAIN m.rules <=> k \in DOMAIN app.rules
             /\ k \in DOMAIN app.rules => m.rules[k] = app.rules[k]
             /\ k \in DOMAIN m.dst <=> k \in DOMAIN app.dst
             /\ k \in DOMAIN app.dst => m.dst[k] = app.dst[k]
             /\ k \in DOMAIN m.ports <=> k \in DOMAIN app.ports
             /\ k \in DOMAIN app.ports => m.ports[k] = app.ports[k]
             /\ k \in DOMAIN m.src <=> k \in DOMAIN app.src
             /\ k \in DOMAIN app.src => m.src[k] = app.src[k]
  BY <1>1, <1>4, <1>5, <1>6, OtherAttrs
<1>7. {k \in DOMAIN a.rules : k[1] = r} = {k \in DOMAIN app.rules : k[1] = r}
  BY <1>2, <1>6
<1>8. {k \in DOMAIN a.dst : k[1] = r} = {k \in DOMAIN app.dst : k[1] = r}
  BY <1>2, <1>6 DEF Restrict, Sound, NoOrphans
<1>9. {k \in DOMAIN a.ports : k[1] = r} = {k \in DOMAIN app.ports : k[1] = r}
  <2>1. ASSUME NEW k \in DOMAIN app.ports, k[1] = r PROVE k \in ReferencedPorts(m)
    <3>1. PICK j \in DOMAIN app.rules : \E p \in Range(app.rules[j].ports) : k = <<j[1], j[2], p>>
      BY <2>1 DEF Sound, NoOrphans, ReferencedPorts
    <3>2. j[1] = r
      BY <2>1, <3>1
    <3> QED
      BY <3>1, <3>2, <1>6 DEF ReferencedPorts
  <2> QED
    BY <2>1, <1>2, <1>6 DEF Restrict
<1>10. {k \in DOMAIN a.src : k[1] = r} = {k \in DOMAIN app.src : k[1] = r}
  <2>1. ASSUME NEW k \in DOMAIN app.src, k[1] = r PROVE k \in ReferencedSrc(m)
    <3>1. PICK j \in DOMAIN app.rules : \E s \in app.rules[j].from : k = <<j[1], s>>
      BY <2>1 DEF Sound, NoOrphans, ReferencedSrc
    <3>2. j[1] = r
      BY <2>1, <3>1
    <3> QED
      BY <3>1, <3>2, <1>6 DEF ReferencedSrc
  <2> QED
    BY <2>1, <1>2, <1>6 DEF Restrict
<1>11. /\ \A k \in {k \in DOMAIN a.rules : k[1] = r} : a.rules[k] = app.rules[k]
       /\ \A k \in {k \in DOMAIN a.dst : k[1] = r} : a.dst[k] = app.dst[k]
       /\ \A k \in {k \in DOMAIN a.ports : k[1] = r} : a.ports[k] = app.ports[k]
       /\ \A k \in {k \in DOMAIN a.src : k[1] = r} : a.src[k] = app.src[k]
  BY <1>2, <1>6, <1>8, <1>9, <1>10 DEF Restrict
<1>12. PartOf(a, r) = PartOf(app, r)
  BY <1>7, <1>8, <1>9, <1>10, <1>11 DEF PartOf, Restrict
<1> QED
  BY <1>12 DEF a, m, d

\* Although As3Request posts the whole tenant, no rule but that of the request, or of
\* the patch, is touched (fullResource, clearUpUnreferencePolicy).
THEOREM OneRule == StoreSpec => OneRuleAtATime
<1> DEFINE Same(t, r) == PartOf(store[t], r) = PartOf(store'[t], r)
           One == \A t \in Declared : store'[t] # Absent =>
                    \A r1, r2 \in Rules :
                        (/\ PartOf(store[t], r1) # PartOf(store'[t], r1)
                         /\ PartOf(store[t], r2) # PartOf(store'[t], r2)) => r1 = r2
<1>1. ASSUME StoreInv, [StoreNext]_store, NEW t \in Declared, store'[t] # Absent
      PROVE  \A r1, r2 \in Rules : ~Same(t, r1) /\ ~Same(t, r2) => r1 = r2
  <2>1. t \in Tenants /\ store[t] # Absent /\ Sound(store[t]) /\ DOMAIN store = Tenants
    BY <1>1 DEF StoreInv, Declared
  <2>2. CASE InitCommon \/ UNCHANGED store
    <3>1. store'[t] = store[t]
      BY <2>1, <2>2 DEF InitCommon
    <3> QED
      BY <3>1
  <2>3. ASSUME NEW q \in Requests, Apply(q) PROVE \A r \in Rules : r # q.rule => Same(t, r)
    <3>1. CASE t = TenantOf[q.rule]
      <4>1. store'[t] = ClearUp(Merged(store[t], Delta(q), q.isDelete), q.conf)
        BY <2>1, <2>3, <3>1 DEF Apply, Body
      <4> QED
        BY <2>1, <4>1, OtherRules
    <3>2. CASE t # TenantOf[q.rule]
      BY <2>1, <2>3, <3>2 DEF Apply
    <3> QED
      BY <3>1, <3>2
  <2>4. ASSUME NEW r, NEW s, NEW A, PatchSource(r, s, A)
        PROVE  \A r1 \in Rules : r1 # r => Same(t, r1)
    <3>1. CASE t = TenantOf[r]
      <4>1. store'[t] = [store[t] EXCEPT !.src[<<r, s>>] = A]
        BY <2>1, <2>4, <3>1 DEF PatchSource
      <4>2. /\ store'[t].rules = store[t].rules /\ store'[t].dst = store[t].dst
            /\ store'[t].ports = store[t].ports
            /\ store'[t].src = [store[t].src EXCEPT ![<<r, s>>] = A]
               \/ store'[t].src = store[t].src
        BY <4>1
      <4>3. ASSUME NEW r1 \in Rules, r1 # r
            PROVE  /\ DOMAIN store'[t].src = DOMAIN store[t].src
                   /\ \A k \in DOMAIN store[t].src :
                        k[1] = r1 => store'[t].src[k] = store[t].src[k]
        BY <4>2, <4>3
      <4> QED
        BY <4>2, <4>3 DEF PartOf, Restrict
    <3>2. CASE t # TenantOf[r]
      BY <2>1, <2>4, <3>2 DEF PatchSource
    <3> QED
      BY <3>1, <3>2
  <2> QED
    BY <1>1, <2>2, <2>3, <2>4 DEF StoreNext
<1>2. StoreInv /\ [StoreNext]_store => [One]_store
  BY <1>1
<1> QED
  BY <1>2, StoreInvInit, StoreInvStep, PTL DEF StoreSpec, OneRuleAtATime

-----------------------------------------------------------------------------
(* The log profile. *)

\* A request that does not lose the profile leaves the virtual server with it.
LEMMA KeepsLog ==
    ASSUME NEW app, app # Absent => LogResolves(app), NEW q \in Requests,
           Body(app, q) # Absent, ~LosesProfile(q)
    PROVE  LogResolves(Body(app, q))
<1> DEFINE d == Delta(q)
           m == Merged(app, d, q.isDelete)
<1> PICK logs : logs = Logging[Version[q.conf]]
  OBVIOUS
<1>1. /\ d.conf = Version[q.conf]
      /\ d.log = (q.conf \in Profile /\ (q.isDelete => q.conf \notin KeptProfile))
  BY DEF Delta, ServiceDeclared, LogDeclared
<1>2. CASE app = Absent
  <2>1. Body(app, q) = d /\ ~q.isDelete
    BY <1>2 DEF Body
  <2>2. logs => q.conf \in Profile
    BY <2>1 DEF LosesProfile
  <2> HIDE DEF d
  <2> QED
    BY <1>1, <2>1, <2>2, Zenon DEF LogResolves
<1>3. CASE app # Absent
  <2>1. Body(app, q).conf = m.conf /\ Body(app, q).log = (m.log /\ logs)
    BY <1>3 DEF Body, ClearUp
  <2>2. CASE q.isDelete
    <3>1. m.conf = app.conf /\ m.log = (app.log /\ ~d.log)
      BY <2>2 DEF Merged
    <3>2. logs /\ ~d.log
      BY <1>1, <2>2, Zenon DEF LosesProfile
    <3>3. (app.conf # NoConf /\ Logging[app.conf]) => app.log
      BY <1>3, Zenon DEF LogResolves
    <3> HIDE DEF m, d
    <3> QED
      BY <2>1, <3>1, <3>2, <3>3, Zenon DEF LogResolves
  <2>3. CASE ~q.isDelete
    <3>1. m.conf = Version[q.conf] /\ m.log = (app.log \/ d.log)
      BY <1>1, <2>3 DEF Merged
    <3>2. logs => d.log
      BY <1>1, <2>3, Zenon DEF LosesProfile
    <3> HIDE DEF m, d
    <3> QED
      BY <2>1, <3>1, <3>2, Zenon DEF LogResolves
  <2> QED
    BY <2>2, <2>3
<1> QED
  BY <1>2, <1>3

\* The log profile is taken from under the virtual server by a deletion that meets a
\* configuration without logging, and by a request whose template is not read, or not
\* read the same way twice (newLogPoolDecl, skipDeleteShareApplicationClassOrAttr,
\* clearUpUnreferencePolicy); by nothing else, whatever the tenants went through.
THEOREM LogKept == StoreSpec => LogProfileKept
<1> DEFINE there(app) == app = Absent \/ LogResolves(app)
           Kept1 == \A t \in Tenants :
                        (there(store[t]) /\ ~there(store'[t])) =>
                            \E q \in Requests :
                                /\ TenantOf[q.rule] = t /\ LosesProfile(q)
                                /\ store'[t] = Body(store[t], q)
<1>1. ASSUME StoreInv, [StoreNext]_store, NEW t \in Tenants, there(store[t]), ~there(store'[t])
      PROVE  \E q \in Requests : /\ TenantOf[q.rule] = t /\ LosesProfile(q)
                                 /\ store'[t] = Body(store[t], q)
  <2>1. DOMAIN store = Tenants
    BY <1>1 DEF StoreInv
  <2>2. ~InitCommon /\ ~UNCHANGED store
    <3>1. LogResolves(DefaultApp(Common))
      BY DEF LogResolves, DefaultApp
    <3> QED
      BY <1>1, <2>1, <3>1 DEF InitCommon
  <2>3. ASSUME NEW r, NEW s, NEW A, PatchSource(r, s, A) PROVE FALSE
    <3>1. \/ store'[t] = store[t]
          \/ store[t] # Absent /\ store'[t] = [store[t] EXCEPT !.src[<<r, s>>] = A]
      BY <2>1, <2>3 DEF PatchSource
    <3>2. LogResolves(store[t]) => LogResolves(store'[t])
      <4>1. CASE store'[t] = [store[t] EXCEPT !.src[<<r, s>>] = A]
        <5>1. store'[t].conf = store[t].conf
          BY <4>1
        <5>2. store'[t].log = store[t].log
          BY <4>1
        <5> QED
          BY <5>1, <5>2, Zenon DEF LogResolves
      <4> QED
        BY <3>1, <4>1
    <3> QED
      BY <1>1, <3>1, <3>2
  <2>4. ASSUME NEW q \in Requests, Apply(q)
        PROVE  /\ TenantOf[q.rule] = t /\ LosesProfile(q)
               /\ store'[t] = Body(store[t], q)
    <3>1. TenantOf[q.rule] = t /\ store'[t] = Body(store[t], q)
      BY <1>1, <2>1, <2>4 DEF Apply
    <3>2. /\ store[t] # Absent => LogResolves(store[t])
          /\ store'[t] # Absent /\ ~LogResolves(store'[t])
      BY <1>1
    <3>3. LosesProfile(q)
      BY <3>1, <3>2, KeepsLog
    <3> QED
      BY <3>1, <3>3
  <2> QED
    BY <1>1, <2>2, <2>3, <2>4 DEF StoreNext
<1>2. StoreInv /\ [StoreNext]_store => [Kept1]_store
  BY <1>1
<1> QED
  BY <1>2, StoreInvInit, StoreInvStep, PTL DEF StoreSpec, LogProfileKept

-----------------------------------------------------------------------------
(* Policies. *)

\* The policies of tenant t: each rule list of app in the policy of its type, once, and
\* the deny-all at the end of the service policy.
Listing(app, t) ==
    /\ DOMAIN app.policy = PolicyTypes(t)
    /\ \A y \in PolicyTypes(t) :
            /\ PolicyShape(app.policy[y], y)
            /\ NonDeny(app.policy[y]) = {k \in DOMAIN app.rules : RuleType[k[1]] = y}

LEMMA DefaultListing ==
    ASSUME NEW t
    PROVE  Listing(DefaultApp(t), t)
<1>1. DefaultApp(t).policy = InitPolicies(t) /\ DOMAIN DefaultApp(t).rules = {}
  BY DEF DefaultApp
<1> QED
  BY <1>1, InitShape DEF Listing, NonDeny

\* The rule lists of a request are rules of one type.
LEMMA KeysType ==
    ASSUME NEW q, WellFormed(q), NEW k \in KeysOf(q)
    PROVE  RuleType[k[1]] = RuleType[q.rule] /\ k # Deny
<1>1. q.rule \in Rules /\ q.exts \in Seq(Exts)
  BY DEF WellFormed, IsRequest
<1>2. k \in Rules \X Exts /\ k[1] = q.rule
  BY <1>1 DEF KeysOf, Range
<1> QED
  BY <1>2, DeclarationAssumption

LEMMA DeltaListing ==
    ASSUME NEW q \in Requests
    PROVE  Listing(Delta(q), TenantOf[q.rule])
<1> DEFINE t == TenantOf[q.rule]
<1>1. WellFormed(q)
  BY RequestsAssumption
<1>2. Delta(q).policy = DeltaPolicies(q) /\ DOMAIN Delta(q).rules = KeysOf(q)
  BY DEF Delta
<1>3. ASSUME NEW y \in PolicyTypes(t)
      PROVE  NonDeny(DeltaPolicies(q)[y]) = {k \in KeysOf(q) : RuleType[k[1]] = y}
  <2>1. Range(DeltaPolicies(q)[y]) = (IF y = RuleType[q.rule] THEN KeysOf(q) ELSE {})
                                        \cup (IF y = "svc" THEN {Deny} ELSE {})
    BY <1>1, DeltaShape
  <2>2. \A k \in KeysOf(q) : RuleType[k[1]] = RuleType[q.rule] /\ k # Deny
    BY <1>1, KeysType
  <2> QED
    BY <2>1, <2>2 DEF NonDeny
<1> QED
  BY <1>1, <1>2, <1>3, DeltaShape DEF Listing

\* The merge keeps the policies in step with the rule lists.
LEMMA MergedListing ==
    ASSUME NEW q \in Requests, NEW app, Listing(app, TenantOf[q.rule])
    PROVE  Listing(Merged(app, Delta(q), q.isDelete), TenantOf[q.rule])
<1> DEFINE t == TenantOf[q.rule]
           d == Delta(q)
           m == Merged(app, d, q.isDelete)
<1>1. WellFormed(q) /\ q.isDelete \in BOOLEAN
  BY RequestsAssumption DEF WellFormed, IsRequest
<1>2. /\ DOMAIN m.policy = DOMAIN app.policy
      /\ \A y \in DOMAIN app.policy :
            m.policy[y] = PolicyMerge(app.policy[y], d.policy[y], q.isDelete)
      /\ m.rules = MergeAttrs(app.rules, d.rules, q.isDelete)
  BY DEF Merged
<1>3. d.policy = DeltaPolicies(q) /\ DOMAIN d.rules = KeysOf(q)
  BY DEF Delta
<1>4. DOMAIN m.rules = IF q.isDelete THEN DOMAIN app.rules \ KeysOf(q)
                                     ELSE DOMAIN app.rules \cup KeysOf(q)
  BY <1>2, <1>3 DEF MergeAttrs, Restrict, Override
<1> HIDE DEF d, m
<1>5. ASSUME NEW y \in PolicyTypes(t)
      PROVE  /\ PolicyShape(m.policy[y], y)
             /\ NonDeny(m.policy[y]) = {k \in DOMAIN m.rules : RuleType[k[1]] = y}
  <2> PICK old : old = app.policy[y]
    OBVIOUS
  <2> PICK del : del = d.policy[y]
    OBVIOUS
  <2>1. m.policy[y] = PolicyMerge(old, del, q.isDelete)
    BY <1>2 DEF Listing
  <2>2. /\ PolicyShape(old, y)
        /\ NonDeny(old) = {k \in DOMAIN app.rules : RuleType[k[1]] = y}
    BY DEF Listing
  <2>3. /\ PolicyShape(del, y)
        /\ NonDeny(del) = IF y = RuleType[q.rule] THEN KeysOf(q) ELSE {}
    <3>1. \A k \in KeysOf(q) : k # Deny
      BY <1>1, KeysType
    <3> QED
      BY <1>1, <1>3, <3>1, DeltaShape DEF NonDeny
  <2>4. /\ PolicyShape(m.policy[y], y)
        /\ Range(m.policy[y]) = IF q.isDelete THEN Range(old) \ (Range(del) \ {Deny})
                                              ELSE Range(old) \cup Range(del)
    <3> PICK b \in BOOLEAN : b = q.isDelete
      BY <1>1
    <3>0. PolicyShape(old, y) /\ PolicyShape(del, y)
      BY <2>2, <2>3
    <3>1. /\ PolicyShape(PolicyMerge(old, del, b), y)
          /\ Range(PolicyMerge(old, del, b)) = IF b THEN Range(old) \ (Range(del) \ {Deny})
                                                    ELSE Range(old) \cup Range(del)
      <4>1. b \in BOOLEAN
        OBVIOUS
      <4> QED
        BY ONLY <3>0, <4>1, MergeShape
    <3> QED
      BY <2>1, <3>1
  <2>5. NonDeny(m.policy[y]) = IF q.isDelete THEN NonDeny(old) \ NonDeny(del)
                                             ELSE NonDeny(old) \cup NonDeny(del)
    BY <2>4 DEF NonDeny
  <2>6. \A k \in KeysOf(q) : RuleType[k[1]] = RuleType[q.rule]
    BY <1>1, KeysType
  <2> QED
    BY <1>4, <2>2, <2>3, <2>4, <2>5, <2>6
<1>6. DOMAIN m.policy = PolicyTypes(t)
  BY <1>2 DEF Listing
<1> QED
  BY <1>5, <1>6 DEF Listing, m, d

LEMMA BodyListing ==
    ASSUME NEW q \in Requests, NEW app, app # Absent => Listing(app, TenantOf[q.rule]),
           Body(app, q) # Absent
    PROVE  Listing(Body(app, q), TenantOf[q.rule])
<1>1. CASE app = Absent
  BY <1>1, DeltaListing DEF Body
<1>2. CASE app # Absent
  <2> DEFINE m == Merged(app, Delta(q), q.isDelete)
  <2>1. Listing(m, TenantOf[q.rule])
    BY <1>2, MergedListing
  <2>2. Body(app, q) = ClearUp(m, q.conf)
    BY <1>2 DEF Body
  <2> HIDE DEF m
  <2>3. Body(app, q).policy = m.policy /\ Body(app, q).rules = m.rules
    BY <2>2 DEF ClearUp
  <2> QED
    BY <2>1, <2>3 DEF Listing
<1> QED
  BY <1>1, <1>2

ListingInv == \A t \in Declared : Listing(store[t], t)

LEMMA ListingInvInit == StoreInit => ListingInv
BY DefaultListing DEF StoreInit, ListingInv, Declared

\* The patch of a source address list touches nothing else.
LEMMA PatchFrame ==
    ASSUME NEW r, NEW s, NEW A, PatchSource(r, s, A), DOMAIN store = Tenants,
           NEW t \in Tenants, store'[t] # store[t]
    PROVE  /\ t = TenantOf[r] /\ store[t] # Absent
           /\ <<r, s>> \in DOMAIN store[t].src
           /\ store'[t] = [store[t] EXCEPT !.src[<<r, s>>] = A]
           /\ store'[t].policy = store[t].policy /\ store'[t].rules = store[t].rules
<1>1. /\ t = TenantOf[r] /\ store[t] # Absent
      /\ <<r, s>> \in DOMAIN store[t].src
  BY DEF PatchSource
<1>2. store'[t] = [store[t] EXCEPT !.src[<<r, s>>] = A]
  BY <1>1 DEF PatchSource
<1>3. store'[t].policy = store[t].policy
  BY <1>2
<1>4. store'[t].rules = store[t].rules
  BY <1>2
<1> QED
  BY <1>1, <1>2, <1>3, <1>4

LEMMA ListingInvStep ==
    ASSUME StoreInv, ListingInv, [StoreNext]_store PROVE ListingInv'
<1>1. DOMAIN store = Tenants
  BY DEF StoreInv
<1>2. SUFFICES ASSUME NEW t \in Tenants, store'[t] # Absent, store'[t] # store[t]
               PROVE  Listing(store'[t], t)
  <2>1. \A t \in Tenants : store'[t] = store[t] /\ store'[t] # Absent => Listing(store'[t], t)
    BY DEF ListingInv, Declared
  <2> QED
    BY <1>2, <2>1 DEF ListingInv, Declared
<1>3. CASE InitCommon
  BY <1>1, <1>2, <1>3, DefaultListing DEF InitCommon
<1>4. ASSUME NEW q \in Requests, Apply(q) PROVE Listing(store'[t], t)
  <2>1. t = TenantOf[q.rule] /\ store'[t] = Body(store[t], q)
    BY <1>1, <1>2, <1>4 DEF Apply
  <2>2. store[t] # Absent => Listing(store[t], t)
    BY DEF ListingInv, Declared
  <2> QED
    BY <1>2, <2>1, <2>2, BodyListing
<1>5. ASSUME NEW r, NEW s, NEW A, PatchSource(r, s, A) PROVE Listing(store'[t], t)
  <2>1. /\ store[t] # Absent
        /\ store'[t].policy = store[t].policy /\ store'[t].rules = store[t].rules
    BY <1>1, <1>2, <1>5, PatchFrame
  <2> QED
    BY <2>1 DEF ListingInv, Declared, Listing
<1> QED
  BY <1>2, <1>3, <1>4, <1>5 DEF StoreNext

LEMMA ListingListsRules == ListingInv => PolicyListsRules
BY DEF ListingInv, Listing, PolicyShape, PolicyListsRules

LEMMA ListingDenyLast == ListingInv => DenyLast
<1> SUFFICES ASSUME ListingInv, NEW t \in Declared, NEW y \in DOMAIN store[t].policy
             PROVE  LET s == store[t].policy[y]
                    IN  {i \in DOMAIN s : s[i] = Deny} = IF y = "svc" THEN {Len(s)} ELSE {}
  BY DEF DenyLast
<1> PICK s : s = store[t].policy[y]
  OBVIOUS
<1>1. PolicyShape(s, y)
  BY DEF ListingInv, Listing
<1>2. y = "svc" => Len(s) \in DOMAIN s /\ s[Len(s)] = Deny
  BY <1>1, EmptySeq DEF PolicyShape
<1> QED
  BY <1>1, <1>2 DEF PolicyShape, Range, IsInjective

\* Through any sequence of requests, each rule list is used by the policy of its
\* type, once, and no policy uses what is not declared (policyMergeFullJson).
THEOREM PoliciesMatch == StoreSpec => []PolicyListsRules
BY ListingListsRules, StoreInvInit, StoreInvStep, ListingInvInit, ListingInvStep, PTL
   DEF StoreSpec

\* The deny-all of a service policy is behind every rule, whatever was added and
\* removed (policyMergeFullJson).
THEOREM DenyIsLast == StoreSpec => []DenyLast
BY ListingDenyLast, StoreInvInit, StoreInvStep, ListingInvInit, ListingInvStep, PTL
   DEF StoreSpec

\* Two uses that stay in a policy after a request stay in order.
LEMMA BodyOrder ==
    ASSUME NEW q \in Requests, NEW app, app # Absent, Listing(app, TenantOf[q.rule]),
           NEW y \in DOMAIN app.policy, NEW u, NEW v,
           u \in Range(Body(app, q).policy[y]), v \in Range(Body(app, q).policy[y]),
           Before(app.policy[y], u, v)
    PROVE  Before(Body(app, q).policy[y], u, v)
<1> PICK s : s = app.policy[y]
  OBVIOUS
<1> PICK d : d = Delta(q).policy[y]
  OBVIOUS
<1>1. Body(app, q).policy[y] = PolicyMerge(s, d, q.isDelete)
  BY DEF Body, ClearUp, Merged
<1>2. PolicyShape(s, y) /\ PolicyShape(d, y)
  BY DeltaListing DEF Listing
<1>3. q.isDelete \in BOOLEAN
  BY RequestsAssumption DEF WellFormed, IsRequest
<1>4. PICK i, j \in DOMAIN s : i < j /\ s[i] = u /\ s[j] = v
  BY DEF Before
<1> QED
  BY <1>1, <1>2, <1>3, <1>4, MergeOrder DEF Before

\* No step changes the order of two rule lists that stay: what the BIG-IP matches
\* first, it matches first afterwards (policyMergeFullJson).
THEOREM OrderKept == StoreSpec => OrderStable
<1> DEFINE Stable == \A t \in Declared : store'[t] # Absent =>
                \A y \in DOMAIN store[t].policy :
                    \A u, v \in Range(store[t].policy[y]) \cap Range(store'[t].policy[y]) :
                        Before(store[t].policy[y], u, v) => Before(store'[t].policy[y], u, v)
<1>1. ASSUME StoreInv, ListingInv, [StoreNext]_store, NEW t \in Declared, store'[t] # Absent,
             NEW y \in DOMAIN store[t].policy,
             NEW u \in Range(store[t].policy[y]) \cap Range(store'[t].policy[y]),
             NEW v \in Range(store[t].policy[y]) \cap Range(store'[t].policy[y]),
             Before(store[t].policy[y], u, v)
      PROVE  Before(store'[t].policy[y], u, v)
  <2>1. DOMAIN store = Tenants /\ t \in Tenants /\ store[t] # Absent /\ Listing(store[t], t)
    BY <1>1 DEF StoreInv, ListingInv, Declared
  <2>2. CASE store'[t].policy = store[t].policy
    BY <1>1, <2>2
  <2>3. CASE InitCommon
    <3>1. store'[t] = store[t]
      BY <2>1, <2>3 DEF InitCommon
    <3> QED
      BY <2>2, <3>1
  <2>4. ASSUME NEW q \in Requests, Apply(q), t = TenantOf[q.rule]
        PROVE  Before(store'[t].policy[y], u, v)
    <3>1. store'[t] = Body(store[t], q)
      BY <2>1, <2>4 DEF Apply
    <3> QED
      BY <1>1, <2>1, <2>4, <3>1, BodyOrder
  <2>5. ASSUME NEW q \in Requests, Apply(q), t # TenantOf[q.rule]
        PROVE  store'[t] = store[t]
    BY <2>1, <2>5 DEF Apply
  <2>6. ASSUME NEW r, NEW s, NEW A, PatchSource(r, s, A) PROVE store'[t].policy = store[t].policy
    BY <2>1, <2>6, PatchFrame
  <2> QED
    BY <1>1, <2>2, <2>3, <2>4, <2>5, <2>6 DEF StoreNext
<1>2. StoreInv /\ ListingInv /\ [StoreNext]_store => [Stable]_store
  BY <1>1
<1> QED
  BY <1>2, StoreInvInit, StoreInvStep, ListingInvInit, ListingInvStep, PTL
     DEF StoreSpec, OrderStable

-----------------------------------------------------------------------------
(* Types. *)

LEMMA MergePartial ==
    ASSUME NEW f, NEW d, NEW S, NEW T, Partial(f, S, T), Partial(d, S, T), NEW del \in BOOLEAN
    PROVE  Partial(MergeAttrs(f, d, del), S, T)
BY DEF Partial, MergeAttrs, Override, Restrict

LEMMA UsedPartial ==
    ASSUME NEW f, NEW X, NEW S, NEW T, Partial(f, S, T)
    PROVE  Partial(Used(f, X), S, T)
BY DEF Partial, Used, Restrict

LEMMA DefaultTyped ==
    ASSUME NEW t
    PROVE  IsApp(DefaultApp(t))
<1>1. Partial(InitPolicies(t), Types, Seq(Uses))
  <2>1. \A y \in PolicyTypes(t) : y \in Types /\ InitPolicies(t)[y] \in Seq(Uses)
    BY InitShape DEF PolicyShape, PolicyTypes
  <2>2. InitPolicies(t) = [y \in PolicyTypes(t) |-> InitPolicies(t)[y]]
    BY DEF InitPolicies
  <2> QED
    BY <2>1, <2>2, Zenon DEF Partial
<1>2. \A S, T : Partial(<<>>, S, T)
  BY DEF Partial
<1> QED
  BY <1>1, <1>2 DEF IsApp, DefaultApp

LEMMA DeltaTyped ==
    ASSUME NEW q \in Requests
    PROVE  IsApp(Delta(q))
<1> DEFINE d == Delta(q)
<1>1. /\ q.rule \in Rules /\ q.exts \in Seq(Exts) /\ q.spec \in [Range(q.exts) -> ExtSpec]
      /\ q.ep \in Services /\ q.src \subseteq Addrs /\ q.action \in Actions /\ q.conf \in Confs
  BY RequestsAssumption DEF WellFormed, IsRequest
<1>2. \A e \in Range(q.exts) : /\ e \in Exts
                               /\ q.spec[e].content \in Contents
                               /\ q.spec[e].ports \in Seq(Ports)
  BY <1>1 DEF ExtSpec, Range
<1>3. FromOf(q) \subseteq Services
  BY <1>1 DEF FromOf
<1>4. Partial(d.policy, Types, Seq(Uses))
  <2>1. DOMAIN DeltaPolicies(q) = PolicyTypes(TenantOf[q.rule])
    BY RequestsAssumption, DeltaShape
  <2>2. \A y \in DOMAIN DeltaPolicies(q) : y \in Types /\ DeltaPolicies(q)[y] \in Seq(Uses)
    BY <2>1, RequestsAssumption, DeltaShape DEF PolicyShape, PolicyTypes
  <2>3. DeltaPolicies(q) = [y \in DOMAIN DeltaPolicies(q) |-> DeltaPolicies(q)[y]]
    BY Zenon DEF DeltaPolicies
  <2>4. d.policy = DeltaPolicies(q)
    BY DEF Delta
  <2> QED
    BY <2>2, <2>3, <2>4, Zenon DEF Partial
<1>5. Partial(d.rules, RuleKeys, RuleList)
  <2>1. ASSUME NEW k \in KeysOf(q)
        PROVE  /\ k \in RuleKeys
               /\ [ports |-> q.spec[k[2]].ports, from |-> FromOf(q), action |-> q.action] \in RuleList
    <3>1. k[2] \in Range(q.exts) /\ k = <<q.rule, k[2]>>
      BY DEF KeysOf
    <3> QED
      BY <1>1, <1>2, <1>3, <3>1 DEF RuleKeys, RuleList
  <2>2. d.rules = [k \in KeysOf(q) |-> [ports  |-> q.spec[k[2]].ports,
                                        from   |-> FromOf(q),
                                        action |-> q.action]]
    BY DEF Delta
  <2> HIDE DEF d
  <2>3. DOMAIN d.rules = KeysOf(q)
    BY <2>2
  <2>4. d.rules \in [KeysOf(q) -> RuleList]
    BY <2>1, <2>2, Zenon
  <2> QED
    BY <2>1, <2>3, <2>4 DEF Partial
<1>6. Partial(d.dst, RuleKeys, Contents)
  <2>1. \A k \in KeysOf(q) : k \in RuleKeys /\ q.spec[k[2]].content \in Contents
    BY <1>1, <1>2 DEF KeysOf, RuleKeys
  <2>2. d.dst = [k \in KeysOf(q) |-> q.spec[k[2]].content]
    BY DEF Delta
  <2> QED
    BY <2>1, <2>2, Zenon DEF Partial
<1>7. Partial(d.ports, PortKeys, Contents)
  <2>1. \A k \in PortKeysOf(q) : k \in PortKeys /\ q.spec[k[2]].content \in Contents
    <3> SUFFICES ASSUME NEW e \in Range(q.exts), NEW p \in Range(q.spec[e].ports)
                 PROVE  <<q.rule, e, p>> \in PortKeys /\ q.spec[e].content \in Contents
      BY DEF PortKeysOf
    <3>1. p \in Ports
      BY <1>2 DEF Range
    <3> QED
      BY <1>1, <1>2, <3>1 DEF PortKeys
  <2>2. d.ports = [k \in PortKeysOf(q) |-> q.spec[k[2]].content]
    BY DEF Delta
  <2> QED
    BY <2>1, <2>2, Zenon DEF Partial
<1>8. Partial(d.src, SrcKeys, SUBSET Addrs)
  <2>1. \A k \in SrcKeysOf(q) : k \in SrcKeys
    BY <1>1, <1>3 DEF SrcKeysOf, SrcKeys
  <2>2. d.src = [k \in SrcKeysOf(q) |-> q.src]
    BY DEF Delta
  <2> QED
    BY <1>1, <2>1, <2>2 DEF Partial
<1>9. d.conf \in Versions \cup {NoConf}
  BY <1>1, DeclarationAssumption DEF Delta, ServiceDeclared
<1>10. d.log \in BOOLEAN
  <2>1. d.log = (q.conf \in Profile /\ (q.isDelete => q.conf \notin KeptProfile))
    BY DEF Delta, LogDeclared
  <2> HIDE DEF d
  <2> QED
    BY <2>1
<1>11. d = [policy |-> d.policy, rules |-> d.rules, dst |-> d.dst,
            ports |-> d.ports, src |-> d.src, conf |-> d.conf, log |-> d.log]
  BY DEF Delta
<1> HIDE DEF d
<1>12. IsApp(d)
  BY <1>4, <1>5, <1>6, <1>7, <1>8, <1>9, <1>10, <1>11 DEF IsApp
<1> QED
  BY <1>12 DEF d

LEMMA BodyTyped ==
    ASSUME NEW q \in Requests, NEW app,
           app # Absent => IsApp(app) /\ Listing(app, TenantOf[q.rule]), Body(app, q) # Absent
    PROVE  IsApp(Body(app, q))
<1> DEFINE t == TenantOf[q.rule]
<1>1. CASE app = Absent
  BY <1>1, DeltaTyped DEF Body
<1>2. CASE app # Absent
  <2> DEFINE d == Delta(q)
             m == Merged(app, d, q.isDelete)
             b == Body(app, q)
  <2>1. IsApp(app) /\ IsApp(d) /\ q.isDelete \in BOOLEAN /\ q.conf \in Confs
    BY <1>2, DeltaTyped, RequestsAssumption DEF WellFormed, IsRequest
  <2>2. b = ClearUp(m, q.conf)
    BY <1>2 DEF Body
  <2>3. /\ m.rules = MergeAttrs(app.rules, d.rules, q.isDelete)
        /\ m.dst = MergeAttrs(app.dst, d.dst, q.isDelete)
        /\ m.ports = MergeAttrs(app.ports, d.ports, q.isDelete)
        /\ m.src = MergeAttrs(app.src, d.src, q.isDelete)
        /\ m.conf = IF q.isDelete THEN app.conf ELSE d.conf
        /\ m.policy = [y \in DOMAIN app.policy |->
                          PolicyMerge(app.policy[y], d.policy[y], q.isDelete)]
    BY DEF Merged
  <2> HIDE DEF m
  <2>5. /\ b.policy = m.policy /\ b.rules = m.rules
        /\ b.dst = Used(m.dst, DOMAIN m.rules)
        /\ b.ports = Used(m.ports, ReferencedPorts(m))
        /\ b.src = Used(m.src, ReferencedSrc(m))
        /\ b.conf = m.conf
    BY <2>2 DEF ClearUp
  <2>6. b.log = (m.log /\ Logging[Version[q.conf]])
    BY <2>2 DEF ClearUp
  <2>7. b = [policy |-> b.policy, rules |-> b.rules, dst |-> b.dst,
             ports |-> b.ports, src |-> b.src, conf |-> b.conf, log |-> b.log]
    BY <2>2 DEF ClearUp
  <2>8. Listing(b, t)
    BY <1>2, BodyListing
  <2> HIDE DEF b, d
  <2>9. Partial(b.policy, Types, Seq(Uses))
    <3>1. DOMAIN b.policy = PolicyTypes(t) /\ \A y \in PolicyTypes(t) : b.policy[y] \in Seq(Uses)
      BY <2>8 DEF Listing, PolicyShape
    <3>2. PolicyTypes(t) \subseteq Types
      BY DEF PolicyTypes
    <3>3. b.policy = [y \in DOMAIN b.policy |-> b.policy[y]]
      BY <2>3, <2>5
    <3> QED
      BY <3>1, <3>2, <3>3, Zenon DEF Partial
  <2>10. Partial(b.rules, RuleKeys, RuleList)
    <3>1. Partial(app.rules, RuleKeys, RuleList) /\ Partial(d.rules, RuleKeys, RuleList)
      BY <2>1, Zenon DEF IsApp
    <3>2. Partial(m.rules, RuleKeys, RuleList)
      BY <2>1, <2>3, <3>1, MergePartial
    <3> QED
      BY <2>5, <3>2
  <2>11. Partial(b.dst, RuleKeys, Contents)
    <3>1. Partial(app.dst, RuleKeys, Contents) /\ Partial(d.dst, RuleKeys, Contents)
      BY <2>1, Zenon DEF IsApp
    <3>2. Partial(m.dst, RuleKeys, Contents)
      BY <2>1, <2>3, <3>1, MergePartial
    <3> QED
      BY <2>5, <3>2, UsedPartial
  <2>12. Partial(b.ports, PortKeys, Contents)
    <3>1. Partial(app.ports, PortKeys, Contents) /\ Partial(d.ports, PortKeys, Contents)
      BY <2>1, Zenon DEF IsApp
    <3>2. Partial(m.ports, PortKeys, Contents)
      BY <2>1, <2>3, <3>1, MergePartial
    <3> QED
      BY <2>5, <3>2, UsedPartial
  <2>13. Partial(b.src, SrcKeys, SUBSET Addrs)
    <3>1. Partial(app.src, SrcKeys, SUBSET Addrs) /\ Partial(d.src, SrcKeys, SUBSET Addrs)
      BY <2>1, Zenon DEF IsApp
    <3>2. Partial(m.src, SrcKeys, SUBSET Addrs)
      BY <2>1, <2>3, <3>1, MergePartial
    <3> QED
      BY <2>5, <3>2, UsedPartial
  <2>14. b.conf \in Versions \cup {NoConf}
    <3>1. app.conf \in Versions \cup {NoConf} /\ d.conf \in Versions \cup {NoConf}
      BY <2>1, Zenon DEF IsApp
    <3> QED
      BY <2>3, <2>5, <3>1
  <2>15. b.log \in BOOLEAN
    BY <2>6
  <2>16. IsApp(b)
    BY <2>7, <2>9, <2>10, <2>11, <2>12, <2>13, <2>14, <2>15 DEF IsApp
  <2> QED
    BY <2>16 DEF b
<1> QED
  BY <1>1, <1>2

LEMMA PatchTyped ==
    ASSUME NEW app, IsApp(app), NEW k \in DOMAIN app.src, NEW A \in SUBSET Addrs
    PROVE  IsApp([app EXCEPT !.src[k] = A])
<1> PICK b : b = [app EXCEPT !.src[k] = A]
  OBVIOUS
<1>1. app = [policy |-> app.policy, rules |-> app.rules, dst |-> app.dst,
             ports |-> app.ports, src |-> app.src, conf |-> app.conf, log |-> app.log]
  BY DEF IsApp
<1>2. b = [policy |-> app.policy, rules |-> app.rules, dst |-> app.dst,
           ports |-> app.ports, src |-> [app.src EXCEPT ![k] = A],
           conf |-> app.conf, log |-> app.log]
  BY <1>1
<1>3. Partial([app.src EXCEPT ![k] = A], SrcKeys, SUBSET Addrs)
  BY DEF IsApp, Partial
<1>4. IsApp(b)
  BY <1>2, <1>3 DEF IsApp
<1> QED
  BY <1>4

TypedInv == \A t \in Declared : IsApp(store[t])

LEMMA TypedInvInit == StoreInit => TypedInv
BY DefaultTyped DEF StoreInit, TypedInv, Declared

LEMMA TypedInvStep ==
    ASSUME StoreInv, ListingInv, TypedInv, [StoreNext]_store PROVE TypedInv'
<1>1. DOMAIN store = Tenants
  BY DEF StoreInv
<1>2. SUFFICES ASSUME NEW t \in Tenants, store'[t] # Absent, store'[t] # store[t]
               PROVE  IsApp(store'[t])
  <2>1. \A t \in Tenants : store'[t] = store[t] /\ store'[t] # Absent => IsApp(store'[t])
    BY DEF TypedInv, Declared
  <2> QED
    BY <1>2, <2>1 DEF TypedInv, Declared
<1>3. CASE InitCommon
  BY <1>1, <1>2, <1>3, DefaultTyped DEF InitCommon
<1>4. ASSUME NEW q \in Requests, Apply(q) PROVE IsApp(store'[t])
  <2>1. t = TenantOf[q.rule] /\ store'[t] = Body(store[t], q)
    BY <1>1, <1>2, <1>4 DEF Apply
  <2>2. store[t] # Absent => IsApp(store[t]) /\ Listing(store[t], t)
    BY DEF TypedInv, ListingInv, Declared
  <2> QED
    BY <1>2, <2>1, <2>2, BodyTyped
<1>5. ASSUME NEW r, NEW s, NEW A \in SUBSET Addrs, PatchSource(r, s, A) PROVE IsApp(store'[t])
  <2>1. /\ store[t] # Absent /\ <<r, s>> \in DOMAIN store[t].src
        /\ store'[t] = [store[t] EXCEPT !.src[<<r, s>>] = A]
    BY <1>1, <1>2, <1>5, PatchFrame
  <2>2. IsApp(store[t])
    BY <2>1 DEF TypedInv, Declared
  <2> QED
    <3> PICK k : k = <<r, s>>
      OBVIOUS
    <3>1. k \in DOMAIN store[t].src /\ store'[t] = [store[t] EXCEPT !.src[k] = A]
      BY <2>1
    <3> PICK app : app = store[t]
      OBVIOUS
    <3>2. IsApp(app) /\ k \in DOMAIN app.src
      BY <2>2, <3>1
    <3>3. IsApp([app EXCEPT !.src[k] = A])
      BY <3>2, PatchTyped
    <3> QED
      BY <3>1, <3>3
<1> QED
  BY <1>2, <1>3, <1>4, <1>5 DEF StoreNext

\* The store holds declarations only, with the policies initDefault gives the tenant
\* (fullResource).
THEOREM StoreTyped == StoreSpec => []StoreTypeOK
<1>1. StoreInv /\ ListingInv /\ TypedInv => StoreTypeOK
  BY DEF StoreInv, ListingInv, Listing, TypedInv, StoreTypeOK, Declared
<1> QED
  BY <1>1, StoreInvInit, StoreInvStep, ListingInvInit, ListingInvStep, TypedInvInit,
     TypedInvStep, PTL DEF StoreSpec

-----------------------------------------------------------------------------
(* A request that is made again. *)

\* The references are those of the rule lists.
LEMMA RulesReference ==
    ASSUME NEW a, NEW b, a.rules = b.rules
    PROVE  ReferencedPorts(a) = ReferencedPorts(b) /\ ReferencedSrc(a) = ReferencedSrc(b)
<1>1. ReferencedPorts(a) = ReferencedPorts(b)
  BY DEF ReferencedPorts
<1> QED
  BY <1>1 DEF ReferencedSrc

\* Whether the log profile is there after the merge, before the clean-up.
LogAfter(old, new, del) == IF del THEN old /\ ~new ELSE old \/ new

\* b is what becomes of declaration app when delta d is merged into it under
\* configuration c.
IsBody(b, app, d, del, c) ==
    /\ b = [policy |-> b.policy, rules |-> b.rules, dst |-> b.dst, ports |-> b.ports,
            src |-> b.src, conf |-> b.conf, log |-> b.log]
    /\ b.policy = [y \in DOMAIN app.policy |-> PolicyMerge(app.policy[y], d.policy[y], del)]
    /\ b.rules = MergeAttrs(app.rules, d.rules, del)
    /\ b.dst = Used(MergeAttrs(app.dst, d.dst, del), DOMAIN b.rules)
    /\ b.ports = Used(MergeAttrs(app.ports, d.ports, del), ReferencedPorts(b))
    /\ b.src = Used(MergeAttrs(app.src, d.src, del), ReferencedSrc(b))
    /\ b.conf = IF del THEN app.conf ELSE d.conf
    /\ b.log = (LogAfter(app.log, d.log, del) /\ Logging[Version[c]])

LEMMA BodyIs ==
    ASSUME NEW app, app # Absent, NEW q
    PROVE  IsBody(Body(app, q), app, Delta(q), q.isDelete, q.conf)
<1> DEFINE d == Delta(q)
           m == Merged(app, d, q.isDelete)
           b == Body(app, q)
<1>1. b = ClearUp(m, q.conf)
  BY DEF Body
<1>2. /\ m.policy = [y \in DOMAIN app.policy |->
                        PolicyMerge(app.policy[y], d.policy[y], q.isDelete)]
      /\ m.rules = MergeAttrs(app.rules, d.rules, q.isDelete)
      /\ m.dst = MergeAttrs(app.dst, d.dst, q.isDelete)
      /\ m.ports = MergeAttrs(app.ports, d.ports, q.isDelete)
      /\ m.src = MergeAttrs(app.src, d.src, q.isDelete)
      /\ m.conf = IF q.isDelete THEN app.conf ELSE d.conf
  BY DEF Merged
<1>3. m.log = LogAfter(app.log, d.log, q.isDelete)
  BY DEF Merged, LogAfter
<1> HIDE DEF m
<1>4. /\ b = [policy |-> b.policy, rules |-> b.rules, dst |-> b.dst, ports |-> b.ports,
              src |-> b.src, conf |-> b.conf, log |-> b.log]
      /\ b.policy = m.policy /\ b.rules = m.rules /\ b.conf = m.conf
      /\ b.dst = Used(m.dst, DOMAIN m.rules)
      /\ b.ports = Used(m.ports, ReferencedPorts(m))
      /\ b.src = Used(m.src, ReferencedSrc(m))
  BY <1>1 DEF ClearUp
<1>5. b.log = (m.log /\ Logging[Version[q.conf]])
  BY <1>1 DEF ClearUp
<1> HIDE DEF b, d
<1>6. ReferencedPorts(b) = ReferencedPorts(m) /\ ReferencedSrc(b) = ReferencedSrc(m)
  BY <1>4, RulesReference
<1>7. b.log = (LogAfter(app.log, d.log, q.isDelete) /\ Logging[Version[q.conf]])
  BY <1>3, <1>5, Zenon
<1> QED
  BY <1>2, <1>4, <1>6, <1>7, Zenon DEF IsBody, b, d

\* The attributes of one class, merged and cleaned up twice.
LEMMA AttrsTwice ==
    ASSUME NEW f, NEW d, NEW del \in BOOLEAN, NEW X
    PROVE  Used(MergeAttrs(Used(MergeAttrs(f, d, del), X), d, del), X)
             = Used(MergeAttrs(f, d, del), X)
<1> DEFINE g == Used(MergeAttrs(f, d, del), X)
           h == Used(MergeAttrs(g, d, del), X)
<1>1. CASE del
  <2>1. /\ DOMAIN g = (DOMAIN f \ DOMAIN d) \cap X
        /\ \A k \in DOMAIN g : g[k] = f[k]
        /\ g = [k \in DOMAIN g |-> g[k]]
    BY <1>1 DEF MergeAttrs, Used, Restrict
  <2> HIDE DEF g
  <2>2. /\ DOMAIN h = (DOMAIN g \ DOMAIN d) \cap X
        /\ \A k \in DOMAIN h : h[k] = g[k]
        /\ h = [k \in DOMAIN h |-> h[k]]
    BY <1>1 DEF MergeAttrs, Used, Restrict
  <2> HIDE DEF h
  <2>3. DOMAIN h = DOMAIN g
    BY <2>1, <2>2
  <2>4. h = g
    BY <2>1, <2>2, <2>3
  <2> QED
    BY <2>4 DEF g, h
<1>2. CASE ~del
  <2>1. /\ DOMAIN g = (DOMAIN f \cup DOMAIN d) \cap X
        /\ \A k \in DOMAIN g : g[k] = IF k \in DOMAIN d THEN d[k] ELSE f[k]
        /\ g = [k \in DOMAIN g |-> g[k]]
    BY <1>2 DEF MergeAttrs, Override, Used, Restrict
  <2> HIDE DEF g
  <2>2. /\ DOMAIN h = (DOMAIN g \cup DOMAIN d) \cap X
        /\ \A k \in DOMAIN h : h[k] = IF k \in DOMAIN d THEN d[k] ELSE g[k]
        /\ h = [k \in DOMAIN h |-> h[k]]
    BY <1>2 DEF MergeAttrs, Override, Used, Restrict
  <2> HIDE DEF h
  <2>3. DOMAIN h = DOMAIN g
    BY <2>1, <2>2
  <2>4. \A k \in DOMAIN h : h[k] = g[k]
    BY <2>1, <2>2, <2>3
  <2>5. h = g
    BY <2>1, <2>2, <2>3, <2>4
  <2> QED
    BY <2>5 DEF g, h
<1> QED
  BY <1>1, <1>2

\* Rule lists are merged twice with deltas that name the same: the second one counts.
LEMMA RulesTwice ==
    ASSUME NEW f, NEW d, NEW d2, DOMAIN d = DOMAIN d2, NEW del \in BOOLEAN
    PROVE  MergeAttrs(MergeAttrs(f, d, del), d2, del) = MergeAttrs(f, d2, del)
<1> DEFINE g == MergeAttrs(f, d, del)
           h == MergeAttrs(g, d2, del)
           e == MergeAttrs(f, d2, del)
<1>1. CASE del
  <2>1. DOMAIN g = DOMAIN f \ DOMAIN d /\ \A k \in DOMAIN g : g[k] = f[k]
    BY <1>1 DEF MergeAttrs, Restrict
  <2> HIDE DEF g
  <2>2. h = [k \in DOMAIN g \ DOMAIN d2 |-> g[k]] /\ e = [k \in DOMAIN f \ DOMAIN d2 |-> f[k]]
    BY <1>1 DEF MergeAttrs, Restrict
  <2>3. h = e
    BY <2>1, <2>2
  <2> QED
    BY <2>3 DEF g
<1>2. CASE ~del
  <2>1. /\ DOMAIN g = DOMAIN f \cup DOMAIN d
        /\ \A k \in DOMAIN g : k \notin DOMAIN d => g[k] = f[k]
    BY <1>2 DEF MergeAttrs, Override
  <2> HIDE DEF g
  <2>2. /\ h = [k \in DOMAIN d2 \cup DOMAIN g |-> IF k \in DOMAIN d2 THEN d2[k] ELSE g[k]]
        /\ e = [k \in DOMAIN d2 \cup DOMAIN f |-> IF k \in DOMAIN d2 THEN d2[k] ELSE f[k]]
    BY <1>2 DEF MergeAttrs, Override
  <2>3. h = e
    BY <2>1, <2>2
  <2> QED
    BY <2>3 DEF g
<1> QED
  BY <1>1, <1>2

\* Requests of the same objects declare the same, but for the order of the firewall
\* rules in a rule list.
LEMMA SameDelta ==
    ASSUME NEW q \in Requests, NEW q2 \in Requests, SameRequest(q, q2)
    PROVE  LET d  == Delta(q)
               d2 == Delta(q2)
           IN  /\ d2.policy = d.policy /\ d2.dst = d.dst /\ d2.ports = d.ports
               /\ d2.src = d.src /\ d2.conf = d.conf /\ d2.log = d.log
               /\ DOMAIN d2.rules = DOMAIN d.rules
               /\ \A k \in DOMAIN d.rules : /\ Range(d2.rules[k].ports) = Range(d.rules[k].ports)
                                            /\ d2.rules[k].from = d.rules[k].from
<1> DEFINE d  == Delta(q)
           d2 == Delta(q2)
<1>1. /\ q2.rule = q.rule /\ q2.exts = q.exts /\ q2.ep = q.ep /\ q2.src = q.src
      /\ q2.conf = q.conf /\ q2.isDelete = q.isDelete
      /\ \A e \in Range(q.exts) : /\ q.spec[e].content = q2.spec[e].content
                                  /\ Range(q.spec[e].ports) = Range(q2.spec[e].ports)
  BY DEF SameRequest
<1>2. KeysOf(q2) = KeysOf(q) /\ \A k \in KeysOf(q) : k[2] \in Range(q.exts)
  BY <1>1 DEF KeysOf
<1>3. PortKeysOf(q2) = PortKeysOf(q) /\ \A k \in PortKeysOf(q) : k[2] \in Range(q.exts)
  BY <1>1 DEF PortKeysOf
<1>4. FromOf(q2) = FromOf(q) /\ SrcKeysOf(q2) = SrcKeysOf(q)
  BY <1>1 DEF FromOf, SrcKeysOf
<1>5. d2.policy = d.policy
  BY <1>1 DEF Delta, DeltaPolicies
<1>6. d2.dst = d.dst
  BY <1>1, <1>2 DEF Delta
<1>7. d2.ports = d.ports
  BY <1>1, <1>3 DEF Delta
<1>8. d2.src = d.src
  BY <1>1, <1>4 DEF Delta
<1>9. d2.conf = d.conf /\ d2.log = d.log
  BY <1>1 DEF Delta, ServiceDeclared, LogDeclared
<1>10. /\ DOMAIN d2.rules = KeysOf(q) /\ DOMAIN d.rules = KeysOf(q)
       /\ \A k \in KeysOf(q) : /\ d2.rules[k].ports = q2.spec[k[2]].ports
                               /\ d.rules[k].ports = q.spec[k[2]].ports
                               /\ d2.rules[k].from = FromOf(q2)
                               /\ d.rules[k].from = FromOf(q)
  BY <1>2 DEF Delta
<1> HIDE DEF d, d2
<1>11. \A k \in KeysOf(q) : /\ Range(d2.rules[k].ports) = Range(d.rules[k].ports)
                            /\ d2.rules[k].from = d.rules[k].from
  BY <1>1, <1>2, <1>4, <1>10
<1> QED
  BY <1>5, <1>6, <1>7, <1>8, <1>9, <1>10, <1>11 DEF d, d2

\* Two declarations with the same attributes are the same.
LEMMA SameFields ==
    ASSUME NEW a, NEW b,
           a = [policy |-> a.policy, rules |-> a.rules, dst |-> a.dst, ports |-> a.ports,
                src |-> a.src, conf |-> a.conf, log |-> a.log],
           b = [policy |-> b.policy, rules |-> b.rules, dst |-> b.dst, ports |-> b.ports,
                src |-> b.src, conf |-> b.conf, log |-> b.log],
           a.policy = b.policy, a.rules = b.rules, a.dst = b.dst, a.ports = b.ports,
           a.src = b.src, a.conf = b.conf, a.log = b.log
    PROVE  a = b
BY Zenon

\* A request leaves a tenant declared, and all but a deletion declare it.
LEMMA BodyThere ==
    ASSUME NEW app, NEW q, app # Absent \/ ~q.isDelete
    PROVE  Body(app, q) # Absent
<1>1. \A a, c : ClearUp(a, c) # Absent
  BY DEF ClearUp, Absent
<1>2. Delta(q) # Absent
  BY DEF Delta, Absent
<1> QED
  BY <1>1, <1>2, Zenon DEF Body

\* The references of rule lists that differ in the order of the port lists.
LEMMA SameReferences ==
    ASSUME NEW a, NEW b, DOMAIN a.rules = DOMAIN b.rules,
           \A k \in DOMAIN a.rules : /\ Range(a.rules[k].ports) = Range(b.rules[k].ports)
                                     /\ a.rules[k].from = b.rules[k].from
    PROVE  ReferencedPorts(a) = ReferencedPorts(b) /\ ReferencedSrc(a) = ReferencedSrc(b)
BY DEF ReferencedPorts, ReferencedSrc

LEMMA AgainDeclared ==
    ASSUME NEW q \in Requests, NEW q2 \in Requests, SameRequest(q, q2),
           NEW app, app # Absent, Listing(app, TenantOf[q.rule])
    PROVE  Body(Body(app, q), q2) = Body(app, q2)
<1> DEFINE d  == Delta(q)
           d2 == Delta(q2)
           b  == Body(app, q)
           h  == Body(b, q2)
           e  == Body(app, q2)
<1> PICK del \in BOOLEAN : del = q.isDelete
  BY RequestsAssumption DEF WellFormed, IsRequest
<1> PICK c : c = q.conf
  OBVIOUS
<1>1. q2.isDelete = del /\ q2.conf = c
  BY DEF SameRequest
<1>2. b # Absent
  BY BodyThere
<1>3. IsBody(b, app, d, del, c)
  BY BodyIs
<1>4. IsBody(h, b, d2, del, c)
  BY <1>1, <1>2, BodyIs
<1>5. IsBody(e, app, d2, del, c)
  BY <1>1, BodyIs
<1>6. /\ d2.policy = d.policy /\ d2.dst = d.dst /\ d2.ports = d.ports
      /\ d2.src = d.src /\ d2.conf = d.conf /\ d2.log = d.log
      /\ DOMAIN d2.rules = DOMAIN d.rules
      /\ \A k \in DOMAIN d.rules : /\ Range(d2.rules[k].ports) = Range(d.rules[k].ports)
                                   /\ d2.rules[k].from = d.rules[k].from
  BY SameDelta
<1>7. /\ DOMAIN app.policy = PolicyTypes(TenantOf[q.rule])
      /\ \A y \in DOMAIN app.policy :
            PolicyShape(app.policy[y], y) /\ PolicyShape(d.policy[y], y)
  BY DeltaListing DEF Listing
<1> HIDE DEF b, h, e, d, d2
<1>8. h.policy = e.policy
  <2>1. \A y \in DOMAIN app.policy :
            PolicyMerge(PolicyMerge(app.policy[y], d.policy[y], del), d.policy[y], del)
              = PolicyMerge(app.policy[y], d.policy[y], del)
    BY <1>7, MergeAgain
  <2>2. b.policy = [y \in DOMAIN app.policy |-> PolicyMerge(app.policy[y], d.policy[y], del)]
    BY <1>3, Zenon DEF IsBody
  <2>3. h.policy = [y \in DOMAIN b.policy |-> PolicyMerge(b.policy[y], d.policy[y], del)]
    BY <1>4, <1>6, Zenon DEF IsBody
  <2>4. e.policy = [y \in DOMAIN app.policy |-> PolicyMerge(app.policy[y], d.policy[y], del)]
    BY <1>5, <1>6, Zenon DEF IsBody
  <2> QED
    BY ONLY <2>1, <2>2, <2>3, <2>4
<1>9. h.rules = e.rules
  BY <1>3, <1>4, <1>5, <1>6, RulesTwice DEF IsBody
<1>10. /\ DOMAIN b.rules = DOMAIN e.rules
       /\ \A k \in DOMAIN b.rules : /\ Range(b.rules[k].ports) = Range(e.rules[k].ports)
                                    /\ b.rules[k].from = e.rules[k].from
  <2>1. b.rules = MergeAttrs(app.rules, d.rules, del)
    BY <1>3, Zenon DEF IsBody
  <2>2. e.rules = MergeAttrs(app.rules, d2.rules, del)
    BY <1>5, Zenon DEF IsBody
  <2> QED
    BY <1>6, <2>1, <2>2 DEF MergeAttrs, Restrict, Override
<1>11. ReferencedPorts(b) = ReferencedPorts(e) /\ ReferencedSrc(b) = ReferencedSrc(e)
  BY <1>10, SameReferences
<1>12. ReferencedPorts(h) = ReferencedPorts(e) /\ ReferencedSrc(h) = ReferencedSrc(e)
  BY <1>9, RulesReference
<1>13. h.dst = e.dst
  <2>1. b.dst = Used(MergeAttrs(app.dst, d.dst, del), DOMAIN e.rules)
    BY <1>3, <1>10 DEF IsBody
  <2>2. h.dst = Used(MergeAttrs(b.dst, d.dst, del), DOMAIN e.rules)
    BY <1>4, <1>6, <1>9 DEF IsBody
  <2>3. e.dst = Used(MergeAttrs(app.dst, d.dst, del), DOMAIN e.rules)
    BY <1>5, <1>6 DEF IsBody
  <2> QED
    BY <2>1, <2>2, <2>3, AttrsTwice
<1>14. h.ports = e.ports
  BY <1>3, <1>4, <1>5, <1>6, <1>11, <1>12, AttrsTwice DEF IsBody
<1>15. h.src = e.src
  BY <1>3, <1>4, <1>5, <1>6, <1>11, <1>12, AttrsTwice DEF IsBody
<1>16. h.conf = e.conf
  BY <1>3, <1>4, <1>5, <1>6 DEF IsBody
<1>17. h.log = e.log
  <2>1. /\ b.log = (LogAfter(app.log, d.log, del) /\ Logging[Version[c]])
        /\ h.log = (LogAfter(b.log, d.log, del) /\ Logging[Version[c]])
        /\ e.log = (LogAfter(app.log, d.log, del) /\ Logging[Version[c]])
    BY <1>3, <1>4, <1>5, <1>6, Zenon DEF IsBody
  <2> QED
    BY <2>1, Zenon DEF LogAfter
<1>18. h = e
  BY <1>4, <1>5, <1>8, <1>9, <1>13, <1>14, <1>15, <1>16, <1>17, SameFields DEF IsBody
<1> QED
  BY <1>18 DEF b, h, e

\* The same when the first request declared the tenant.
LEMMA AgainNew ==
    ASSUME NEW q \in Requests, NEW q2 \in Requests, SameRequest(q, q2), ~q.isDelete
    PROVE  Body(Delta(q), q2) = Delta(q2)
<1> DEFINE d  == Delta(q)
           d2 == Delta(q2)
           h  == Body(d, q2)
<1>1. /\ ~q2.isDelete /\ q2.isDelete = FALSE
  BY RequestsAssumption DEF SameRequest, WellFormed, IsRequest
<1>2. d # Absent
  BY DEF Delta, Absent
<1>3. IsBody(h, d, d2, FALSE, q2.conf)
  BY <1>1, <1>2, BodyIs
<1>4. /\ d2.policy = d.policy /\ d2.dst = d.dst /\ d2.ports = d.ports
      /\ d2.src = d.src /\ d2.conf = d.conf /\ d2.log = d.log
      /\ DOMAIN d2.rules = DOMAIN d.rules
  BY SameDelta
<1>5. /\ d2 = [policy |-> d2.policy, rules |-> d2.rules, dst |-> d2.dst, ports |-> d2.ports,
               src |-> d2.src, conf |-> d2.conf, log |-> d2.log]
      /\ d2.policy = [y \in DOMAIN d2.policy |-> d2.policy[y]]
      /\ d2.rules = [k \in DOMAIN d2.rules |-> d2.rules[k]]
      /\ d2.dst = [k \in DOMAIN d2.dst |-> d2.dst[k]]
      /\ d2.ports = [k \in DOMAIN d2.ports |-> d2.ports[k]]
      /\ d2.src = [k \in DOMAIN d2.src |-> d2.src[k]]
  <2>1. DeltaPolicies(q2) = [y \in DOMAIN DeltaPolicies(q2) |-> DeltaPolicies(q2)[y]]
    BY Zenon DEF DeltaPolicies
  <2>2. d2.policy = [y \in DOMAIN d2.policy |-> d2.policy[y]]
    BY <2>1 DEF Delta
  <2>3. d2.rules = [k \in DOMAIN d2.rules |-> d2.rules[k]]
    BY DEF Delta
  <2>4. d2.dst = [k \in DOMAIN d2.dst |-> d2.dst[k]]
    BY DEF Delta
  <2>5. d2.ports = [k \in DOMAIN d2.ports |-> d2.ports[k]]
    BY DEF Delta
  <2>6. d2.src = [k \in DOMAIN d2.src |-> d2.src[k]]
    BY DEF Delta
  <2>7. d2 = [policy |-> d2.policy, rules |-> d2.rules, dst |-> d2.dst, ports |-> d2.ports,
              src |-> d2.src, conf |-> d2.conf, log |-> d2.log]
    BY DEF Delta
  <2> HIDE DEF d2
  <2> QED
    BY <2>2, <2>3, <2>4, <2>5, <2>6, <2>7
<1>6. d2.log \in BOOLEAN /\ (d2.log => Logging[Version[q2.conf]])
  BY <1>1, DeclarationAssumption DEF Delta, LogDeclared
<1>7. \A y \in DOMAIN d.policy : PolicyShape(d.policy[y], y)
  BY DeltaListing DEF Listing
<1>8. NoOrphans(d2) /\ DOMAIN d2.dst = DOMAIN d2.rules
  BY DeltaSound DEF Sound, Delta
<1> HIDE DEF h, d, d2
<1>9. h.policy = d2.policy
  <2>1. \A y \in DOMAIN d.policy : PolicyMerge(d.policy[y], d.policy[y], FALSE) = d.policy[y]
    BY <1>7, MergeIdempotent
  <2>2. h.policy = [y \in DOMAIN d.policy |-> PolicyMerge(d.policy[y], d.policy[y], FALSE)]
    BY <1>3, <1>4, Zenon DEF IsBody
  <2> QED
    BY <1>4, <1>5, <2>1, <2>2 DEF IsBody
<1>10. h.rules = d2.rules
  BY <1>3, <1>4, <1>5 DEF IsBody, MergeAttrs, Override
<1>11. ReferencedPorts(h) = ReferencedPorts(d2) /\ ReferencedSrc(h) = ReferencedSrc(d2)
  BY <1>10, RulesReference
<1>12. ASSUME NEW f, f = [k \in DOMAIN f |-> f[k]], NEW X, DOMAIN f \subseteq X
       PROVE  Used(MergeAttrs(f, f, FALSE), X) = f
  BY <1>12 DEF Used, MergeAttrs, Override, Restrict
<1>13. h.dst = d2.dst
  <2>1. h.dst = Used(MergeAttrs(d2.dst, d2.dst, FALSE), DOMAIN d2.rules)
    BY <1>3, <1>4, <1>10, Zenon DEF IsBody
  <2>2. DOMAIN d2.dst \subseteq DOMAIN d2.rules
    BY <1>8
  <2> QED
    BY <1>5, <1>12, <2>1, <2>2 DEF IsBody
<1>14. h.ports = d2.ports
  <2>1. h.ports = Used(MergeAttrs(d2.ports, d2.ports, FALSE), ReferencedPorts(d2))
    BY <1>3, <1>4, <1>11, Zenon DEF IsBody
  <2>2. DOMAIN d2.ports \subseteq ReferencedPorts(d2)
    BY <1>8 DEF NoOrphans
  <2> QED
    BY <1>5, <1>12, <2>1, <2>2 DEF IsBody
<1>15. h.src = d2.src
  <2>1. h.src = Used(MergeAttrs(d2.src, d2.src, FALSE), ReferencedSrc(d2))
    BY <1>3, <1>4, <1>11, Zenon DEF IsBody
  <2>2. DOMAIN d2.src \subseteq ReferencedSrc(d2)
    BY <1>8 DEF NoOrphans
  <2> QED
    BY <1>5, <1>12, <2>1, <2>2 DEF IsBody
<1>16. h.conf = d2.conf
  BY <1>3 DEF IsBody
<1>17. h.log = d2.log
  <2>1. h.log = (LogAfter(d2.log, d2.log, FALSE) /\ Logging[Version[q2.conf]])
    BY <1>3, <1>4, Zenon DEF IsBody
  <2>2. CASE d2.log
    <3>1. d2.log = TRUE /\ Logging[Version[q2.conf]] = TRUE
      BY <1>6, <2>2, DeclarationAssumption, RequestsAssumption DEF WellFormed, IsRequest
    <3> QED
      BY <2>1, <3>1, Zenon DEF LogAfter
  <2>3. CASE ~d2.log
    <3>1. d2.log = FALSE
      BY <1>6, <2>3
    <3> QED
      BY <2>1, <3>1, Zenon DEF LogAfter
  <2> QED
    BY <2>2, <2>3
<1>18. h = d2
  BY <1>3, <1>5, <1>9, <1>10, <1>13, <1>14, <1>15, <1>16, <1>17, SameFields DEF IsBody
<1> QED
  BY <1>18 DEF h, d, d2

LEMMA Again ==
    ASSUME NEW q \in Requests, NEW q2 \in Requests, SameRequest(q, q2),
           NEW app, app # Absent => Listing(app, TenantOf[q.rule])
    PROVE  Body(Body(app, q), q2) = Body(app, q2)
<1>1. CASE app # Absent
  BY <1>1, AgainDeclared
<1>2. CASE app = Absent /\ ~q.isDelete
  <2>1. ~q2.isDelete
    BY <1>2, RequestsAssumption DEF SameRequest, WellFormed, IsRequest
  <2>2. Body(app, q) = Delta(q) /\ Body(app, q2) = Delta(q2)
    BY <1>2, <2>1 DEF Body
  <2> QED
    BY <1>2, <2>2, AgainNew
<1>3. CASE app = Absent /\ q.isDelete
  <2>1. q2.isDelete
    BY <1>3 DEF SameRequest
  <2> QED
    BY <1>3, <2>1 DEF Body
<1> QED
  BY <1>1, <1>2, <1>3

\* After a request there is nothing to post for it.
LEMMA PostedUpToDate ==
    ASSUME NEW q \in Requests, ~q.isDelete, NEW app, app # Absent => Listing(app, TenantOf[q.rule])
    PROVE  UpToDate(Body(app, q), q)
<1> DEFINE b == Body(app, q)
<1>1. b # Absent
  BY BodyThere
<1>2. SameRequest(q, q)
  BY DEF SameRequest
<1>3. Body(b, q) = b
  BY <1>2, Again
<1> QED
  BY <1>1, <1>3, Zenon DEF UpToDate, IsDiff, Kept

\* A retry leaves what the last of the requests alone would leave, in whatever order it
\* finds the port groups, and posts nothing if no service has two (fullResource).
THEOREM RetryQuiet == StoreSpec => []RetryIsQuiet
<1>1. ASSUME StoreInv, ListingInv, NEW q \in Requests, NEW again \in Retries[q]
      PROVE  LET app  == store[TenantOf[q.rule]]
                 once == Body(app, q)
             IN  /\ Body(once, again) = Body(app, again)
                 /\ (~q.isDelete /\ \A e \in Range(q.exts) : Len(q.spec[e].ports) < 2) =>
                        UpToDate(once, again)
  <2> PICK app : app = store[TenantOf[q.rule]]
    OBVIOUS
  <2>1. again \in Requests /\ SameRequest(q, again)
    BY DEF Retries
  <2>2. app # Absent => Listing(app, TenantOf[q.rule])
    BY <1>1, RequestsAssumption, DeclarationAssumption
    DEF ListingInv, Declared, WellFormed, IsRequest
  <2>3. Body(Body(app, q), again) = Body(app, again)
    BY <2>1, <2>2, Again
  <2>4. ASSUME ~q.isDelete, \A e \in Range(q.exts) : Len(q.spec[e].ports) < 2
        PROVE  UpToDate(Body(app, q), again)
    \* then the port groups are found in the same order
    <3>1. /\ WellFormed(q) /\ WellFormed(again)
          /\ again.exts = q.exts /\ again.rule = q.rule /\ again.action = q.action
          /\ again.src = q.src /\ again.ep = q.ep /\ again.conf = q.conf
          /\ again.isDelete = q.isDelete
          /\ \A e \in Range(q.exts) : /\ q.spec[e].content = again.spec[e].content
                                      /\ Range(q.spec[e].ports) = Range(again.spec[e].ports)
      BY <2>1, RequestsAssumption DEF SameRequest
    <3>2. ASSUME NEW e \in Range(q.exts)
          PROVE  again.spec[e].ports = q.spec[e].ports
      <4> PICK s : s = q.spec[e].ports
        OBVIOUS
      <4> PICK s2 : s2 = again.spec[e].ports
        OBVIOUS
      <4>1. q.spec[e] \in ExtSpec /\ again.spec[e] \in ExtSpec
        BY <3>1 DEF WellFormed, IsRequest
      <4>2. /\ s \in Seq(Ports) /\ s2 \in Seq(Ports) /\ Len(s) < 2
            /\ IsInjective(s2) /\ Range(s) = Range(s2)
        BY <2>4, <3>1, <4>1 DEF ExtSpec, WellFormed
      <4>3. s = s2
        BY <4>2, ShortSame
      <4> QED
        BY <4>3
    <3>3. Delta(again) = Delta(q)
      <4>1. /\ KeysOf(again) = KeysOf(q) /\ \A k \in KeysOf(q) : k[2] \in Range(q.exts)
            /\ PortKeysOf(again) = PortKeysOf(q) /\ \A k \in PortKeysOf(q) : k[2] \in Range(q.exts)
            /\ FromOf(again) = FromOf(q) /\ SrcKeysOf(again) = SrcKeysOf(q)
            /\ DeltaPolicies(again) = DeltaPolicies(q)
        BY <3>1 DEF KeysOf, PortKeysOf, FromOf, SrcKeysOf, DeltaPolicies
      <4> QED
        BY <3>1, <3>2, <4>1 DEF Delta, ServiceDeclared, LogDeclared
    <3>4. Body(app, again) = Body(app, q)
      BY <3>1, <3>3, Zenon DEF Body
    <3>5. Body(app, q) # Absent
      BY <2>4, BodyThere
    <3> QED
      BY <2>3, <2>4, <3>1, <3>4, <3>5, Zenon DEF UpToDate, IsDiff, Kept
  <2> QED
    BY <2>3, <2>4
<1>2. StoreInv /\ ListingInv => RetryIsQuiet
  BY <1>1 DEF RetryIsQuiet
<1> QED
  BY <1>2, StoreInvInit, StoreInvStep, ListingInvInit, ListingInvStep, PTL DEF StoreSpec

-----------------------------------------------------------------------------
(* Requests of two rules. *)

\* Two functions, two declarations agree on what is named after rule r.
Agree(f, g, r) ==
    \A k : k[1] = r => /\ k \in DOMAIN f <=> k \in DOMAIN g
                       /\ k \in DOMAIN f => f[k] = g[k]

AgreeOn(a, b, r) ==
    /\ Agree(a.rules, b.rules, r) /\ Agree(a.dst, b.dst, r)
    /\ Agree(a.ports, b.ports, r) /\ Agree(a.src, b.src, r)

LEMMA PartAgrees ==
    ASSUME NEW a, NEW b, NEW r, PartOf(a, r) = PartOf(b, r)
    PROVE  AgreeOn(a, b, r)
<1> DEFINE Own(f) == Restrict(f, {k \in DOMAIN f : k[1] = r})
<1>1. /\ Own(a.rules) = Own(b.rules) /\ Own(a.dst) = Own(b.dst)
      /\ Own(a.ports) = Own(b.ports) /\ Own(a.src) = Own(b.src)
  BY DEF PartOf
<1>2. ASSUME NEW f, NEW g, Own(f) = Own(g) PROVE Agree(f, g, r)
  <2>1. DOMAIN Own(f) = {k \in DOMAIN f : k[1] = r} /\ \A k \in DOMAIN Own(f) : Own(f)[k] = f[k]
    BY DEF Restrict
  <2>2. DOMAIN Own(g) = {k \in DOMAIN g : k[1] = r} /\ \A k \in DOMAIN Own(g) : Own(g)[k] = g[k]
    BY DEF Restrict
  <2> HIDE DEF Own
  <2> QED
    BY <1>2, <2>1, <2>2 DEF Agree
<1> HIDE DEF Own
<1> QED
  BY <1>1, <1>2 DEF AgreeOn

LEMMA AgreeChain ==
    ASSUME NEW a, NEW b, NEW c, NEW r, AgreeOn(a, b, r)
    PROVE  /\ AgreeOn(b, a, r)
           /\ AgreeOn(b, c, r) => AgreeOn(a, c, r)
<1>1. ASSUME NEW f, NEW g, NEW h, Agree(f, g, r)
      PROVE  Agree(g, f, r) /\ (Agree(g, h, r) => Agree(f, h, r))
  BY <1>1 DEF Agree
<1> QED
  BY <1>1 DEF AgreeOn

\* What a request makes of a rule depends on what is declared for that rule only.
LEMMA OwnRule ==
    ASSUME NEW a, a # Absent, NEW b, b # Absent, NEW q \in Requests, NEW r, AgreeOn(a, b, r)
    PROVE  AgreeOn(Body(a, q), Body(b, q), r)
<1> PICK x : x = Body(a, q)
  OBVIOUS
<1> PICK y : y = Body(b, q)
  OBVIOUS
<1> PICK d : d = Delta(q)
  OBVIOUS
<1> PICK del \in BOOLEAN : del = q.isDelete
  BY RequestsAssumption DEF WellFormed, IsRequest
<1>1. IsBody(x, a, d, del, q.conf) /\ IsBody(y, b, d, del, q.conf)
  BY BodyIs
<1>2. ASSUME NEW f, NEW g, Agree(f, g, r), NEW e
      PROVE  Agree(MergeAttrs(f, e, del), MergeAttrs(g, e, del), r)
  BY <1>2 DEF Agree, MergeAttrs, Override, Restrict
<1>3. ASSUME NEW f, NEW g, Agree(f, g, r), NEW X, NEW Y, \A k : k[1] = r => (k \in X <=> k \in Y)
      PROVE  Agree(Used(f, X), Used(g, Y), r)
  BY <1>3 DEF Agree, Used, Restrict
<1>4. Agree(x.rules, y.rules, r)
  BY <1>1, <1>2 DEF IsBody, AgreeOn
<1>5. \A k : k[1] = r => (k \in ReferencedPorts(x) <=> k \in ReferencedPorts(y))
  <2>1. ASSUME NEW u, NEW v, Agree(u.rules, v.rules, r), NEW k \in ReferencedPorts(u), k[1] = r
        PROVE  k \in ReferencedPorts(v)
    <3>1. PICK j \in DOMAIN u.rules : \E p \in Range(u.rules[j].ports) : k = <<j[1], j[2], p>>
      BY <2>1 DEF ReferencedPorts
    <3>2. j[1] = r
      BY <2>1, <3>1
    <3>3. j \in DOMAIN v.rules /\ v.rules[j] = u.rules[j]
      BY <2>1, <3>1, <3>2 DEF Agree
    <3> QED
      BY <3>1, <3>3 DEF ReferencedPorts
  <2>2. Agree(y.rules, x.rules, r)
    BY <1>4 DEF Agree
  <2> QED
    BY <1>4, <2>1, <2>2
<1>6. \A k : k[1] = r => (k \in ReferencedSrc(x) <=> k \in ReferencedSrc(y))
  <2>1. ASSUME NEW u, NEW v, Agree(u.rules, v.rules, r), NEW k \in ReferencedSrc(u), k[1] = r
        PROVE  k \in ReferencedSrc(v)
    <3>1. PICK j \in DOMAIN u.rules : \E s \in u.rules[j].from : k = <<j[1], s>>
      BY <2>1 DEF ReferencedSrc
    <3>2. j[1] = r
      BY <2>1, <3>1
    <3>3. j \in DOMAIN v.rules /\ v.rules[j] = u.rules[j]
      BY <2>1, <3>1, <3>2 DEF Agree
    <3> QED
      BY <3>1, <3>3 DEF ReferencedSrc
  <2>2. Agree(y.rules, x.rules, r)
    BY <1>4 DEF Agree
  <2> QED
    BY <1>4, <2>1, <2>2
<1>7. \A k : k[1] = r => (k \in DOMAIN x.rules <=> k \in DOMAIN y.rules)
  BY <1>4 DEF Agree
<1>8. Agree(x.dst, y.dst, r)
  BY <1>1, <1>2, <1>3, <1>7 DEF IsBody, AgreeOn
<1>9. Agree(x.ports, y.ports, r)
  BY <1>1, <1>2, <1>3, <1>5 DEF IsBody, AgreeOn
<1>10. Agree(x.src, y.src, r)
  BY <1>1, <1>2, <1>3, <1>6 DEF IsBody, AgreeOn
<1> QED
  BY <1>4, <1>8, <1>9, <1>10 DEF AgreeOn

\* What a request makes of another rule: nothing.
LEMMA OtherRule ==
    ASSUME NEW a, a # Absent, Sound(a), NEW q \in Requests, NEW r, r # q.rule
    PROVE  AgreeOn(Body(a, q), a, r)
<1>1. PartOf(Body(a, q), r) = PartOf(a, r)
  BY OtherRules DEF Body
<1> QED
  BY <1>1, PartAgrees

\* Two declarations of a tenant that agree on every rule differ in the order of
\* the policies at most.
LEMMA AgreeEverywhere ==
    ASSUME NEW x, NEW y, NEW a, NEW b, NEW d, NEW e, NEW c, NEW g,
           NEW del1 \in BOOLEAN, NEW del2 \in BOOLEAN,
           IsBody(x, a, d, del1, c), IsBody(y, b, e, del2, g),
           \A r : AgreeOn(x, y, r), NEW t, Listing(x, t), Listing(y, t),
           x.conf = y.conf, x.log = y.log
    PROVE  SameUpToOrder(x, y)
<1>1. ASSUME NEW f, NEW h, \A r : Agree(f, h, r), f = [k \in DOMAIN f |-> f[k]],
             h = [k \in DOMAIN h |-> h[k]]
      PROVE  f = h
  <2>1. \A k : k \in DOMAIN f <=> k \in DOMAIN h
    BY <1>1 DEF Agree
  <2>2. \A k \in DOMAIN f : f[k] = h[k]
    BY <1>1 DEF Agree
  <2> QED
    BY <1>1, <2>1, <2>2
<1>2. ASSUME NEW z, NEW a1, NEW d1, NEW c1, NEW del \in BOOLEAN, IsBody(z, a1, d1, del, c1)
      PROVE  /\ z.rules = [k \in DOMAIN z.rules |-> z.rules[k]]
             /\ z.dst = [k \in DOMAIN z.dst |-> z.dst[k]]
             /\ z.ports = [k \in DOMAIN z.ports |-> z.ports[k]]
             /\ z.src = [k \in DOMAIN z.src |-> z.src[k]]
  <2>1. ASSUME NEW f, NEW X PROVE Used(f, X) = [k \in DOMAIN Used(f, X) |-> Used(f, X)[k]]
    BY DEF Used, Restrict
  <2>2. ASSUME NEW f, NEW h
        PROVE  MergeAttrs(f, h, del) = [k \in DOMAIN MergeAttrs(f, h, del) |-> MergeAttrs(f, h, del)[k]]
    BY DEF MergeAttrs, Restrict, Override
  <2> QED
    BY <1>2, <2>1, <2>2 DEF IsBody
<1> DEFINE Plain(f) == f = [k \in DOMAIN f |-> f[k]]
<1>3. /\ Plain(x.rules) /\ Plain(x.dst) /\ Plain(x.ports) /\ Plain(x.src)
      /\ Plain(y.rules) /\ Plain(y.dst) /\ Plain(y.ports) /\ Plain(y.src)
  BY <1>2
<1>4. /\ \A r : Agree(x.rules, y.rules, r)
      /\ \A r : Agree(x.dst, y.dst, r)
      /\ \A r : Agree(x.ports, y.ports, r)
      /\ \A r : Agree(x.src, y.src, r)
  BY DEF AgreeOn
<1>5. \A f, h : Plain(f) /\ Plain(h) /\ (\A r : Agree(f, h, r)) => f = h
  BY <1>1
<1> HIDE DEF Plain
<1>6. x.rules = y.rules
  BY <1>3, <1>4, <1>5
<1>7. x.dst = y.dst
  BY <1>3, <1>4, <1>5
<1>8. x.ports = y.ports
  BY <1>3, <1>4, <1>5
<1>9. x.src = y.src
  BY <1>3, <1>4, <1>5
<1>10. ASSUME NEW p \in DOMAIN x.policy PROVE Range(x.policy[p]) = Range(y.policy[p])
  <2>1. /\ PolicyShape(x.policy[p], p) /\ PolicyShape(y.policy[p], p)
        /\ NonDeny(x.policy[p]) = NonDeny(y.policy[p])
    BY <1>6 DEF Listing
  <2>2. ASSUME NEW s, PolicyShape(s, p) PROVE Deny \in Range(s) <=> p = "svc"
    <3>1. p = "svc" => Len(s) \in DOMAIN s
      BY <2>2, EmptySeq DEF PolicyShape
    <3> QED
      BY <2>2, <3>1 DEF PolicyShape, Range
  <2> QED
    BY <2>1, <2>2 DEF NonDeny
<1> QED
  BY <1>6, <1>7, <1>8, <1>9, <1>10 DEF SameUpToOrder, Listing

\* Two requests of one version of the configuration leave the pool, the virtual server
\* and the log profile the same in either order.
LEMMA LogEitherWay ==
    ASSUME NEW app, app # Absent, NEW q1 \in Requests, NEW q2 \in Requests,
           q1.conf = q2.conf, q1.conf \notin Profile \ KeptProfile
    PROVE  /\ Body(Body(app, q1), q2).conf = Body(Body(app, q2), q1).conf
           /\ Body(Body(app, q1), q2).log = Body(Body(app, q2), q1).log
<1> PICK d1 : d1 = Delta(q1)
  OBVIOUS
<1> PICK d2 : d2 = Delta(q2)
  OBVIOUS
<1> PICK a1 : a1 = Body(app, q1)
  OBVIOUS
<1> PICK a2 : a2 = Body(app, q2)
  OBVIOUS
<1> PICK a12 : a12 = Body(a1, q2)
  OBVIOUS
<1> PICK a21 : a21 = Body(a2, q1)
  OBVIOUS
<1> PICK c : c = q1.conf
  OBVIOUS
<1>1. a1 # Absent /\ a2 # Absent
  BY BodyThere
<1>2. /\ IsBody(a1, app, d1, q1.isDelete, c) /\ IsBody(a12, a1, d2, q2.isDelete, c)
      /\ IsBody(a2, app, d2, q2.isDelete, c) /\ IsBody(a21, a2, d1, q1.isDelete, c)
  BY <1>1, BodyIs
<1>3. /\ d1.conf = Version[c] /\ d2.conf = Version[c]
      /\ d1.log = (c \in Profile /\ (q1.isDelete => c \notin KeptProfile))
      /\ d2.log = (c \in Profile /\ (q2.isDelete => c \notin KeptProfile))
  BY DEF Delta, ServiceDeclared, LogDeclared
<1>4. a12.conf = a21.conf
  BY <1>2, <1>3 DEF IsBody
<1>5. (q1.isDelete => ~d1.log) /\ (q2.isDelete => ~d2.log)
  BY <1>3, Zenon
<1>6. /\ a1.log = (LogAfter(app.log, d1.log, q1.isDelete) /\ Logging[Version[c]])
      /\ a12.log = (LogAfter(a1.log, d2.log, q2.isDelete) /\ Logging[Version[c]])
      /\ a2.log = (LogAfter(app.log, d2.log, q2.isDelete) /\ Logging[Version[c]])
      /\ a21.log = (LogAfter(a2.log, d1.log, q1.isDelete) /\ Logging[Version[c]])
  BY <1>2, Zenon DEF IsBody
<1>7. a12.log = a21.log
  BY <1>5, <1>6, Zenon DEF LogAfter
<1> QED
  BY <1>4, <1>7

\* Whichever worker is faster, the requests of two rules of a tenant, made with the same
\* configuration and a template that is read the same way twice, leave the same
\* declaration, but for the order of the policies (fullResource).
THEOREM Commute == StoreSpec => []RequestsCommute
<1>1. ASSUME StoreInv, ListingInv, NEW q1 \in Requests, NEW q2 \in Requests,
             store[TenantOf[q1.rule]] # Absent, q1.rule # q2.rule,
             TenantOf[q1.rule] = TenantOf[q2.rule], q1.conf = q2.conf,
             q1.conf \notin Profile \ KeptProfile
      PROVE  LET app == store[TenantOf[q1.rule]]
             IN  SameUpToOrder(Body(Body(app, q1), q2), Body(Body(app, q2), q1))
  <2> PICK t : t = TenantOf[q1.rule]
    OBVIOUS
  <2> PICK app : app = store[t]
    OBVIOUS
  <2>1. app # Absent /\ Sound(app) /\ Listing(app, t) /\ t = TenantOf[q2.rule]
    BY <1>1, RequestsAssumption, DeclarationAssumption
    DEF StoreInv, ListingInv, Declared, WellFormed, IsRequest
  <2>2. \A a, q : a # Absent => Body(a, q) # Absent
    BY BodyThere
  <2> PICK a1 : a1 = Body(app, q1)
    OBVIOUS
  <2> PICK a2 : a2 = Body(app, q2)
    OBVIOUS
  <2>3. a1 # Absent /\ a2 # Absent /\ Sound(a1) /\ Sound(a2) /\ Listing(a1, t) /\ Listing(a2, t)
    BY <2>1, <2>2, BodySound, BodyListing
  <2> PICK a12 : a12 = Body(a1, q2)
    OBVIOUS
  <2> PICK a21 : a21 = Body(a2, q1)
    OBVIOUS
  <2>4. a12 # Absent /\ a21 # Absent /\ Listing(a12, t) /\ Listing(a21, t)
    BY <2>1, <2>2, <2>3, BodyListing
  <2>5. AgreeOn(a12, a21, q1.rule)
    <3>1. AgreeOn(a12, a1, q1.rule)
      BY <1>1, <2>3, OtherRule
    <3>2. AgreeOn(a2, app, q1.rule)
      BY <1>1, <2>1, OtherRule
    <3>3. AgreeOn(a21, a1, q1.rule)
      BY <2>1, <2>3, <3>2, OwnRule
    <3> QED
      BY <3>1, <3>3, AgreeChain
  <2>6. AgreeOn(a12, a21, q2.rule)
    <3>1. AgreeOn(a21, a2, q2.rule)
      BY <1>1, <2>3, OtherRule
    <3>2. AgreeOn(a1, app, q2.rule)
      BY <1>1, <2>1, OtherRule
    <3>3. AgreeOn(a12, a2, q2.rule)
      BY <2>1, <2>3, <3>2, OwnRule
    <3> QED
      BY <3>1, <3>3, AgreeChain
  <2>7. ASSUME NEW r, r # q1.rule, r # q2.rule PROVE AgreeOn(a12, a21, r)
    <3>1. AgreeOn(a12, a1, r) /\ AgreeOn(a1, app, r)
      BY <2>1, <2>3, <2>7, OtherRule
    <3>2. AgreeOn(a21, a2, r) /\ AgreeOn(a2, app, r)
      BY <2>1, <2>3, <2>7, OtherRule
    <3> QED
      BY <3>1, <3>2, AgreeChain
  <2>8. \A r : AgreeOn(a12, a21, r)
    BY <2>5, <2>6, <2>7
  <2>9. /\ IsBody(a12, a1, Delta(q2), q2.isDelete, q2.conf)
        /\ IsBody(a21, a2, Delta(q1), q1.isDelete, q1.conf)
        /\ q1.isDelete \in BOOLEAN /\ q2.isDelete \in BOOLEAN
    BY <2>3, BodyIs, RequestsAssumption DEF WellFormed, IsRequest
  <2>10. a12.conf = a21.conf /\ a12.log = a21.log
    BY <1>1, <2>1, LogEitherWay
  <2>11. SameUpToOrder(a12, a21)
    BY <2>4, <2>8, <2>9, <2>10, AgreeEverywhere
  <2> QED
    BY <2>11
<1>2. StoreInv /\ ListingInv => RequestsCommute
  BY <1>1 DEF RequestsCommute
<1> QED
  BY <1>2, StoreInvInit, StoreInvStep, ListingInvInit, ListingInvStep, PTL DEF StoreSpec
=============================================================================
