----------------------------- MODULE ListProofs -----------------------------
(***************************************************************************)
(* Facts about sequences without repetitions, which are what the lists of  *)
(* the program amount to, and about doubly linked lists: what a walk over  *)
(* the next fields finds, and what linking and unlinking do to a list.     *)
(***************************************************************************)
EXTENDS LinkedList, SequencesExt, SequenceTheorems, FiniteSetTheorems,
        WellFoundedInduction, TLAPS

Distinct(s) == \A i, j \in DOMAIN s : s[i] = s[j] => i = j
-----------------------------------------------------------------------------

LEMMA ToSetFacts ==
  ASSUME NEW S, NEW s \in Seq(S)
  PROVE  /\ ToSet(s) \subseteq S
         /\ ToSet(s) = {} <=> s = <<>>
         /\ s # <<>> => Head(s) = s[1] /\ Head(s) \in ToSet(s)
         /\ \A t : t \in ToSet(s) <=> \E i \in 1 .. Len(s) : s[i] = t
  BY DEF ToSet

(* Appending a thread that is not in the list *)
LEMMA AppendFacts ==
  ASSUME NEW S, NEW s \in Seq(S), NEW e \in S, Distinct(s), e \notin ToSet(s)
  PROVE  /\ Append(s, e) \in Seq(S)
         /\ Append(s, e) # <<>>
         /\ Distinct(Append(s, e))
         /\ ToSet(Append(s, e)) = ToSet(s) \cup {e}
<1> DEFINE r == Append(s, e)
<1>1. /\ r \in Seq(S) /\ DOMAIN r = 1 .. Len(s) + 1 /\ Len(s) \in Nat
      /\ DOMAIN s = 1 .. Len(s)
      /\ \A i \in 1 .. Len(s) : r[i] = s[i]
      /\ r[Len(s) + 1] = e
  OBVIOUS
<1>2. \A i \in 1 .. Len(s) : s[i] # e
  BY DEF ToSet
<1>3. Distinct(r)
  BY <1>1, <1>2 DEF Distinct
<1>4. ToSet(r) = ToSet(s) \cup {e}
  BY <1>1 DEF ToSet
<1>5. r # <<>>
  BY <1>1
<1> HIDE DEF r
<1> QED
  BY <1>1, <1>3, <1>4, <1>5 DEF r

(* Dropping the first thread of a list *)
LEMMA TailFacts ==
  ASSUME NEW S, NEW s \in Seq(S), Distinct(s), s # <<>>
  PROVE  /\ Tail(s) \in Seq(S)
         /\ Distinct(Tail(s))
         /\ ToSet(Tail(s)) = ToSet(s) \ {Head(s)}
<1> DEFINE r == Tail(s)
<1>1. /\ r \in Seq(S) /\ Len(s) \in Nat /\ DOMAIN s = 1 .. Len(s)
      /\ Len(s) >= 1 /\ DOMAIN r = 1 .. Len(s) - 1
      /\ \A i \in 1 .. Len(s) - 1 : r[i] = s[i + 1]
      /\ Head(s) = s[1]
  OBVIOUS
<1> HIDE DEF r
<1>2. Distinct(r)
  <2> SUFFICES ASSUME NEW a \in 1 .. Len(s) - 1, NEW b \in 1 .. Len(s) - 1,
                      r[a] = r[b]
               PROVE  a = b
    BY <1>1 DEF Distinct
  <2>1. /\ a + 1 \in DOMAIN s /\ b + 1 \in DOMAIN s
        /\ s[a + 1] = s[b + 1]
    BY <1>1
  <2> QED
    BY <2>1 DEF Distinct
<1>3. ToSet(r) \subseteq ToSet(s) \ {Head(s)}
  BY <1>1 DEF Distinct, ToSet
<1>4. ASSUME NEW x \in ToSet(s), x # Head(s)
      PROVE  x \in ToSet(r)
  <2>1. PICK i \in 1 .. Len(s) : s[i] = x
    BY <1>1 DEF ToSet
  <2>2. i - 1 \in 1 .. Len(s) - 1 /\ r[i - 1] = x
    BY <1>1, <1>4, <2>1
  <2> QED
    BY <1>1, <2>2 DEF ToSet
<1> QED
  BY <1>1, <1>2, <1>3, <1>4 DEF r

LEMMA RemoveAtFacts ==
  ASSUME NEW S, NEW s \in Seq(S), NEW i \in 1 .. Len(s)
  PROVE  /\ RemoveAt(s, i) \in Seq(S)
         /\ Len(RemoveAt(s, i)) = Len(s) - 1
         /\ \A j \in 1 .. Len(s) - 1 :
              RemoveAt(s, i)[j] = IF j < i THEN s[j] ELSE s[j + 1]
<1>0. Len(s) \in Nat /\ i \in Nat
  OBVIOUS
<1>1. PICK left : left = SubSeq(s, 1, i - 1)
  OBVIOUS
<1>2. PICK right : right = SubSeq(s, i + 1, Len(s))
  OBVIOUS
<1>3. left \in Seq(S) /\ right \in Seq(S)
  BY <1>0, <1>1, <1>2, SubSeqProperties
<1>4. Len(left) = i - 1 /\ Len(right) = Len(s) - i
  BY <1>0, <1>1, <1>2, SubSeqProperties
<1>5. \A j \in 1 .. i - 1 : left[j] = s[j]
  BY <1>0, <1>1, SubSeqProperties
<1>6. \A j \in 1 .. Len(s) - i : right[j] = s[j + i]
  BY <1>0, <1>2, SubSeqProperties
<1>7. RemoveAt(s, i) = left \o right
  BY <1>1, <1>2 DEF RemoveAt
<1>8. left \o right \in Seq(S) /\ Len(left \o right) = Len(left) + Len(right)
  BY <1>3, ConcatProperties
<1>9. Len(left \o right) = Len(s) - 1
  BY <1>0, <1>4, <1>8
<1>10. ASSUME NEW j \in 1 .. Len(s) - 1, j < i
       PROVE  (left \o right)[j] = s[j]
  BY <1>0, <1>3, <1>4, <1>5, <1>10
<1>11. ASSUME NEW j \in 1 .. Len(s) - 1, ~(j < i)
       PROVE  (left \o right)[j] = s[j + 1]
  <2>1. (left \o right)[j] = right[j - (i - 1)]
    BY <1>0, <1>3, <1>4, <1>11
  <2>2. j - (i - 1) \in 1 .. Len(s) - i /\ (j - (i - 1)) + i = j + 1
    BY <1>0, <1>11
  <2> QED
    BY <1>6, <2>1, <2>2
<1> QED
  BY <1>7, <1>8, <1>9, <1>10, <1>11

LEMMA RemoveFirstAt ==
  ASSUME NEW S, NEW s \in Seq(S), Distinct(s), NEW i \in 1 .. Len(s)
  PROVE  RemoveFirst(s, s[i]) = RemoveAt(s, i)
<1>0. Len(s) \in Nat /\ DOMAIN s = 1 .. Len(s)
  OBVIOUS
<1>1. PICK e : e = s[i]
  OBVIOUS
<1> DEFINE I == {j \in 1 .. Len(s) : s[j] = e}
<1>2. I = {i}
  BY <1>0, <1>1 DEF Distinct
<1>3. SelectInSeq(s, LAMBDA v : v = e) = Min(I)
  BY <1>2 DEF SelectInSeq
<1>4. Min(I) = i
  BY <1>2 DEF Min
<1>5. RemoveFirst(s, e) = RemoveAt(s, i)
  BY <1>1, <1>3, <1>4 DEF RemoveFirst
<1> QED
  BY <1>1, <1>5

(* Unlinking a thread, wherever in the list it is *)
LEMMA RemoveFacts ==
  ASSUME NEW S, NEW s \in Seq(S), NEW e, Distinct(s)
  PROVE  /\ RemoveFirst(s, e) \in Seq(S)
         /\ Distinct(RemoveFirst(s, e))
         /\ ToSet(RemoveFirst(s, e)) = ToSet(s) \ {e}
         /\ e \notin ToSet(s) => RemoveFirst(s, e) = s
         /\ s # <<>> /\ Head(s) # e =>
              RemoveFirst(s, e) # <<>> /\ Head(RemoveFirst(s, e)) = Head(s)
<1>0. Len(s) \in Nat /\ DOMAIN s = 1 .. Len(s)
  OBVIOUS
<1>1. CASE \A i \in 1 .. Len(s) : s[i] # e
  <2>1. RemoveFirst(s, e) = s
    BY <1>1 DEF RemoveFirst
  <2>2. e \notin ToSet(s)
    BY <1>0, <1>1 DEF ToSet
  <2> QED
    BY <2>1, <2>2
<1>2. ASSUME NEW i \in 1 .. Len(s), s[i] = e
      PROVE  /\ RemoveFirst(s, e) \in Seq(S)
             /\ Distinct(RemoveFirst(s, e))
             /\ ToSet(RemoveFirst(s, e)) = ToSet(s) \ {e}
             /\ e \notin ToSet(s) => RemoveFirst(s, e) = s
             /\ s # <<>> /\ Head(s) # e =>
                  RemoveFirst(s, e) # <<>> /\ Head(RemoveFirst(s, e)) = Head(s)
  <2> DEFINE r == RemoveFirst(s, e)
  <2>4. r = RemoveAt(s, i)
    BY <1>2, RemoveFirstAt
  <2>5. /\ r \in Seq(S) /\ Len(r) = Len(s) - 1 /\ DOMAIN r = 1 .. Len(s) - 1
        /\ \A j \in 1 .. Len(s) - 1 : r[j] = IF j < i THEN s[j] ELSE s[j + 1]
    BY <2>4, RemoveAtFacts
  <2> HIDE DEF r
  <2> DEFINE Old(j) == IF j < i THEN j ELSE j + 1
  <2>0. \A j \in 1 .. Len(s) - 1 : Old(j) \in DOMAIN s /\ Old(j) # i
    BY <1>0
  <2>a. \A j \in 1 .. Len(s) - 1 : r[j] = s[Old(j)]
    BY <2>5
  <2>b. \A a, b \in 1 .. Len(s) - 1 : Old(a) = Old(b) => a = b
    BY <1>0
  <2> HIDE DEF Old
  <2>6. Distinct(r)
    <3> SUFFICES ASSUME NEW a \in 1 .. Len(s) - 1, NEW b \in 1 .. Len(s) - 1,
                        r[a] = r[b]
                 PROVE  a = b
      BY <2>5 DEF Distinct
    <3>1. s[Old(a)] = s[Old(b)]
      BY <2>a
    <3> QED
      BY <2>0, <2>b, <3>1 DEF Distinct
  <2>7. ToSet(r) \subseteq ToSet(s) \ {e}
    BY <1>0, <1>2, <2>0, <2>5, <2>a DEF Distinct, ToSet
  <2>8. ASSUME NEW x \in ToSet(s), x # e
        PROVE  x \in ToSet(r)
    <3>1. PICK j \in 1 .. Len(s) : s[j] = x
      BY <1>0 DEF ToSet
    <3>2. CASE j < i
      <4>1. j \in 1 .. Len(s) - 1 /\ r[j] = x
        BY <1>0, <2>5, <3>1, <3>2
      <4> QED
        BY <2>5, <4>1 DEF ToSet
    <3>3. CASE j > i
      <4>1. j - 1 \in 1 .. Len(s) - 1 /\ r[j - 1] = x
        BY <1>0, <2>5, <3>1, <3>3
      <4> QED
        BY <2>5, <4>1 DEF ToSet
    <3> QED
      BY <1>2, <2>8, <3>1, <3>2, <3>3
  <2>9. e \in ToSet(s)
    BY <1>0, <1>2 DEF ToSet
  <2>10. ASSUME s # <<>>, Head(s) # e
         PROVE  r # <<>> /\ Head(r) = Head(s)
    <3>1. Head(s) = s[1] /\ i > 1
      BY <1>0, <1>2, <2>10
    <3>2. Len(r) >= 1 /\ r[1] = s[1]
      BY <1>0, <2>5, <3>1
    <3> QED
      BY <2>5, <3>1, <3>2
  <2> QED
    BY <2>5, <2>6, <2>7, <2>8, <2>9, <2>10 DEF r
<1> QED
  BY <1>1, <1>2
-----------------------------------------------------------------------------
(* Induction over the natural numbers, as the existence of a least one *)
LEMMA LeastExists ==
  ASSUME NEW T \in SUBSET Nat, T # {}
  PROVE  \E m \in T : \A k \in T : m <= k
<1>1. PICK x \in T : \A y \in T : ~(<<y, x>> \in OpToRel(<, Nat))
  BY WFMin, NatLessThanWellFounded
<1>2. \A y \in T : ~(y < x)
  BY <1>1 DEF OpToRel
<1> QED
  BY <1>2

(* One value of the function that Walk defines, in terms of the one before *)
WalkStep(N, null, next, n, f) ==
  [t \in N \cup {null} |->
     IF t = null \/ n = 0 THEN <<>> ELSE <<t>> \o f[n - 1][next[t]]]

LEMMA WalkExists ==
  ASSUME NEW N, NEW null, NEW next, NEW K \in Nat
  PROVE  \E f : f = [n \in 0 .. K |-> WalkStep(N, null, next, n, f)]
<1> DEFINE Defines(g, m) == g = [n \in 0 .. m |-> WalkStep(N, null, next, n, g)]
           T == {m \in Nat : ~ \E g : Defines(g, m)}
<1> SUFFICES ASSUME T # {} PROVE FALSE
  OBVIOUS
<1>1. PICK m \in T : \A k \in T : m <= k
  BY LeastExists
<1>2. PICK g : m = 0 \/ Defines(g, m - 1)
  <2>1. CASE m = 0
    BY <2>1
  <2>2. CASE m # 0
    <3>1. m - 1 \in Nat /\ m - 1 \notin T
      BY <1>1, <2>2
    <3> QED
      BY <3>1
  <2> QED
    BY <2>1, <2>2
<1>3. PICK f : f = [n \in 0 .. m |-> IF n = m THEN WalkStep(N, null, next, m, g)
                                              ELSE g[n]]
  OBVIOUS
<1>4. ASSUME NEW n \in 0 .. m PROVE f[n] = WalkStep(N, null, next, n, f)
  <2>1. f[n] = WalkStep(N, null, next, n, g)
    BY <1>1, <1>2, <1>3
  <2>2. CASE n = 0
    BY <2>1, <2>2 DEF WalkStep
  <2>3. CASE n # 0
    <3>1. n - 1 \in 0 .. m /\ n - 1 # m
      BY <1>1, <2>3
    <3>2. f[n - 1] = g[n - 1]
      BY <1>3, <3>1
    <3> QED
      BY <2>1, <3>2 DEF WalkStep
  <2> QED
    BY <2>2, <2>3
<1> QED
  BY <1>1, <1>3, <1>4

LEMMA WalkUnfolds ==
  ASSUME NEW N, NEW null, NEW next, NEW h, NEW K \in Nat, K = Cardinality(N) + 1
  PROVE  \E f : /\ \A n \in 0 .. K : f[n] = WalkStep(N, null, next, n, f)
                /\ Walk(N, null, next, h) = f[K][h]
<1> DEFINE f == CHOOSE g : g = [n \in 0 .. K |-> WalkStep(N, null, next, n, g)]
<1>1. f = [n \in 0 .. K |-> WalkStep(N, null, next, n, f)]
  BY WalkExists
<1>2. Walk(N, null, next, h) = f[K][h]
  BY DEF Walk, WalkStep
<1> HIDE DEF f
<1>3. \A n \in 0 .. K : f[n] = WalkStep(N, null, next, n, f)
  BY <1>1
<1> QED
  BY <1>2, <1>3
-----------------------------------------------------------------------------
(* The i-th node of a list, null before its first and after its last one *)
NodeAt(s, null, i) == IF i \in 1 .. Len(s) THEN s[i] ELSE null

(* The nodes of s, each once, are linked to a list that begins at h. *)
Linked(N, null, next, prev, s, h) ==
  /\ s \in Seq(N) /\ Distinct(s)
  /\ h = NodeAt(s, null, 1)
  /\ \A i \in 1 .. Len(s) : /\ next[s[i]] = NodeAt(s, null, i + 1)
                            /\ prev[s[i]] = NodeAt(s, null, i - 1)

LEMMA DistinctIsShort ==
  ASSUME NEW N, IsFiniteSet(N), NEW s \in Seq(N), Distinct(s)
  PROVE  Len(s) \in Nat /\ Len(s) = Cardinality(ToSet(s))
         /\ Len(s) <= Cardinality(N) /\ IsFiniteSet(ToSet(s))
<1>0. Len(s) \in Nat /\ DOMAIN s = 1 .. Len(s) /\ s \in [1 .. Len(s) -> N]
  OBVIOUS
<1>1. IsFiniteSet(1 .. Len(s)) /\ Cardinality(1 .. Len(s)) = Len(s)
  BY <1>0, FS_Interval
<1>2. ToSet(s) \subseteq N /\ IsFiniteSet(ToSet(s))
      /\ Cardinality(ToSet(s)) <= Cardinality(N)
  BY <1>0, FS_Subset DEF ToSet
<1>3. s \in Injection(1 .. Len(s), ToSet(s)) /\ s \in Surjection(1 .. Len(s), ToSet(s))
  <2>1. s \in [1 .. Len(s) -> ToSet(s)]
    BY <1>0 DEF ToSet
  <2>2. \A x \in ToSet(s) : \E i \in 1 .. Len(s) : s[i] = x
    BY <1>0 DEF ToSet
  <2>3. \A i, j \in 1 .. Len(s) : s[i] = s[j] => i = j
    BY <1>0 DEF Distinct
  <2> QED
    BY <1>0, <2>1, <2>2, <2>3 DEF Injection, Surjection, IsInjective
<1>4. Cardinality(1 .. Len(s)) = Cardinality(ToSet(s))
  BY <1>2, <1>3, FS_Injection
<1> QED
  BY <1>0, <1>1, <1>2, <1>4

(* A walk over the next fields finds the nodes of a list, in order. *)
LEMMA WalkFollowsNext ==
  ASSUME NEW N, IsFiniteSet(N), NEW null, null \notin N, NEW next,
         NEW s \in Seq(N), Distinct(s), NEW h, h = NodeAt(s, null, 1),
         \A i \in 1 .. Len(s) : next[s[i]] = NodeAt(s, null, i + 1)
  PROVE  Walk(N, null, next, h) = s
<1>0. /\ s \in Seq(N) /\ Len(s) \in Nat /\ Cardinality(N) \in Nat
      /\ Len(s) <= Cardinality(N)
  BY DistinctIsShort, FS_CardinalityType
<1>1. PICK K \in Nat : K = Cardinality(N) + 1
  BY <1>0
<1>2. PICK f : /\ \A n \in 0 .. K : f[n] = WalkStep(N, null, next, n, f)
               /\ Walk(N, null, next, h) = f[K][h]
  BY <1>1, WalkUnfolds
<1> DEFINE Right(n) == \A i \in 1 .. Len(s) + 1 : Len(s) + 1 - i <= n =>
                          f[n][NodeAt(s, null, i)] = SubSeq(s, i, Len(s))
           T == {n \in 0 .. K : ~Right(n)}
<1>3. ASSUME NEW n \in 0 .. K, n = 0 \/ Right(n - 1) PROVE Right(n)
  <2> SUFFICES ASSUME NEW i \in 1 .. Len(s) + 1, Len(s) + 1 - i <= n
               PROVE  f[n][NodeAt(s, null, i)] = SubSeq(s, i, Len(s))
    OBVIOUS
  <2>1. f[n] = WalkStep(N, null, next, n, f)
    BY <1>2
  <2>2. CASE i = Len(s) + 1
    <3>1. NodeAt(s, null, i) = null
      BY <1>0, <2>2 DEF NodeAt
    <3>2. f[n][null] = <<>>
      BY <2>1 DEF WalkStep
    <3>3. SubSeq(s, i, Len(s)) = <<>>
      BY <1>0, <2>2
    <3> QED
      BY <3>1, <3>2, <3>3
  <2>3. CASE i # Len(s) + 1
    <3>1. i \in 1 .. Len(s) /\ n # 0 /\ i + 1 \in 1 .. Len(s) + 1
      BY <1>0, <2>3
    <3>2. NodeAt(s, null, i) = s[i] /\ s[i] \in N /\ s[i] # null
      BY <1>0, <3>1 DEF NodeAt
    <3>3. f[n][s[i]] = <<s[i]>> \o f[n - 1][next[s[i]]]
      BY <2>1, <3>1, <3>2 DEF WalkStep
    <3>4. next[s[i]] = NodeAt(s, null, i + 1)
      BY <3>1
    <3>5. f[n - 1][NodeAt(s, null, i + 1)] = SubSeq(s, i + 1, Len(s))
      <4>1. Right(n - 1)
        BY <1>3, <3>1
      <4>2. Len(s) + 1 - (i + 1) <= n - 1
        BY <1>0
      <4> QED
        BY <3>1, <4>1, <4>2
    <3>6. SubSeq(s, i, Len(s)) = <<s[i]>> \o SubSeq(s, i + 1, Len(s))
      BY <1>0, <3>1, SubSeqRecursiveFirst
    <3> QED
      BY <3>2, <3>3, <3>4, <3>5, <3>6
  <2> QED
    BY <2>2, <2>3
<1>4. T = {}
  <2> SUFFICES ASSUME T # {} PROVE FALSE
    OBVIOUS
  <2> HIDE DEF Right
  <2>0. T \in SUBSET Nat
    OBVIOUS
  <2>1. PICK n \in T : \A k \in T : n <= k
    BY <2>0, LeastExists
  <2>2. n = 0 \/ (n - 1 \in 0 .. K /\ n - 1 \notin T)
    BY <2>1
  <2> QED
    BY <1>3, <2>1, <2>2
<1>5. f[K][NodeAt(s, null, 1)] = SubSeq(s, 1, Len(s))
  <2>1. Right(K)
    BY <1>4
  <2> QED
    BY <1>0, <1>1, <2>1
<1>6. SubSeq(s, 1, Len(s)) = s
  BY <1>0
<1> QED
  BY <1>2, <1>5, <1>6

LEMMA WalkOfLinked ==
  ASSUME NEW N, IsFiniteSet(N), NEW null, null \notin N, NEW next, NEW prev,
         NEW s, NEW h, Linked(N, null, next, prev, s, h)
  PROVE  Walk(N, null, next, h) = s
  BY WalkFollowsNext DEF Linked

LEMMA SuffixFacts ==
  ASSUME NEW S, NEW s \in Seq(S), NEW k \in 1 .. Len(s),
         NEW r, r = SubSeq(s, k + 1, Len(s))
  PROVE  /\ r \in Seq(S) /\ Len(r) = Len(s) - k
         /\ \A i \in 1 .. Len(s) - k : r[i] = s[i + k]
<1>0. Len(s) \in Nat /\ k \in Nat
  OBVIOUS
<1>1. r \in Seq(S)
  BY <1>0, SubSeqProperties
<1>2. Len(r) = Len(s) - k
  BY <1>0, SubSeqProperties
<1>3. \A i \in 1 .. Len(s) - k : r[i] = s[i + k]
  BY <1>0, SubSeqProperties
<1> QED
  BY <1>1, <1>2, <1>3

(* The same from the middle of a list *)
LEMMA WalkFromMiddle ==
  ASSUME NEW N, IsFiniteSet(N), NEW null, null \notin N, NEW next, NEW prev,
         NEW s, NEW h, Linked(N, null, next, prev, s, h), NEW k \in 1 .. Len(s)
  PROVE  Walk(N, null, next, next[s[k]]) = SubSeq(s, k + 1, Len(s))
<1>0. s \in Seq(N) /\ Distinct(s)
  BY DEF Linked
<1>1. PICK r : r = SubSeq(s, k + 1, Len(s))
  OBVIOUS
<1>2. /\ r \in Seq(N) /\ Len(r) = Len(s) - k
      /\ \A i \in 1 .. Len(s) - k : r[i] = s[i + k]
  BY <1>0, <1>1, SuffixFacts
<1>3. Distinct(r)
  <2> SUFFICES ASSUME NEW a \in 1 .. Len(s) - k, NEW b \in 1 .. Len(s) - k,
                      r[a] = r[b]
               PROVE  a = b
    BY <1>2 DEF Distinct
  <2>1. a + k \in DOMAIN s /\ b + k \in DOMAIN s /\ s[a + k] = s[b + k]
    BY <1>0, <1>2
  <2> QED
    BY <1>0, <2>1 DEF Distinct
<1>4. \A i \in 0 .. Len(s) - k + 1 : i >= 1 => NodeAt(r, null, i) = NodeAt(s, null, i + k)
  BY <1>0, <1>2 DEF NodeAt
<1>5. next[s[k]] = NodeAt(r, null, 1)
  <2>1. next[s[k]] = NodeAt(s, null, k + 1)
    BY DEF Linked
  <2> QED
    BY <1>0, <1>4, <2>1
<1>6. \A i \in 1 .. Len(r) : next[r[i]] = NodeAt(r, null, i + 1)
  <2> SUFFICES ASSUME NEW i \in 1 .. Len(r)
               PROVE  next[r[i]] = NodeAt(r, null, i + 1)
    OBVIOUS
  <2>1. i + k \in 1 .. Len(s) /\ r[i] = s[i + k]
    BY <1>0, <1>2
  <2>2. next[s[i + k]] = NodeAt(s, null, (i + k) + 1)
    BY <2>1 DEF Linked
  <2>3. /\ (i + k) + 1 = (i + 1) + k /\ i + 1 \in 0 .. Len(s) - k + 1
        /\ i + 1 >= 1
    BY <1>0, <1>2
  <2>4. NodeAt(r, null, i + 1) = NodeAt(s, null, (i + 1) + k)
    BY <1>4, <2>3
  <2> QED
    BY <2>1, <2>2, <2>3, <2>4
<1>7. Walk(N, null, next, next[s[k]]) = r
  BY <1>2, <1>3, <1>5, <1>6, WalkFollowsNext
<1> QED
  BY <1>1, <1>7

(* What is written elsewhere does not disturb a list. *)
LEMMA LinkedElsewhere ==
  ASSUME NEW N, NEW null, NEW next, NEW prev, NEW s, NEW h,
         Linked(N, null, next, prev, s, h), NEW n2, NEW p2,
         \A u \in ToSet(s) : n2[u] = next[u] /\ p2[u] = prev[u]
  PROVE  Linked(N, null, n2, p2, s, h)
<1>1. \A i \in 1 .. Len(s) : s[i] \in ToSet(s)
  BY DEF Linked, ToSet
<1> QED
  BY <1>1 DEF Linked

(* A node is put in front of a list. *)
LEMMA LinkedPush ==
  ASSUME NEW N, NEW null, null \notin N, NEW next, NEW prev, NEW s, NEW h,
         Linked(N, null, next, prev, s, h),
         NEW t \in N, t \notin ToSet(s), NEW n2, NEW p2,
         n2[t] = h, p2[t] = null, h # null => p2[h] = t,
         \A u \in ToSet(s) : n2[u] = next[u],
         \A u \in ToSet(s) \ {h} : p2[u] = prev[u]
  PROVE  /\ Linked(N, null, n2, p2, <<t>> \o s, t)
         /\ ToSet(<<t>> \o s) = ToSet(s) \cup {t}
         /\ Len(<<t>> \o s) = Len(s) + 1
<1>0. /\ s \in Seq(N) /\ Len(s) \in Nat /\ DOMAIN s = 1 .. Len(s) /\ Distinct(s)
      /\ \A i \in 1 .. Len(s) : s[i] \in N /\ s[i] # null
  BY DEF Linked
<1>1. PICK r : r = <<t>> \o s
  OBVIOUS
<1>2. /\ r \in Seq(N) /\ Len(r) = Len(s) + 1 /\ DOMAIN r = 1 .. Len(s) + 1
      /\ r[1] = t /\ \A i \in 1 .. Len(s) : r[i + 1] = s[i]
  BY <1>0, <1>1
<1>3. \A i \in 2 .. Len(s) + 1 : i - 1 \in 1 .. Len(s) /\ r[i] = s[i - 1]
  BY <1>0, <1>2
<1>4. \A i \in 1 .. Len(s) : s[i] \in ToSet(s) /\ s[i] # t
  BY <1>0 DEF ToSet
<1>5. Distinct(r)
  <2> SUFFICES ASSUME NEW a \in 1 .. Len(s) + 1, NEW b \in 1 .. Len(s) + 1,
                      r[a] = r[b]
               PROVE  a = b
    BY <1>2 DEF Distinct
  <2>1. CASE a = 1
    BY <1>0, <1>2, <1>3, <1>4, <2>1
  <2>2. CASE b = 1
    BY <1>0, <1>2, <1>3, <1>4, <2>2
  <2>3. CASE a # 1 /\ b # 1
    <3>1. /\ a - 1 \in 1 .. Len(s) /\ b - 1 \in 1 .. Len(s)
          /\ s[a - 1] = s[b - 1]
      BY <1>0, <1>3, <2>3
    <3> QED
      BY <1>0, <3>1 DEF Distinct
  <2> QED
    BY <2>1, <2>2, <2>3
<1>6. ToSet(r) = ToSet(s) \cup {t}
  <2>1. ToSet(r) \subseteq ToSet(s) \cup {t}
    <3> SUFFICES ASSUME NEW x \in ToSet(r), x # t
                 PROVE  x \in ToSet(s)
      OBVIOUS
    <3>1. PICK i \in 1 .. Len(s) + 1 : r[i] = x
      BY <1>2 DEF ToSet
    <3>2. i # 1
      BY <1>2, <3>1
    <3>3. i - 1 \in 1 .. Len(s) /\ x = s[i - 1]
      BY <1>0, <1>3, <3>1, <3>2
    <3> QED
      BY <1>4, <3>3
  <2>2. t \in ToSet(r) /\ ToSet(s) \subseteq ToSet(r)
    <3>1. \A i \in 1 .. Len(s) : i + 1 \in DOMAIN r /\ r[i + 1] = s[i]
      BY <1>0, <1>2
    <3>2. 1 \in DOMAIN r
      BY <1>0, <1>2
    <3> QED
      BY <1>0, <1>2, <3>1, <3>2 DEF ToSet
  <2> QED
    BY <2>1, <2>2
<1>7. ASSUME NEW i \in 1 .. Len(s) + 1
      PROVE  n2[r[i]] = NodeAt(r, null, i + 1) /\ p2[r[i]] = NodeAt(r, null, i - 1)
  <2>1. CASE i = 1
    <3>1. NodeAt(r, null, 2) = NodeAt(s, null, 1) /\ NodeAt(r, null, 0) = null
      BY <1>0, <1>2 DEF NodeAt
    <3> QED
      BY <1>2, <2>1, <3>1 DEF Linked
  <2>2. CASE i # 1
    <3>1. PICK j \in 1 .. Len(s) : j = i - 1 /\ r[i] = s[j]
      BY <1>0, <1>3, <2>2
    <3>2. NodeAt(r, null, i + 1) = NodeAt(s, null, j + 1) /\ NodeAt(r, null, i - 1) = r[j]
      BY <1>0, <1>2, <3>1 DEF NodeAt
    <3>3. n2[r[i]] = NodeAt(r, null, i + 1)
      BY <1>4, <3>1, <3>2 DEF Linked
    <3>4. CASE j = 1
      <4>1. h = s[j]
        BY <3>1, <3>4 DEF Linked, NodeAt
      <4> QED
        BY <1>0, <1>2, <3>1, <3>2, <3>3, <3>4, <4>1
    <3>5. CASE j # 1
      <4>1. j - 1 \in 1 .. Len(s) /\ r[j] = s[j - 1] /\ 1 \in 1 .. Len(s)
        BY <1>0, <1>3, <3>1, <3>5
      <4>2. h = s[1] /\ s[j] # h
        BY <1>0, <3>5, <4>1 DEF Linked, NodeAt, Distinct
      <4>3. p2[s[j]] = prev[s[j]] /\ prev[s[j]] = s[j - 1]
        BY <1>0, <1>4, <4>1, <4>2 DEF Linked, NodeAt
      <4> QED
        BY <3>1, <3>2, <3>3, <4>1, <4>3
    <3> QED
      BY <3>4, <3>5
  <2> QED
    BY <2>1, <2>2
<1>8. t = NodeAt(r, null, 1)
  BY <1>0, <1>2 DEF NodeAt
<1>9. Linked(N, null, n2, p2, r, t)
  BY <1>2, <1>5, <1>7, <1>8 DEF Linked
<1> QED
  BY <1>1, <1>2, <1>6, <1>9

(* A node is unlinked: its neighbours are linked to each other. *)
LEMMA LinkedRemove ==
  ASSUME NEW N, NEW null, null \notin N, NEW next, NEW prev, NEW s, NEW h,
         Linked(N, null, next, prev, s, h),
         NEW k \in 1 .. Len(s), NEW t, t = s[k], NEW n2, NEW p2,
         \A u \in ToSet(s) \ {t} :
           /\ n2[u] = IF u = prev[t] THEN next[t] ELSE next[u]
           /\ p2[u] = IF u = next[t] THEN prev[t] ELSE prev[u]
  PROVE  Linked(N, null, n2, p2, RemoveAt(s, k), IF h = t THEN next[t] ELSE h)
<1>0. /\ s \in Seq(N) /\ Len(s) \in Nat /\ DOMAIN s = 1 .. Len(s) /\ Distinct(s)
      /\ \A i \in 1 .. Len(s) : s[i] \in N /\ s[i] # null /\ s[i] \in ToSet(s)
  BY DEF Linked, ToSet
<1>1. PICK r : r = RemoveAt(s, k)
  OBVIOUS
<1>2. /\ r \in Seq(N) /\ Len(r) = Len(s) - 1 /\ DOMAIN r = 1 .. Len(s) - 1
      /\ \A j \in 1 .. Len(s) - 1 : r[j] = IF j < k THEN s[j] ELSE s[j + 1]
  <2>1. /\ RemoveAt(s, k) \in Seq(N) /\ Len(RemoveAt(s, k)) = Len(s) - 1
        /\ \A j \in 1 .. Len(s) - 1 :
             RemoveAt(s, k)[j] = IF j < k THEN s[j] ELSE s[j + 1]
    BY <1>0, RemoveAtFacts, Zenon
  <2> QED
    BY <1>0, <1>1, <2>1
<1>3. \A j \in 0 .. Len(s) :
        NodeAt(r, null, j) = IF j < k THEN NodeAt(s, null, j) ELSE NodeAt(s, null, j + 1)
  BY <1>0, <1>2 DEF NodeAt
<1>4. next[t] = NodeAt(s, null, k + 1) /\ prev[t] = NodeAt(s, null, k - 1)
  BY DEF Linked
<1>5. \A j \in 1 .. Len(s) : /\ s[j] = t <=> j = k
                             /\ s[j] = next[t] <=> j = k + 1
                             /\ s[j] = prev[t] <=> j = k - 1
  BY <1>0, <1>4 DEF Distinct, NodeAt
<1>6. \A j \in 1 .. Len(s) : j # k =>
        /\ n2[s[j]] = IF j = k - 1 THEN NodeAt(s, null, k + 1) ELSE NodeAt(s, null, j + 1)
        /\ p2[s[j]] = IF j = k + 1 THEN NodeAt(s, null, k - 1) ELSE NodeAt(s, null, j - 1)
  <2> SUFFICES ASSUME NEW j \in 1 .. Len(s), j # k
               PROVE  /\ n2[s[j]] = IF j = k - 1 THEN NodeAt(s, null, k + 1)
                                                 ELSE NodeAt(s, null, j + 1)
                      /\ p2[s[j]] = IF j = k + 1 THEN NodeAt(s, null, k - 1)
                                                 ELSE NodeAt(s, null, j - 1)
    OBVIOUS
  <2>1. s[j] \in ToSet(s) \ {t}
    BY <1>0, <1>5
  <2>2. next[s[j]] = NodeAt(s, null, j + 1) /\ prev[s[j]] = NodeAt(s, null, j - 1)
    BY DEF Linked
  <2> QED
    BY <1>4, <1>5, <2>1, <2>2
<1>7. ASSUME NEW j \in 1 .. Len(s) - 1
      PROVE  n2[r[j]] = NodeAt(r, null, j + 1) /\ p2[r[j]] = NodeAt(r, null, j - 1)
  <2>0. j + 1 \in 0 .. Len(s) /\ j - 1 \in 0 .. Len(s)
    BY <1>0
  <2>1. CASE j < k
    <3>1. r[j] = s[j] /\ j \in 1 .. Len(s) /\ j # k /\ j # k + 1
      BY <1>0, <1>2, <2>1
    <3> QED
      BY <1>0, <1>3, <1>6, <2>0, <2>1, <3>1
  <2>2. CASE ~(j < k)
    <3>1. r[j] = s[j + 1] /\ j + 1 \in 1 .. Len(s) /\ j + 1 # k /\ j + 1 # k - 1
      BY <1>0, <1>2, <2>2
    <3> QED
      BY <1>0, <1>3, <1>6, <2>0, <2>2, <3>1
  <2> QED
    BY <2>1, <2>2
<1>8. (IF h = t THEN next[t] ELSE h) = NodeAt(r, null, 1)
  <2>1. h = s[1] /\ 1 \in 1 .. Len(s)
    BY <1>0 DEF Linked, NodeAt
  <2> QED
    BY <1>0, <1>3, <1>4, <1>5, <2>1 DEF NodeAt
<1>9. Distinct(r)
  <2> DEFINE Old(j) == IF j < k THEN j ELSE j + 1
  <2>1. \A j \in 1 .. Len(s) - 1 : Old(j) \in 1 .. Len(s) /\ r[j] = s[Old(j)]
    BY <1>0, <1>2
  <2>2. \A a, b \in 1 .. Len(s) - 1 : Old(a) = Old(b) => a = b
    BY <1>0
  <2> HIDE DEF Old
  <2> QED
    BY <1>0, <1>2, <2>1, <2>2 DEF Distinct
<1>10. Linked(N, null, n2, p2, r, IF h = t THEN next[t] ELSE h)
  BY <1>2, <1>7, <1>8, <1>9 DEF Linked
<1> QED
  BY <1>1, <1>10

LEMMA RemoveAtHead ==
  ASSUME NEW S, NEW s \in Seq(S), s # <<>>
  PROVE  RemoveAt(s, 1) = Tail(s)
<1>1. Len(s) \in Nat /\ 1 \in 1 .. Len(s)
  OBVIOUS
<1>2. PICK r : r = RemoveAt(s, 1)
  OBVIOUS
<1>3. /\ r \in Seq(S) /\ Len(r) = Len(s) - 1
      /\ \A j \in 1 .. Len(s) - 1 : r[j] = IF j < 1 THEN s[j] ELSE s[j + 1]
  BY <1>1, <1>2, RemoveAtFacts
<1>4. \A j \in 1 .. Len(s) - 1 : r[j] = s[j + 1]
  BY <1>1, <1>3
<1>5. PICK q : q = Tail(s)
  OBVIOUS
<1>6. /\ q \in Seq(S) /\ Len(q) = Len(s) - 1
      /\ \A j \in 1 .. Len(s) - 1 : q[j] = s[j + 1]
  BY <1>5
<1>7. r = q
  BY <1>3, <1>4, <1>6
<1> QED
  BY <1>2, <1>5, <1>7

(* A node is put behind the last one of a list, or alone on an empty one. *)
LEMMA LinkedAppend ==
  ASSUME NEW N, NEW null, null \notin N, NEW next, NEW prev, NEW s, NEW h,
         Linked(N, null, next, prev, s, h), NEW last, last = NodeAt(s, null, Len(s)),
         NEW t \in N, t \notin ToSet(s), NEW n2, NEW p2,
         n2[t] = null, p2[t] = last, last # null => n2[last] = t,
         \A u \in ToSet(s) : p2[u] = prev[u],
         \A u \in ToSet(s) \ {last} : n2[u] = next[u]
  PROVE  Linked(N, null, n2, p2, Append(s, t), IF s = <<>> THEN t ELSE h)
<1>0. /\ s \in Seq(N) /\ Len(s) \in Nat /\ DOMAIN s = 1 .. Len(s) /\ Distinct(s)
      /\ \A i \in 1 .. Len(s) : s[i] \in N /\ s[i] # null /\ s[i] \in ToSet(s)
  BY DEF Linked, ToSet
<1>a. Len(s) \in Nat
  BY <1>0
<1>1. PICK r : r = Append(s, t)
  OBVIOUS
<1>2. r \in Seq(N) /\ Distinct(r)
  BY <1>0, <1>1, AppendFacts
<1>3. /\ Len(r) = Len(s) + 1 /\ r[Len(s) + 1] = t
      /\ \A i \in 1 .. Len(s) : r[i] = s[i]
  BY <1>0, <1>1
<1>4. \A i \in 0 .. Len(s) : NodeAt(r, null, i) = NodeAt(s, null, i)
  BY <1>0, <1>3 DEF NodeAt
<1>5. NodeAt(r, null, Len(s) + 1) = t /\ NodeAt(r, null, Len(s) + 2) = null
  BY <1>0, <1>3 DEF NodeAt
<1>6. ASSUME NEW i \in 1 .. Len(s)
      PROVE  n2[s[i]] = NodeAt(r, null, i + 1) /\ p2[s[i]] = NodeAt(r, null, i - 1)
  <2>1. next[s[i]] = NodeAt(s, null, i + 1) /\ prev[s[i]] = NodeAt(s, null, i - 1)
    BY DEF Linked
  <2>2. p2[s[i]] = NodeAt(r, null, i - 1)
    <3>1. i - 1 \in 0 .. Len(s)
      BY <1>a
    <3> QED
      BY <1>0, <1>4, <2>1, <3>1
  <2>3. CASE i = Len(s)
    <3>1. s[i] = last
      BY <2>3 DEF NodeAt
    <3> QED
      BY <1>0, <1>5, <2>2, <2>3, <3>1
  <2>4. CASE i # Len(s)
    <3>1. Len(s) \in 1 .. Len(s) /\ i + 1 \in 0 .. Len(s)
      BY <1>a, <2>4
    <3>2. s[i] # last
      BY <1>0, <2>4, <3>1 DEF NodeAt, Distinct
    <3> QED
      BY <1>0, <1>4, <2>1, <2>2, <3>1, <3>2
  <2> QED
    BY <2>3, <2>4
<1>7. ASSUME NEW i \in 1 .. Len(r)
      PROVE  n2[r[i]] = NodeAt(r, null, i + 1) /\ p2[r[i]] = NodeAt(r, null, i - 1)
  <2>1. CASE i = Len(s) + 1
    <3>1. /\ i + 1 = Len(s) + 2 /\ i - 1 = Len(s) /\ Len(s) \in 0 .. Len(s)
          /\ r[i] = t
      BY <1>0, <1>3, <2>1
    <3> QED
      BY <1>4, <1>5, <3>1
  <2>2. CASE i # Len(s) + 1
    <3>1. i \in 1 .. Len(s) /\ r[i] = s[i]
      BY <1>0, <1>3, <2>2
    <3> QED
      BY <1>6, <3>1
  <2> QED
    BY <2>1, <2>2
<1>8. (IF s = <<>> THEN t ELSE h) = NodeAt(r, null, 1)
  <2>1. CASE s = <<>>
    BY <1>3, <1>5, <2>1
  <2>2. CASE s # <<>>
    <3>1. 1 \in 0 .. Len(s) /\ h = NodeAt(s, null, 1)
      BY <1>0, <2>2 DEF Linked
    <3> QED
      BY <1>4, <2>2, <3>1
  <2> QED
    BY <2>1, <2>2
<1>9. Linked(N, null, n2, p2, r, IF s = <<>> THEN t ELSE h)
  BY <1>2, <1>7, <1>8 DEF Linked
<1> QED
  BY <1>1, <1>9
=============================================================================
