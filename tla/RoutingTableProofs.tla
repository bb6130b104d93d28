--------------------------- MODULE RoutingTableProofs ---------------------------
(***************************************************************************)
(* Theorems about RoutingTable, for every set of ids, size of the row and  *)
(* bound.  What a handler does is a composition of the operators on the    *)
(* state s = rt, so the invariant is a predicate on s and the tick, and    *)
(* each operator is shown to keep it.                                      *)
(***************************************************************************)
EXTENDS RoutingTable, SequenceTheorems, FiniteSetTheorems, TLAPS

-----------------------------------------------------------------------------
(* Sequences without, and with, an element. *)

\* The element at k is gone, and the others are in the order they were in.
LEMMA RemoveAtIs ==
    ASSUME NEW S, NEW q \in Seq(S), NEW k \in 1..Len(q), NEW u, u = RemoveAt(q, k)
    PROVE  /\ u \in Seq(S) /\ Len(u) = Len(q) - 1
           /\ \A j \in 1..Len(u) : u[j] = IF j < k THEN q[j] ELSE q[j + 1]
<1> DEFINE a == SubSeq(q, 1, k - 1)
           b == SubSeq(q, k + 1, Len(q))
<1>1. Len(q) \in Nat /\ k \in Int /\ 1 <= k /\ k <= Len(q) /\ \A i \in 1..Len(q) : q[i] \in S
  BY LenProperties, ElementOfSeq
<1>2. /\ a \in Seq(S) /\ Len(a) = k - 1
      /\ \A i \in 1..k - 1 : a[i] = q[i]
  <2>1. /\ 1 \in Int /\ k - 1 \in Int /\ \A i \in 1..k - 1 : q[i] \in S
    BY <1>1
  <2>2. /\ a \in Seq(S) /\ Len(a) = IF 1 <= k - 1 THEN (k - 1) - 1 + 1 ELSE 0
        /\ \A i \in 1..(k - 1) - 1 + 1 : a[i] = q[1 + i - 1]
    BY <2>1, SubSeqProperties
  <2> HIDE DEF a
  <2> QED
    BY <1>1, <2>2
<1>3. /\ b \in Seq(S) /\ Len(b) = Len(q) - k
      /\ \A i \in 1..Len(q) - k : b[i] = q[k + i]
  <2>1. /\ k + 1 \in Int /\ Len(q) \in Int /\ \A i \in k + 1..Len(q) : q[i] \in S
    BY <1>1
  <2>2. /\ b \in Seq(S) /\ Len(b) = IF k + 1 <= Len(q) THEN Len(q) - (k + 1) + 1 ELSE 0
        /\ \A i \in 1..Len(q) - (k + 1) + 1 : b[i] = q[(k + 1) + i - 1]
    BY <2>1, SubSeqProperties
  <2> HIDE DEF b
  <2> QED
    BY <1>1, <2>2
<1>4. u = a \o b
  BY DEF RemoveAt
<1> HIDE DEF a, b
<1>5. /\ u \in Seq(S) /\ Len(u) = Len(a) + Len(b)
      /\ \A i \in 1..Len(a) + Len(b) : u[i] = IF i <= Len(a) THEN a[i] ELSE b[i - Len(a)]
  <2>1. a \in Seq(S) /\ b \in Seq(S)
    BY <1>2, <1>3
  <2>2. /\ a \o b \in Seq(S) /\ Len(a \o b) = Len(a) + Len(b)
        /\ \A i \in 1..Len(a) + Len(b) :
              (a \o b)[i] = IF i <= Len(a) THEN a[i] ELSE b[i - Len(a)]
    BY <2>1, ConcatProperties
  <2> QED
    BY <1>4, <2>2
<1>6. Len(u) = Len(q) - 1
  BY <1>1, <1>2, <1>3, <1>5
<1>7. ASSUME NEW j \in 1..Len(u) PROVE u[j] = IF j < k THEN q[j] ELSE q[j + 1]
  <2>1. u[j] = IF j <= k - 1 THEN a[j] ELSE b[j - (k - 1)]
    BY <1>1, <1>2, <1>3, <1>5, <1>6
  <2>2. CASE j < k
    BY <1>1, <1>2, <2>1, <2>2
  <2>3. CASE ~(j < k)
    <3>1. j - (k - 1) \in 1..Len(q) - k /\ k + (j - (k - 1)) = j + 1
      BY <1>1, <1>6, <2>3
    <3> QED
      BY <1>1, <1>3, <2>1, <2>3, <3>1
  <2> QED
    BY <2>2, <2>3
<1> QED
  BY <1>5, <1>6, <1>7

\* nodes.remove() takes o out and leaves the others in their order.
LEMMA UnlinkedIs ==
    ASSUME NEW S, NEW q \in Seq(S), IsInjective(q), NEW o, NEW u, u = Unlinked(q, o)
    PROVE  /\ u \in Seq(S) /\ IsInjective(u)
           /\ ToSet(u) = ToSet(q) \ {o}
           /\ \A i, j \in DOMAIN u : i < j =>
                \E x, y \in DOMAIN q : x < y /\ u[i] = q[x] /\ u[j] = q[y]
<1>1. DOMAIN q = 1..Len(q) /\ Len(q) \in Nat
  BY LenProperties
<1>2. CASE \E k \in DOMAIN q : q[k] = o
  <2> DEFINE k == CHOOSE k \in DOMAIN q : q[k] = o
  <2>1. k \in 1..Len(q) /\ q[k] = o /\ u = RemoveAt(q, k)
    BY <1>1, <1>2 DEF Unlinked
  <2> HIDE DEF k
  <2>2. /\ u \in Seq(S) /\ Len(u) = Len(q) - 1
        /\ \A j \in 1..Len(u) : u[j] = IF j < k THEN q[j] ELSE q[j + 1]
    BY <2>1, RemoveAtIs
  <2>3. DOMAIN u = 1..Len(u)
    BY <2>2, LenProperties
  <2> DEFINE at(j) == IF j < k THEN j ELSE j + 1
  <2>4. \A j \in 1..Len(u) : at(j) \in 1..Len(q) /\ at(j) # k /\ u[j] = q[at(j)]
    BY <1>1, <2>1, <2>2
  <2>5. \A i, j \in 1..Len(u) : i < j => at(i) < at(j)
    BY <1>1, <2>1, <2>2
  <2>6. \A i \in 1..Len(q) : i # k => \E j \in 1..Len(u) : at(j) = i
    <3> SUFFICES ASSUME NEW i \in 1..Len(q), i # k PROVE \E j \in 1..Len(u) : at(j) = i
      OBVIOUS
    <3>1. CASE i < k
      BY <1>1, <2>1, <2>2, <3>1
    <3>2. CASE i > k
      <4>1. i - 1 \in 1..Len(u) /\ at(i - 1) = i
        BY <1>1, <2>1, <2>2, <3>2
      <4> QED
        BY <4>1
    <3> QED
      BY <1>1, <2>1, <3>1, <3>2
  <2>7. \A i, j \in 1..Len(q) : q[i] = q[j] => i = j
    BY <1>1 DEF IsInjective
  <2> HIDE DEF at
  <2>8. \A i, j \in 1..Len(u) : i < j \/ j < i \/ i = j
    BY <1>1, <2>2
  <2>9. IsInjective(u)
    <3> SUFFICES ASSUME NEW i \in 1..Len(u), NEW j \in 1..Len(u), u[i] = u[j], i # j
                 PROVE  FALSE
      BY <2>3 DEF IsInjective
    <3>1. at(i) = at(j)
      BY <2>4, <2>7
    <3>2. at(i) < at(j) \/ at(j) < at(i)
      BY <2>5, <2>8
    <3>3. at(i) \in Int /\ at(j) \in Int
      BY <1>1, <2>4
    <3> QED
      BY <3>1, <3>2, <3>3
  <2>10. ToSet(u) = ToSet(q) \ {o}
    <3>1. \A x \in ToSet(u) : x \in ToSet(q) /\ x # o
      BY <1>1, <2>1, <2>3, <2>4, <2>7 DEF ToSet
    <3>2. \A x \in ToSet(q) : x # o => x \in ToSet(u)
      BY <1>1, <2>1, <2>3, <2>4, <2>6 DEF ToSet
    <3> QED
      BY <3>1, <3>2
  <2>11. \A i, j \in DOMAIN u : i < j =>
            \E x, y \in DOMAIN q : x < y /\ u[i] = q[x] /\ u[j] = q[y]
    BY <1>1, <2>3, <2>4, <2>5
  <2> QED
    BY <2>2, <2>9, <2>10, <2>11
<1>3. CASE ~\E k \in DOMAIN q : q[k] = o
  <2>1. u = q
    BY <1>3 DEF Unlinked
  <2> QED
    BY <1>3, <2>1 DEF ToSet
<1> QED
  BY <1>2, <1>3

\* Adding o leaves who was there.
LEMMA RelinkedHas ==
    ASSUME NEW S, NEW q \in Seq(S), IsInjective(q), NEW o \in S
    PROVE  ToSet(Append(Unlinked(q, o), o)) = ToSet(q) \cup {o}
<1> DEFINE u == Unlinked(q, o)
           v == Append(u, o)
<1>1. u \in Seq(S) /\ ToSet(u) = ToSet(q) \ {o}
  BY UnlinkedIs
<1> HIDE DEF u
<1>2. /\ v \in Seq(S) /\ Len(v) = Len(u) + 1 /\ v[Len(u) + 1] = o
      /\ \A i \in 1..Len(u) : v[i] = u[i]
  BY <1>1, AppendProperties
<1> HIDE DEF v
<1>3. DOMAIN u = 1..Len(u) /\ DOMAIN v = 1..Len(u) + 1 /\ Len(u) \in Nat
  BY <1>1, <1>2, LenProperties
<1>4. \A i \in 1..Len(u) + 1 : i \in 1..Len(u) \/ i = Len(u) + 1
  BY <1>3
<1>5. ToSet(v) = ToSet(u) \cup {o}
  BY <1>2, <1>3, <1>4 DEF ToSet
<1>6. ToSet(v) = ToSet(q) \cup {o}
  BY <1>1, <1>5
<1> QED
  BY <1>6 DEF u, v

\* The elements of v are in the order they have in q, but for o, which is last.
MovedLast(q, v, o) ==
    \A i, j \in DOMAIN v : i < j =>
        \/ v[j] = o /\ v[i] \in ToSet(q)
        \/ \E x, y \in DOMAIN q : /\ x < y /\ v[i] = q[x] /\ v[j] = q[y]
                                  /\ v[i] # o /\ v[j] # o

\* nodes.add() has o last, once, and the others in their order.
LEMMA RelinkedIs ==
    ASSUME NEW S, NEW q \in Seq(S), IsInjective(q), NEW o \in S, NEW v,
           v = Append(Unlinked(q, o), o)
    PROVE  /\ v \in Seq(S) /\ IsInjective(v)
           /\ MovedLast(q, v, o)
<1> DEFINE u == Unlinked(q, o)
<1>1. /\ u \in Seq(S) /\ IsInjective(u) /\ ToSet(u) = ToSet(q) \ {o}
      /\ \A i, j \in DOMAIN u : i < j =>
            \E x, y \in DOMAIN q : x < y /\ u[i] = q[x] /\ u[j] = q[y]
  BY UnlinkedIs
<1>2. v = Append(u, o)
  OBVIOUS
<1> HIDE DEF u
<1>3. /\ v \in Seq(S) /\ Len(v) = Len(u) + 1 /\ v[Len(u) + 1] = o
      /\ \A i \in 1..Len(u) : v[i] = u[i]
  BY <1>1, <1>2, AppendProperties
<1>4. DOMAIN u = 1..Len(u) /\ DOMAIN v = 1..Len(u) + 1 /\ Len(u) \in Nat
  BY <1>1, <1>3, LenProperties
<1>5. \A i \in 1..Len(u) + 1 : i \in 1..Len(u) \/ i = Len(u) + 1
  BY <1>4
<1>6. \A i \in 1..Len(u) : u[i] \in ToSet(q) /\ u[i] # o
  BY <1>1, <1>4 DEF ToSet
<1>7. IsInjective(v)
  BY <1>1, <1>3, <1>4, <1>5, <1>6 DEF IsInjective
<1>8. ASSUME NEW i \in DOMAIN v, NEW j \in DOMAIN v, i < j
      PROVE  \/ v[j] = o /\ v[i] \in ToSet(q)
             \/ \E x, y \in DOMAIN q : /\ x < y /\ v[i] = q[x] /\ v[j] = q[y]
                                       /\ v[i] # o /\ v[j] # o
  <2>1. i \in 1..Len(u)
    BY <1>4, <1>8
  <2>2. v[i] = u[i] /\ u[i] \in ToSet(q) /\ u[i] # o
    BY <1>3, <1>6, <2>1
  <2>3. CASE j = Len(u) + 1
    BY <1>3, <2>2, <2>3
  <2>4. CASE j \in 1..Len(u)
    BY <1>1, <1>3, <1>4, <1>6, <1>8, <2>1, <2>2, <2>4
  <2> QED
    BY <1>4, <1>5, <2>3, <2>4
<1>9. MovedLast(q, v, o)
  BY <1>8 DEF MovedLast
<1> QED
  BY <1>3, <1>7, <1>9

-----------------------------------------------------------------------------
(* Counting pings. *)

\* How many entries of q are of one of the kinds.
CountIn(q, kinds) == Cardinality({k \in DOMAIN q : q[k].kind \in kinds})

\* The entries are finitely many.
LEMMA CountIsNat ==
    ASSUME NEW S, NEW q \in Seq(S), NEW kinds
    PROVE  /\ IsFiniteSet({k \in DOMAIN q : q[k].kind \in kinds})
           /\ CountIn(q, kinds) \in Nat
<1> DEFINE A == {k \in DOMAIN q : q[k].kind \in kinds}
<1>1. Len(q) \in Int /\ 1 \in Int /\ DOMAIN q = 1..Len(q)
  BY LenProperties
<1>2. IsFiniteSet(1..Len(q))
  BY <1>1, FS_Interval
<1>3. A \in SUBSET (1..Len(q))
  BY <1>1
<1> HIDE DEF A
<1>4. IsFiniteSet(A)
  BY <1>2, <1>3, FS_Subset
<1>5. Cardinality(A) \in Nat
  BY <1>4, FS_CardinalityType
<1> QED
  BY <1>4, <1>5 DEF A, CountIn

\* One entry more at the end.
LEMMA CountAppend ==
    ASSUME NEW S, NEW q \in Seq(S), NEW p \in S, NEW kinds, NEW v, v = Append(q, p)
    PROVE  /\ CountIn(q, kinds) \in Nat
           /\ p.kind \in kinds => CountIn(v, kinds) = CountIn(q, kinds) + 1
           /\ p.kind \notin kinds => CountIn(v, kinds) = CountIn(q, kinds)
<1> DEFINE A == {k \in DOMAIN q : q[k].kind \in kinds}
           B == {k \in DOMAIN v : v[k].kind \in kinds}
<1>1. /\ Len(q) \in Nat /\ DOMAIN q = 1..Len(q)
      /\ v \in Seq(S) /\ Len(v) = Len(q) + 1 /\ v[Len(q) + 1] = p
      /\ \A i \in 1..Len(q) : v[i] = q[i]
  BY LenProperties, AppendProperties
<1>2. DOMAIN v = 1..Len(q) + 1
  BY <1>1, LenProperties
<1>3. \A i \in 1..Len(q) + 1 : i \in 1..Len(q) \/ i = Len(q) + 1
  BY <1>1
<1>4. Len(q) + 1 \notin 1..Len(q) /\ Len(q) + 1 \in 1..Len(q) + 1 /\ 1..Len(q) \subseteq 1..Len(q) + 1
  BY <1>1
<1>5. IsFiniteSet(A) /\ Cardinality(A) \in Nat
  BY CountIsNat DEF CountIn
<1>6. B = IF p.kind \in kinds THEN A \cup {Len(q) + 1} ELSE A
  BY <1>1, <1>2, <1>3, <1>4
<1>7. Len(q) + 1 \notin A
  BY <1>1, <1>4
<1> HIDE DEF A, B
<1>8. Cardinality(B) = Cardinality(A) + (IF p.kind \in kinds THEN 1 ELSE 0)
  <2>1. CASE p.kind \in kinds
    <3>1. Cardinality(A \cup {Len(q) + 1}) = Cardinality(A) + 1
      BY <1>5, <1>7, FS_AddElement
    <3> QED
      BY <1>6, <2>1, <3>1
  <2>2. CASE p.kind \notin kinds
    BY <1>5, <1>6, <2>2
  <2> QED
    BY <2>1, <2>2
<1>9. CountIn(q, kinds) = Cardinality(A) /\ CountIn(v, kinds) = Cardinality(B)
  BY DEF A, B, CountIn
<1> QED
  BY <1>5, <1>8, <1>9

\* The entry at k less.
LEMMA CountRemoveAt ==
    ASSUME NEW S, NEW q \in Seq(S), NEW k \in 1..Len(q), NEW kinds, NEW u, u = RemoveAt(q, k)
    PROVE  /\ CountIn(q, kinds) \in Nat /\ CountIn(u, kinds) \in Nat
           /\ q[k].kind \in kinds => CountIn(u, kinds) = CountIn(q, kinds) - 1
           /\ q[k].kind \notin kinds => CountIn(u, kinds) = CountIn(q, kinds)
<1> DEFINE A == {j \in DOMAIN q : q[j].kind \in kinds}
           B == {j \in DOMAIN u : u[j].kind \in kinds}
           f == [j \in B |-> IF j < k THEN j ELSE j + 1]
<1>1. /\ Len(q) \in Nat /\ DOMAIN q = 1..Len(q)
      /\ u \in Seq(S) /\ Len(u) = Len(q) - 1
      /\ \A j \in 1..Len(u) : u[j] = IF j < k THEN q[j] ELSE q[j + 1]
  BY LenProperties, RemoveAtIs
<1>2. DOMAIN u = 1..Len(q) - 1
  BY <1>1, LenProperties
<1>3. IsFiniteSet(A) /\ Cardinality(A) \in Nat
  BY CountIsNat DEF CountIn
<1>4. IsFiniteSet(B)
  BY <1>1, CountIsNat
<1>5. \A j \in B : /\ j \in 1..Len(q) - 1 /\ f[j] = IF j < k THEN j ELSE j + 1
                   /\ f[j] \in A \ {k}
  <2> SUFFICES ASSUME NEW j \in B
               PROVE  /\ j \in 1..Len(q) - 1 /\ f[j] = IF j < k THEN j ELSE j + 1
                      /\ f[j] \in A \ {k}
    OBVIOUS
  <2>1. j \in 1..Len(q) - 1 /\ u[j].kind \in kinds /\ f[j] = IF j < k THEN j ELSE j + 1
    BY <1>2
  <2>2. f[j] \in 1..Len(q) /\ f[j] # k
    BY <1>1, <2>1
  <2>3. u[j] = q[f[j]]
    BY <1>1, <2>1
  <2> QED
    BY <1>1, <2>1, <2>2, <2>3
<1>6. \A i \in A \ {k} : \E j \in B : f[j] = i
  <2> SUFFICES ASSUME NEW i \in A, i # k PROVE \E j \in B : f[j] = i
    OBVIOUS
  <2>1. i \in 1..Len(q) /\ q[i].kind \in kinds
    BY <1>1
  <2>2. CASE i < k
    <3>1. i \in 1..Len(q) - 1 /\ u[i] = q[i]
      BY <1>1, <2>1, <2>2
    <3> QED
      BY <1>2, <2>1, <2>2, <3>1
  <2>3. CASE i > k
    <3>1. i - 1 \in 1..Len(q) - 1 /\ ~(i - 1 < k) /\ (i - 1) + 1 = i
      BY <1>1, <2>1, <2>3
    <3>2. u[i - 1] = q[i]
      BY <1>1, <3>1
    <3> QED
      BY <1>2, <2>1, <3>1, <3>2
  <2>4. i < k \/ i > k
    BY <1>1, <2>1
  <2> QED
    BY <2>2, <2>3, <2>4
<1>7. f \in [B -> A \ {k}]
  BY <1>5
<1> HIDE DEF A, B, f
<1>8. \A i, j \in B : f[i] = f[j] => i = j
  BY <1>1, <1>5
<1>9. ExistsBijection(B, A \ {k})
  <2>1. DOMAIN f = B
    BY <1>7
  <2>2. f \in Bijection(B, A \ {k})
    BY <1>6, <1>7, <1>8, <2>1 DEF Bijection, Injection, Surjection, IsInjective
  <2> QED
    BY <2>2 DEF ExistsBijection
<1>10. Cardinality(A \ {k}) = Cardinality(B)
  BY <1>4, <1>9, FS_Bijection
<1>11. Cardinality(A \ {k}) = IF k \in A THEN Cardinality(A) - 1 ELSE Cardinality(A)
  BY <1>3, FS_RemoveElement
<1>12. k \in A <=> q[k].kind \in kinds
  BY <1>1 DEF A
<1>13. Cardinality(B) = Cardinality(A) - (IF q[k].kind \in kinds THEN 1 ELSE 0)
  BY <1>3, <1>10, <1>11, <1>12
<1>14. CountIn(q, kinds) = Cardinality(A) /\ CountIn(u, kinds) = Cardinality(B)
  BY DEF A, B, CountIn
<1>15. Cardinality(B) \in Nat
  BY <1>4, FS_CardinalityType
<1> QED
  BY <1>3, <1>13, <1>14, <1>15

AllOfKind(z, kind) == \A j \in 1..Len(z) : z[j].kind = kind

\* Entries of one kind more at the end.
LEMMA CountConcat ==
    ASSUME NEW S, NEW q \in Seq(S), NEW z \in Seq(S), NEW kind, NEW kinds,
           AllOfKind(z, kind)
    PROVE  /\ kind \in kinds => CountIn(q \o z, kinds) = CountIn(q, kinds) + Len(z)
           /\ kind \notin kinds => CountIn(q \o z, kinds) = CountIn(q, kinds)
<1> DEFINE v == q \o z
           A == {k \in DOMAIN q : q[k].kind \in kinds}
           B == {k \in DOMAIN v : v[k].kind \in kinds}
           C == Len(q) + 1..Len(q) + Len(z)
<1>1. /\ Len(q) \in Nat /\ DOMAIN q = 1..Len(q) /\ Len(z) \in Nat
      /\ v \in Seq(S) /\ Len(v) = Len(q) + Len(z)
      /\ \A i \in 1..Len(q) + Len(z) : v[i] = IF i <= Len(q) THEN q[i] ELSE z[i - Len(q)]
  BY LenProperties, ConcatProperties
<1> HIDE DEF v
<1>2. DOMAIN v = 1..Len(q) + Len(z)
  BY <1>1, LenProperties
<1>3. \A i : i \in 1..Len(q) + Len(z) <=> i \in 1..Len(q) \/ i \in C
  BY <1>1
<1>4. \A i \in 1..Len(q) : i \notin C /\ v[i] = q[i]
  BY <1>1
<1>5. \A i \in C : v[i].kind = kind
  <2> SUFFICES ASSUME NEW i \in C PROVE v[i].kind = kind
    OBVIOUS
  <2>1. i - Len(q) \in 1..Len(z) /\ ~(i <= Len(q)) /\ i \in 1..Len(q) + Len(z)
    BY <1>1
  <2> QED
    BY <1>1, <2>1 DEF AllOfKind
<1>6. IsFiniteSet(A) /\ Cardinality(A) \in Nat
  BY CountIsNat DEF CountIn
<1>7. IsFiniteSet(C) /\ Cardinality(C) = Len(z)
  <2> DEFINE lo == Len(q) + 1
             hi == Len(q) + Len(z)
  <2>1. lo \in Int /\ hi \in Int /\ C = lo..hi
        /\ (IF lo > hi THEN 0 ELSE hi - lo + 1) = Len(z)
    BY <1>1
  <2> HIDE DEF lo, hi, C
  <2>2. IsFiniteSet(lo..hi) /\ Cardinality(lo..hi) = IF lo > hi THEN 0 ELSE hi - lo + 1
    BY <2>1, FS_Interval
  <2> QED
    BY <2>1, <2>2
<1> HIDE DEF C
<1>8. B = IF kind \in kinds THEN A \cup C ELSE A
  BY <1>1, <1>2, <1>3, <1>4, <1>5
<1>9. A \cap C = {}
  BY <1>1, <1>4
<1> HIDE DEF A, B
<1>10. Cardinality(B) = Cardinality(A) + (IF kind \in kinds THEN Len(z) ELSE 0)
  <2>1. CASE kind \in kinds
    <3>1. Cardinality(A \cup C) = Cardinality(A) + Cardinality(C) - Cardinality(A \cap C)
      BY <1>6, <1>7, FS_Union
    <3>2. Cardinality(A \cap C) = 0
      BY <1>9, FS_EmptySet
    <3> QED
      BY <1>1, <1>6, <1>7, <1>8, <2>1, <3>1, <3>2
  <2>2. CASE kind \notin kinds
    BY <1>6, <1>8, <2>2
  <2> QED
    BY <2>1, <2>2
<1>11. CountIn(q, kinds) = Cardinality(A) /\ CountIn(v, kinds) = Cardinality(B)
  BY DEF A, B, CountIn
<1> QED
  BY <1>6, <1>10, <1>11 DEF v

-----------------------------------------------------------------------------
(* The invariant, as a predicate on a state s of the table at tick t. *)

State ==
    [table : [Id -> Object \cup {NoObject}], nodes : Seq(Object),
     seen : [Object -> Nat], pinged : [Object -> Nat], added : [Object -> Nat],
     hinted : SUBSET Object, pings : Seq(Ping), checks : Nat, repinging : Nat]

\* Who is heard from is as good as pinged, and nothing happens in the future.
Timed(s, t) ==
    \A o \in Object : s.seen[o] <= s.pinged[o] /\ s.pinged[o] <= t /\ s.added[o] <= t

\* SameNodes of s.
Listed(s) ==
    /\ Row(s) \subseteq ToSet(s.nodes) /\ IsInjective(s.nodes)
    /\ \A i \in Id : s.table[i] # NoObject => IdOf(s.table[i]) = i
    /\ IsFiniteSet(Row(s)) /\ Cardinality(Row(s)) <= K

\* OldestFirst of s.
InOrder(s) ==
    \A j, k \in DOMAIN s.nodes : j < k => s.seen[s.nodes[j]] <= s.seen[s.nodes[k]]

\* CountersMatch of s.
Counted(s) ==
    /\ s.checks = CountIn(s.pings, {"oldest", "hint"})
    /\ s.repinging = CountIn(s.pings, {"swap"})
    /\ s.repinging <= MaxRepings

\* What the closures of pings captured: who is pinged because it is old was last
\* heard from before this tick, and a swap has a newcomer.
CapturedBy(p, t) ==
    /\ p.kind # "hint" => p.lastSeen < t
    /\ p.lastSeen <= t
    /\ p.kind = "swap" => p.new \in Object
Captured(s, t) == \A k \in DOMAIN s.pings : CapturedBy(s.pings[k], t)

Good(s, t) ==
    s \in State /\ Timed(s, t) /\ Listed(s) /\ InOrder(s) /\ Counted(s) /\ Captured(s, t)

\* An object is a pair, unlike what stands for none.
LEMMA ObjectFacts ==
    /\ NoObject \notin Object
    /\ \A o \in Object : IdOf(o) \in Id
BY DEF NoObject, Object, IdOf

\* The fields of a state.
LEMMA Fields ==
    ASSUME NEW s \in State
    PROVE  /\ s.table \in [Id -> Object \cup {NoObject}] /\ s.nodes \in Seq(Object)
           /\ s.seen \in [Object -> Nat] /\ s.pinged \in [Object -> Nat]
           /\ s.added \in [Object -> Nat] /\ s.hinted \subseteq Object
           /\ s.pings \in Seq(Ping) /\ s.checks \in Nat /\ s.repinging \in Nat
BY DEF State

-----------------------------------------------------------------------------
(* Every operator keeps it. *)

\* A ping captures what it finds, and is counted.
LEMMA PingingKeeps ==
    ASSUME tick \in Nat, NEW s, Good(s, tick), NEW o \in Object,
           NEW new \in Object \cup {NoObject}, NEW kind \in {"oldest", "hint", "swap"},
           kind # "hint" => s.seen[o] < tick,
           kind = "swap" => new \in Object /\ s.repinging < MaxRepings,
           NEW r, r = Pinging(s, kind, o, new)
    PROVE  Good(r, tick)
<1> DEFINE p == [kind |-> kind, node |-> o, lastSeen |-> s.seen[o], new |-> new]
<1>1. /\ s \in State /\ Timed(s, tick) /\ Listed(s) /\ InOrder(s) /\ Counted(s)
      /\ Captured(s, tick)
  BY DEF Good
<1>2. s.seen[o] \in Nat /\ p \in Ping /\ s.pings \in Seq(Ping)
  BY <1>1, Fields DEF Ping
<1>3. /\ r.table = s.table /\ r.nodes = s.nodes /\ r.seen = s.seen /\ r.added = s.added
      /\ r.hinted = s.hinted /\ r.pinged = [s.pinged EXCEPT ![o] = tick]
      /\ r.pings = Append(s.pings, p)
      /\ r.checks = IF kind = "swap" THEN s.checks ELSE s.checks + 1
      /\ r.repinging = IF kind = "swap" THEN s.repinging + 1 ELSE s.repinging
  BY <1>1 DEF Pinging, State
<1>4. r \in State
  <2>1. /\ [s.pinged EXCEPT ![o] = tick] \in [Object -> Nat]
        /\ Append(s.pings, p) \in Seq(Ping)
        /\ s.checks + 1 \in Nat /\ s.repinging + 1 \in Nat
    BY <1>1, <1>2, Fields, AppendProperties
  <2> HIDE DEF p
  <2>2. /\ r.pinged \in [Object -> Nat] /\ r.pings \in Seq(Ping)
        /\ r.checks \in Nat /\ r.repinging \in Nat
    BY <1>1, <1>3, <2>1, Fields
  <2>3. r = [s EXCEPT !.pinged = r.pinged, !.pings = r.pings, !.checks = r.checks,
                      !.repinging = r.repinging]
    BY <1>1, <1>3 DEF Pinging, State, p
  <2> QED
    BY <1>1, <2>2, <2>3 DEF State
<1> HIDE DEF p
<1>5. Timed(r, tick)
  BY <1>1, <1>3, Fields DEF Timed
<1>6. Listed(r) /\ InOrder(r)
  BY <1>1, <1>3 DEF Listed, InOrder, Row
<1>7. p.kind = kind /\ p.lastSeen = s.seen[o] /\ p.new = new
  BY DEF p
<1>8. ASSUME NEW kinds
      PROVE  /\ CountIn(s.pings, kinds) \in Nat
             /\ kind \in kinds => CountIn(r.pings, kinds) = CountIn(s.pings, kinds) + 1
             /\ kind \notin kinds => CountIn(r.pings, kinds) = CountIn(s.pings, kinds)
  <2> DEFINE q == s.pings
             v == r.pings
  <2>1. q \in Seq(Ping) /\ p \in Ping /\ v = Append(q, p)
    BY <1>2, <1>3
  <2> HIDE DEF q, v
  <2>2. CountIn(q, kinds) \in Nat
    BY <2>1, CountIsNat
  <2>3. p.kind \in kinds => CountIn(v, kinds) = CountIn(q, kinds) + 1
    BY <2>1, CountAppend
  <2>4. p.kind \notin kinds => CountIn(v, kinds) = CountIn(q, kinds)
    BY <2>1, CountAppend
  <2> QED
    BY <1>7, <2>2, <2>3, <2>4 DEF q, v
<1>9. Counted(r)
  <2>1. s.checks \in Nat /\ s.repinging \in Nat /\ MaxRepings \in Nat
    BY <1>1, Fields, RoutingTableAssumption
  <2>2. CASE kind = "swap"
    BY <1>1, <1>3, <1>8, <2>1, <2>2 DEF Counted
  <2>3. CASE kind # "swap"
    BY <1>1, <1>3, <1>8, <2>1, <2>3 DEF Counted
  <2> QED
    BY <2>2, <2>3
<1>10. CapturedBy(p, tick)
  BY <1>1, <1>2, <1>7, Fields DEF CapturedBy, Timed
<1>11. Captured(r, tick)
  <2>1. /\ DOMAIN s.pings = 1..Len(s.pings) /\ DOMAIN r.pings = 1..Len(s.pings) + 1
        /\ r.pings[Len(s.pings) + 1] = p /\ Len(s.pings) \in Nat
        /\ \A k \in 1..Len(s.pings) : r.pings[k] = s.pings[k]
    BY <1>2, <1>3, AppendProperties, LenProperties
  <2>2. \A k \in 1..Len(s.pings) + 1 : k \in 1..Len(s.pings) \/ k = Len(s.pings) + 1
    BY <2>1
  <2> QED
    BY <1>1, <1>10, <2>1, <2>2 DEF Captured
<1> QED
  BY <1>4, <1>5, <1>6, <1>9, <1>11 DEF Good

\* A node that is heard from now goes to the newest end, and the list stays in order.
LEMMA NewestLast ==
    ASSUME tick \in Nat, NEW s, Good(s, tick), NEW o \in Object, NEW r,
           r.nodes = Append(Unlinked(s.nodes, o), o), r.seen = [s.seen EXCEPT ![o] = tick]
    PROVE  /\ r.nodes \in Seq(Object) /\ IsInjective(r.nodes)
           /\ ToSet(r.nodes) = ToSet(s.nodes) \cup {o}
           /\ InOrder(r)
<1> DEFINE q == s.nodes
           v == r.nodes
<1>1. /\ s \in State /\ Timed(s, tick) /\ InOrder(s)
      /\ q \in Seq(Object) /\ IsInjective(q)
  BY Fields DEF Good, Listed
<1> HIDE DEF q, v
<1>2. q \in Seq(Object) /\ IsInjective(q) /\ v = Append(Unlinked(q, o), o)
  BY <1>1 DEF q, v
<1>3. v \in Seq(Object)
  BY <1>2, RelinkedIs
<1>4. IsInjective(v)
  BY <1>2, RelinkedIs
<1>5. ToSet(v) = ToSet(q) \cup {o}
  BY <1>2, RelinkedHas
<1>6. MovedLast(q, v, o)
  BY <1>2, RelinkedIs
<1>7. ASSUME NEW i \in DOMAIN v, NEW j \in DOMAIN v, i < j
      PROVE  r.seen[v[i]] <= r.seen[v[j]]
  <2>1. /\ r.seen = [s.seen EXCEPT ![o] = tick]
        /\ s.seen \in [Object -> Nat] /\ s.pinged \in [Object -> Nat]
    BY <1>1, Fields
  <2>2. v[i] \in Object /\ v[j] \in Object
    BY <1>3, ElementOfSeq, LenProperties
  <2>3. \A x \in Object : s.seen[x] \in Nat /\ s.seen[x] <= tick
    BY <1>1, <2>1 DEF Timed
  <2>4. CASE v[j] = o
    BY <2>1, <2>2, <2>3, <2>4
  <2>5. CASE \E x, y \in DOMAIN q : /\ x < y /\ v[i] = q[x] /\ v[j] = q[y]
                                    /\ v[i] # o /\ v[j] # o
    <3>1. s.seen[v[i]] <= s.seen[v[j]]
      BY <1>1, <2>5 DEF InOrder, q
    <3> QED
      BY <2>1, <2>2, <2>5, <3>1
  <2> QED
    BY <1>6, <1>7, <2>4, <2>5 DEF MovedLast
<1>8. InOrder(r)
  BY <1>7 DEF InOrder, v
<1> QED
  BY <1>3, <1>4, <1>5, <1>8 DEF q, v

\* A message of a node the table has keeps the invariant, and the node is in the list.
LEMMA RefreshedKeeps ==
    ASSUME tick \in Nat, NEW s, Good(s, tick), NEW o \in Object, InNodes(s, o),
           NEW r, r = Refreshed(s, o)
    PROVE  Good(r, tick) /\ r.seen[o] = tick /\ InNodes(r, o) /\ r.pings = s.pings
<1>1. /\ s \in State /\ Timed(s, tick) /\ Listed(s) /\ InOrder(s) /\ Counted(s)
      /\ Captured(s, tick)
  BY DEF Good
<1>2. /\ r.table = s.table /\ r.added = s.added /\ r.hinted = s.hinted
      /\ r.pings = s.pings /\ r.checks = s.checks /\ r.repinging = s.repinging
      /\ r.seen = [s.seen EXCEPT ![o] = tick] /\ r.pinged = [s.pinged EXCEPT ![o] = tick]
      /\ r.nodes = Append(Unlinked(s.nodes, o), o)
  BY <1>1 DEF Refreshed, Touched, State
<1>3. /\ r.nodes \in Seq(Object) /\ IsInjective(r.nodes)
      /\ ToSet(r.nodes) = ToSet(s.nodes) \cup {o}
      /\ InOrder(r)
  BY <1>2, NewestLast
<1>4. r \in State
  BY <1>1, <1>2, <1>3 DEF Refreshed, Touched, State
<1>5. Timed(r, tick)
  BY <1>1, <1>2, Fields DEF Timed
<1>6. Listed(r)
  BY <1>1, <1>2, <1>3 DEF Listed, Row
<1>7. Counted(r) /\ Captured(r, tick)
  BY <1>1, <1>2 DEF Counted, Captured
<1> QED
  BY <1>1, <1>2, <1>3, <1>4, <1>5, <1>6, <1>7, Fields DEF Good, InNodes

\* A full row pings at most one of its nodes, one that this tick has not pinged.
LEMMA FullRowKeeps ==
    ASSUME tick \in Nat, NEW s, Good(s, tick), NEW new \in Object, NEW r \in FullRow(s, new)
    PROVE  Good(r, tick) /\ DOMAIN s.pings \subseteq DOMAIN r.pings
<1>1. s \in State /\ Timed(s, tick) /\ s.pings \in Seq(Ping)
  BY Fields DEF Good
<1>2. CASE r = s
  BY <1>2
<1>3. ASSUME s.repinging < MaxRepings,
             NEW o \in Oldest(s), r = Pinging(s, "swap", o, new)
      PROVE  Good(r, tick) /\ DOMAIN s.pings \subseteq DOMAIN r.pings
  <2>1. o \in Row(s) /\ s.pinged[o] # tick
    BY DEF Oldest
  <2>2. o \in Object
    BY <1>1, <2>1, Fields DEF Row
  <2>3. s.seen[o] < tick
    <3>1. s.seen[o] \in Nat /\ s.pinged[o] \in Nat
      BY <1>1, <2>2, Fields
    <3> QED
      BY <1>1, <2>1, <2>2, <3>1 DEF Timed
  <2>4. Good(r, tick)
    BY <1>3, <2>2, <2>3, PingingKeeps
  <2>5. r.pings = Append(s.pings, [kind |-> "swap", node |-> o, lastSeen |-> s.seen[o],
                                   new |-> new])
    BY <1>1, <1>3 DEF Pinging, State
  <2>6. DOMAIN s.pings \subseteq DOMAIN r.pings
    BY <1>1, <2>5
  <2> QED
    BY <2>4, <2>6
<1>4. s.repinging \in Nat /\ MaxRepings \in Nat
  BY <1>1, Fields, RoutingTableAssumption
<1> QED
  BY <1>2, <1>3, <1>4 DEF FullRow

\* The row without the object in the place of i, and the row with o there.
LEMMA RowWith ==
    ASSUME NEW s, Listed(s), s \in State, NEW i \in Id, NEW o \in Object, IdOf(o) = i,
           o \notin Row(s),
           NEW r, r.table = [s.table EXCEPT ![i] = o],
           s.table[i] # NoObject \/ Cardinality(Row(s)) < K
    PROVE  /\ Row(r) \subseteq Row(s) \cup {o}
           /\ IsFiniteSet(Row(r)) /\ Cardinality(Row(r)) <= K
<1>1. /\ s.table \in [Id -> Object \cup {NoObject}] /\ IsFiniteSet(Row(s))
      /\ Cardinality(Row(s)) <= K /\ Cardinality(Row(s)) \in Nat /\ K \in Nat
      /\ \A j \in Id : s.table[j] # NoObject => IdOf(s.table[j]) = j
  BY Fields, FS_CardinalityType, RoutingTableAssumption DEF Listed
<1>2. \A j \in Id : r.table[j] = IF j = i THEN o ELSE s.table[j]
  BY <1>1
<1>3. Row(r) \subseteq Row(s) \cup {o}
  BY <1>2 DEF Row
<1>4. IsFiniteSet(Row(s) \cup {o}) /\ Cardinality(Row(s) \cup {o}) = Cardinality(Row(s)) + 1
  BY <1>1, FS_AddElement
<1>5. CASE s.table[i] = NoObject
  <2>1. IsFiniteSet(Row(r)) /\ Cardinality(Row(r)) <= Cardinality(Row(s) \cup {o})
    BY <1>3, <1>4, FS_Subset
  <2>2. Cardinality(Row(r)) \in Nat
    BY <2>1, FS_CardinalityType
  <2> QED
    BY <1>1, <1>3, <1>4, <1>5, <2>1, <2>2
<1>6. CASE s.table[i] # NoObject
  <2> DEFINE x == s.table[i]
             R == (Row(s) \cup {o}) \ {x}
  <2>1. x \in Row(s)
    BY <1>6 DEF Row
  <2>2. Row(r) \subseteq R
    <3>1. x # o
      BY <2>1
    <3>2. \A j \in Id : j # i => s.table[j] # x
      BY <1>1, <1>6
    <3> QED
      BY <1>2, <1>3, <3>1, <3>2 DEF Row
  <2> HIDE DEF x
  <2>3. IsFiniteSet(R) /\ Cardinality(R) = Cardinality(Row(s) \cup {o}) - 1
    BY <1>4, <2>1, FS_RemoveElement
  <2> HIDE DEF R
  <2>4. IsFiniteSet(Row(r)) /\ Cardinality(Row(r)) <= Cardinality(R)
    BY <2>2, <2>3, FS_Subset
  <2>5. Cardinality(Row(r)) \in Nat
    BY <2>4, FS_CardinalityType
  <2> QED
    BY <1>1, <1>3, <1>4, <2>3, <2>4, <2>5
<1> QED
  BY <1>5, <1>6

\* Adding a node keeps the invariant, whether it enters the table, is in it
\* already, or waits for a ping of the full row.
LEMMA AddedKeeps ==
    ASSUME tick \in Nat, NEW s, Good(s, tick), NEW o \in Object, NEW r \in Added(s, o)
    PROVE  Good(r, tick) /\ DOMAIN s.pings \subseteq DOMAIN r.pings
<1> DEFINE t == [s EXCEPT !.added[o] = tick, !.pinged[o] = tick, !.seen[o] = tick]
<1>1. /\ s \in State /\ Timed(s, tick) /\ Listed(s) /\ InOrder(s) /\ Counted(s)
      /\ Captured(s, tick)
  BY DEF Good
<1>2. /\ t.table = s.table /\ t.nodes = s.nodes /\ t.hinted = s.hinted
      /\ t.pings = s.pings /\ t.checks = s.checks /\ t.repinging = s.repinging
      /\ t.seen = [s.seen EXCEPT ![o] = tick] /\ t.pinged = [s.pinged EXCEPT ![o] = tick]
      /\ t.added = [s.added EXCEPT ![o] = tick]
  BY <1>1 DEF State
<1>3. t \in State
  BY <1>1 DEF State
<1>4. Row(t) = Row(s)
  BY <1>2 DEF Row
<1>5. Timed(t, tick)
  BY <1>1, <1>2, Fields DEF Timed
<1>6. Counted(t) /\ Captured(t, tick) /\ Listed(t)
  BY <1>1, <1>2, <1>4 DEF Counted, Captured, Listed
<1>7. CASE InNodes(s, o)
  BY <1>7 DEF Added
<1>8. ASSUME ~InNodes(s, o), r \in FullRow(t, o)
      PROVE  Good(r, tick) /\ DOMAIN s.pings \subseteq DOMAIN r.pings
  <2>1. \A j \in DOMAIN s.nodes : s.nodes[j] # o /\ s.nodes[j] \in Object
    BY <1>1, <1>8, Fields, ElementOfSeq, LenProperties DEF InNodes, ToSet
  <2>2. InOrder(t)
    BY <1>1, <1>2, <2>1, Fields DEF InOrder
  <2>3. Good(t, tick)
    BY <1>3, <1>5, <1>6, <2>2 DEF Good
  <2> HIDE DEF t
  <2> QED
    BY <1>2, <1>8, <2>3, FullRowKeeps
<1>9. ASSUME ~InNodes(s, o), t.table[IdOf(o)] # NoObject \/ Cardinality(Row(t)) < K,
             r = Touched([t EXCEPT !.table[IdOf(o)] = o], o)
      PROVE  Good(r, tick) /\ DOMAIN s.pings \subseteq DOMAIN r.pings
  <2> DEFINE i == IdOf(o)
  <2>1. i \in Id
    BY ObjectFacts
  <2> HIDE DEF t
  <2>2. /\ r.table = [s.table EXCEPT ![i] = o] /\ r.nodes = Append(Unlinked(s.nodes, o), o)
        /\ r.hinted = s.hinted /\ r.pings = s.pings /\ r.checks = s.checks
        /\ r.repinging = s.repinging /\ r.seen = [s.seen EXCEPT ![o] = tick]
        /\ r.pinged = t.pinged /\ r.added = t.added
    BY <1>2, <1>3, <1>9 DEF Touched, State
  <2>3. /\ r.nodes \in Seq(Object) /\ IsInjective(r.nodes)
        /\ ToSet(r.nodes) = ToSet(s.nodes) \cup {o}
        /\ InOrder(r)
    BY <2>2, NewestLast
  <2>4. r \in State
    <3>1. r.table \in [Id -> Object \cup {NoObject}]
      BY <1>1, <2>1, <2>2, Fields
    <3>2. r = [t EXCEPT !.table = r.table, !.nodes = r.nodes]
      BY <1>3, <1>9 DEF Touched, State
    <3> QED
      BY <1>3, <2>3, <3>1, <3>2 DEF State
  <2>5. Timed(r, tick)
    BY <1>2, <1>5, <2>2 DEF Timed
  <2>6. Counted(r) /\ Captured(r, tick)
    BY <1>1, <2>2 DEF Counted, Captured
  <2>7. Listed(r)
    <3>1. o \notin Row(s)
      BY <1>1, <1>9 DEF Listed, InNodes
    <3>2. s.table[i] # NoObject \/ Cardinality(Row(s)) < K
      BY <1>2, <1>4, <1>9
    <3> HIDE DEF i
    <3>3. IdOf(o) = i
      BY DEF i
    <3>4. /\ Row(r) \subseteq Row(s) \cup {o}
          /\ IsFiniteSet(Row(r)) /\ Cardinality(Row(r)) <= K
      BY <1>1, <2>1, <2>2, <3>1, <3>2, <3>3, RowWith
    <3>5. \A j \in Id : r.table[j] # NoObject => IdOf(r.table[j]) = j
      BY <1>1, <2>1, <2>2, <3>3, Fields DEF Listed
    <3> QED
      BY <1>1, <2>3, <3>4, <3>5 DEF Listed
  <2> QED
    BY <2>2, <2>3, <2>4, <2>5, <2>6, <2>7 DEF Good
<1> QED
  BY <1>7, <1>8, <1>9 DEF Added

\* A node that is taken out is in neither place, and the others stay in order.
LEMMA RemovedKeeps ==
    ASSUME NEW t \in Nat, NEW s, Good(s, t), NEW o \in Object, NEW r, r = Removed(s, o)
    PROVE  Good(r, t)
<1>1. /\ s \in State /\ Timed(s, t) /\ Listed(s) /\ InOrder(s) /\ Counted(s)
      /\ Captured(s, t)
  BY DEF Good
<1>2. CASE ~InNodes(s, o)
  BY <1>2 DEF Removed
<1>3. CASE InNodes(s, o)
  <2> DEFINE i == IdOf(o)
  <2>1. i \in Id /\ o # NoObject
    BY ObjectFacts
  <2>2. /\ r.table = [s.table EXCEPT ![i] = NoObject] /\ r.nodes = Unlinked(s.nodes, o)
        /\ r.hinted = s.hinted /\ r.pings = s.pings /\ r.checks = s.checks
        /\ r.repinging = s.repinging /\ r.seen = s.seen /\ r.pinged = s.pinged
        /\ r.added = s.added
    BY <1>1, <1>3 DEF Removed, State
  <2> DEFINE q == s.nodes
             u == r.nodes
  <2> HIDE DEF q, u
  <2>3. q \in Seq(Object) /\ IsInjective(q) /\ u = Unlinked(q, o)
    BY <1>1, <2>2, Fields DEF Listed, q, u
  <2>4. u \in Seq(Object)
    BY <2>3, UnlinkedIs
  <2>5. IsInjective(u)
    BY <2>3, UnlinkedIs
  <2>6. ToSet(u) = ToSet(q) \ {o}
    BY <2>3, UnlinkedIs
  <2>7. \A a, b \in DOMAIN u : a < b =>
            \E x, y \in DOMAIN q : x < y /\ u[a] = q[x] /\ u[b] = q[y]
    BY <2>3, UnlinkedIs
  <2>8. InOrder(r)
    <3>1. \A x, y \in DOMAIN q : x < y => s.seen[q[x]] <= s.seen[q[y]]
      BY <1>1 DEF InOrder, q
    <3>2. \A a, b \in DOMAIN u : a < b => s.seen[u[a]] <= s.seen[u[b]]
      BY <2>7, <3>1
    <3> QED
      BY <2>2, <3>2 DEF InOrder, u
  <2> HIDE DEF i
  <2>9. r \in State
    <3>1. r.table \in [Id -> Object \cup {NoObject}]
      BY <1>1, <2>1, <2>2, Fields
    <3>2. r = [s EXCEPT !.table = r.table, !.nodes = r.nodes]
      BY <1>1, <1>3 DEF Removed, State
    <3> QED
      BY <1>1, <2>4, <3>1, <3>2 DEF State, u
  <2>10. Timed(r, t) /\ Counted(r) /\ Captured(r, t)
    BY <1>1, <2>2 DEF Timed, Counted, Captured
  <2>11. Listed(r)
    <3>1. s.table \in [Id -> Object \cup {NoObject}] /\ K \in Nat
      BY <1>1, Fields, RoutingTableAssumption
    <3>2. \A j \in Id : r.table[j] = IF j = i THEN NoObject ELSE s.table[j]
      BY <2>2, <3>1
    <3>3. \A j \in Id : s.table[j] # NoObject => IdOf(s.table[j]) = j
      BY <1>1 DEF Listed
    <3>4. Row(r) \subseteq Row(s)
      BY <3>2 DEF Row
    <3>5. o \notin Row(r)
      BY <2>1, <3>2, <3>3 DEF Row, i
    <3>6. Row(r) \subseteq ToSet(u)
      BY <1>1, <2>6, <3>4, <3>5 DEF Listed, q
    <3>7. IsFiniteSet(Row(s)) /\ Cardinality(Row(s)) <= K
      BY <1>1 DEF Listed
    <3>8. /\ IsFiniteSet(Row(r)) /\ Cardinality(Row(r)) <= Cardinality(Row(s))
          /\ Cardinality(Row(r)) \in Nat /\ Cardinality(Row(s)) \in Nat
      BY <3>4, <3>7, FS_Subset, FS_CardinalityType
    <3>9. Cardinality(Row(r)) <= K
      BY <3>1, <3>7, <3>8
    <3>10. \A j \in Id : r.table[j] # NoObject => IdOf(r.table[j]) = j
      BY <3>2, <3>3
    <3> QED
      BY <2>5, <3>6, <3>8, <3>9, <3>10 DEF Listed, u
  <2> QED
    BY <2>8, <2>9, <2>10, <2>11 DEF Good
<1> QED
  BY <1>2, <1>3

\* The end of a ping gives back what it had counted.
LEMMA SettleKeeps ==
    ASSUME NEW t \in Nat, NEW s, Good(s, t), NEW k \in DOMAIN s.pings,
           NEW r, r = Settle(s, k)
    PROVE  Good(r, t) /\ r.seen = s.seen /\ r.nodes = s.nodes
<1>1. /\ s \in State /\ Timed(s, t) /\ Listed(s) /\ InOrder(s) /\ Counted(s)
      /\ Captured(s, t)
  BY DEF Good
<1> DEFINE q == s.pings
           u == r.pings
           swap == q[k].kind = "swap"
<1>2. /\ r.table = s.table /\ r.nodes = s.nodes /\ r.seen = s.seen /\ r.added = s.added
      /\ r.hinted = s.hinted /\ r.pinged = s.pinged /\ u = RemoveAt(q, k)
      /\ swap => r.checks = s.checks /\ r.repinging = s.repinging - 1
      /\ ~swap => r.checks = s.checks - 1 /\ r.repinging = s.repinging
      /\ r = [s EXCEPT !.pings = r.pings, !.checks = r.checks, !.repinging = r.repinging]
  BY <1>1 DEF Settle, State
<1>3. q \in Seq(Ping) /\ k \in 1..Len(q) /\ q[k] \in Ping
  BY <1>1, Fields, LenProperties, ElementOfSeq
<1> HIDE DEF q, u
<1>4. q \in Seq(Ping) /\ k \in 1..Len(q) /\ u = RemoveAt(q, k)
  BY <1>2, <1>3
<1>5. /\ u \in Seq(Ping) /\ Len(u) = Len(q) - 1
      /\ \A j \in 1..Len(u) : u[j] = IF j < k THEN q[j] ELSE q[j + 1]
  BY <1>4, RemoveAtIs
<1>6. ASSUME NEW kinds
      PROVE  /\ CountIn(q, kinds) \in Nat /\ CountIn(u, kinds) \in Nat
             /\ q[k].kind \in kinds => CountIn(u, kinds) = CountIn(q, kinds) - 1
             /\ q[k].kind \notin kinds => CountIn(u, kinds) = CountIn(q, kinds)
  <2>1. CountIn(q, kinds) \in Nat
    BY <1>4, CountIsNat
  <2>2. CountIn(u, kinds) \in Nat
    BY <1>5, CountIsNat
  <2>3. q[k].kind \in kinds => CountIn(u, kinds) = CountIn(q, kinds) - 1
    BY <1>4, CountRemoveAt
  <2>4. q[k].kind \notin kinds => CountIn(u, kinds) = CountIn(q, kinds)
    BY <1>4, CountRemoveAt
  <2> QED
    BY <2>1, <2>2, <2>3, <2>4
<1>7. /\ s.checks = CountIn(q, {"oldest", "hint"}) /\ s.repinging = CountIn(q, {"swap"})
      /\ s.repinging <= MaxRepings /\ MaxRepings \in Nat
  BY <1>1, RoutingTableAssumption DEF Counted, q
<1>8. q[k].kind \in {"oldest", "hint", "swap"}
  BY <1>3 DEF Ping
<1>9. r.checks = CountIn(u, {"oldest", "hint"})
  BY <1>2, <1>6, <1>7, <1>8
<1>10. r.repinging = CountIn(u, {"swap"})
  BY <1>2, <1>6, <1>7, <1>8
<1>11. r.checks \in Nat /\ r.repinging \in Nat
  BY <1>6, <1>9, <1>10
<1>12. r.repinging <= MaxRepings
  <2>1. s.repinging \in Nat
    BY <1>1, Fields
  <2> QED
    BY <1>2, <1>7, <1>11, <2>1
<1>13. Counted(r)
  BY <1>9, <1>10, <1>12 DEF Counted, u
<1>14. r \in State
  BY <1>1, <1>2, <1>5, <1>11 DEF State, u
<1>15. Timed(r, t) /\ Listed(r) /\ InOrder(r)
  BY <1>1, <1>2 DEF Timed, Listed, InOrder, Row
<1>16. Captured(r, t)
  <2> SUFFICES ASSUME NEW j \in DOMAIN u PROVE CapturedBy(u[j], t)
    BY DEF Captured, u
  <2>1. j \in 1..Len(u) /\ Len(q) \in Nat
    BY <1>3, <1>5, LenProperties
  <2>2. \E i \in 1..Len(q) : u[j] = q[i]
    <3>1. j \in 1..Len(q) /\ j + 1 \in 1..Len(q)
      BY <1>5, <2>1
    <3> QED
      BY <1>5, <2>1, <3>1
  <2>3. \A i \in 1..Len(q) : CapturedBy(q[i], t)
    BY <1>1, <1>3, LenProperties DEF Captured, q
  <2> QED
    BY <2>2, <2>3
<1> QED
  BY <1>2, <1>13, <1>14, <1>15, <1>16 DEF Good

\* Which nodes are hinted matters to no other part.
LEMMA HintedKeeps ==
    ASSUME NEW t \in Nat, NEW s, Good(s, t), NEW h \in SUBSET Object,
           NEW r, r = [s EXCEPT !.hinted = h]
    PROVE  Good(r, t) /\ r.pings = s.pings /\ r.seen = s.seen /\ r.repinging = s.repinging
<1>1. /\ s \in State /\ Timed(s, t) /\ Listed(s) /\ InOrder(s) /\ Counted(s)
      /\ Captured(s, t)
  BY DEF Good
<1>2. /\ r \in State /\ r.table = s.table /\ r.nodes = s.nodes /\ r.seen = s.seen
      /\ r.pinged = s.pinged /\ r.added = s.added /\ r.pings = s.pings
      /\ r.checks = s.checks /\ r.repinging = s.repinging
  BY <1>1 DEF State
<1> QED
  BY <1>1, <1>2 DEF Good, Timed, Listed, InOrder, Counted, Captured, Row

\* A message with an id refreshes the node or adds a new one.
LEMMA HeardKeeps ==
    ASSUME tick \in Nat, NEW s, Good(s, tick), NEW i \in Id, NEW r \in Heard(s, i)
    PROVE  Good(r, tick) /\ DOMAIN s.pings \subseteq DOMAIN r.pings
<1>1. s \in State /\ Listed(s)
  BY DEF Good
<1>2. CASE s.table[i] # NoObject
  <2>1. s.table[i] \in Object /\ InNodes(s, s.table[i]) /\ r = Refreshed(s, s.table[i])
    BY <1>1, <1>2, Fields DEF Heard, Listed, Row, InNodes
  <2>2. Good(r, tick) /\ r.pings = s.pings
    BY <2>1, RefreshedKeeps
  <2> QED
    BY <2>2
<1>3. CASE s.table[i] = NoObject
  <2>1. PICK o \in Fresh(s, i) : r \in Added([s EXCEPT !.hinted = @ \ {o}], o)
    BY <1>3 DEF Heard
  <2> DEFINE h == s.hinted \ {o}
             u == [s EXCEPT !.hinted = h]
  <2>2. o \in Object /\ h \in SUBSET Object /\ r \in Added(u, o)
    BY <1>1, <2>1, Fields DEF Fresh
  <2> HIDE DEF h
  <2>3. Good(u, tick)
    BY <2>2, HintedKeeps
  <2>4. u.pings = s.pings
    BY <1>1 DEF State
  <2> HIDE DEF u
  <2>5. Good(r, tick) /\ DOMAIN u.pings \subseteq DOMAIN r.pings
    BY <2>2, <2>3, AddedKeeps
  <2> QED
    BY <2>4, <2>5
<1> QED
  BY <1>2, <1>3

\* A swap takes the old node out and adds the newcomer.
LEMMA SwappedKeeps ==
    ASSUME tick \in Nat, NEW s, Good(s, tick), NEW p, p.node \in Object, p.new \in Object,
           NEW r \in Swapped(s, p)
    PROVE  Good(r, tick)
<1> DEFINE u == Removed(s, p.node)
<1>1. Good(u, tick)
  BY RemovedKeeps
<1>2. r \in Added(u, p.new)
  BY DEF Swapped
<1> HIDE DEF u
<1> QED
  BY <1>1, <1>2, AddedKeeps

\* A set of numbers from 0 up to some bound, with everything below each, has a largest.
LEMMA LargestIs ==
    ASSUME NEW hi \in Nat, NEW S \in SUBSET (0..hi), 0 \in S,
           \A n \in S : \A m \in 0..n : m \in S
    PROVE  \E n \in S : \A j \in S : j <= n
<1> DEFINE c == Cardinality(S)
<1>1. IsFiniteSet(S) /\ c \in Nat
  <2>1. 0 \in Int /\ hi \in Int
    OBVIOUS
  <2>2. IsFiniteSet(0..hi)
    BY <2>1, FS_Interval
  <2> QED
    BY <2>2, FS_Subset, FS_CardinalityType
<1>2. c # 0
  BY <1>1, FS_EmptySet
<1>3. \A n \in Nat : IsFiniteSet(0..n) /\ Cardinality(0..n) = n + 1
  <2> SUFFICES ASSUME NEW n \in Nat PROVE IsFiniteSet(0..n) /\ Cardinality(0..n) = n + 1
    OBVIOUS
  <2>1. 0 \in Int /\ n \in Int /\ ~(0 > n)
    OBVIOUS
  <2>2. IsFiniteSet(0..n) /\ Cardinality(0..n) = IF 0 > n THEN 0 ELSE n - 0 + 1
    BY <2>1, FS_Interval
  <2> QED
    BY <2>1, <2>2
<1> HIDE DEF c
<1>4. c \notin S
  <2> SUFFICES ASSUME c \in S PROVE FALSE
    OBVIOUS
  <2>1. 0..c \subseteq S
    OBVIOUS
  <2>2. Cardinality(0..c) <= c
    BY <1>1, <2>1, FS_Subset DEF c
  <2> QED
    BY <1>1, <1>3, <2>2
<1>5. \A j \in S : j <= c - 1
  <2> SUFFICES ASSUME NEW j \in S, ~(j <= c - 1) PROVE FALSE
    OBVIOUS
  <2>1. c \in 0..j
    BY <1>1
  <2> QED
    BY <1>4, <2>1
<1>6. c - 1 \in S
  <2> SUFFICES ASSUME c - 1 \notin S PROVE FALSE
    OBVIOUS
  <2>1. c - 1 \in Nat /\ c - 1 # 0
    BY <1>1, <1>2
  <2>2. c - 2 \in Nat
    BY <1>1, <1>2, <2>1
  <2>3. \A j \in S : j \in 0..c - 2
    BY <1>1, <1>5
  <2> DEFINE m == c - 2
  <2>4. IsFiniteSet(0..m) /\ Cardinality(0..m) = m + 1 /\ S \subseteq 0..m
    BY <1>3, <2>2, <2>3
  <2> HIDE DEF m
  <2>5. c <= Cardinality(0..m)
    BY <2>4, FS_Subset DEF c
  <2> QED
    BY <1>1, <2>4, <2>5 DEF m
<1> QED
  BY <1>5, <1>6

\* Nothing but the tick moves on.
LEMMA LaterKeeps ==
    ASSUME tick \in Nat, NEW s, Good(s, tick), NEW t \in Nat, t > tick
    PROVE  Good(s, t)
<1>1. s \in State /\ Timed(s, tick) /\ Captured(s, tick) /\ s.pings \in Seq(Ping)
  BY Fields DEF Good
<1>2. \A o \in Object : s.pinged[o] \in Nat /\ s.added[o] \in Nat
  BY <1>1, Fields
<1>3. Timed(s, t)
  BY <1>1, <1>2 DEF Timed
<1>4. \A k \in DOMAIN s.pings : s.pings[k].lastSeen \in Nat
  <2>1. \A k \in DOMAIN s.pings : s.pings[k] \in Ping
    BY <1>1, ElementOfSeq, LenProperties
  <2> QED
    BY <2>1 DEF Ping
<1>5. Captured(s, t)
  BY <1>1, <1>4 DEF Captured, CapturedBy
<1> QED
  BY <1>3, <1>5 DEF Good

\* The oldest nodes are pinged, as many as the loop gets to.
LEMMA PingSomeKeeps ==
    ASSUME tick \in Nat, NEW s, Good(s, tick), NEW t \in Nat, t > tick, NEW c \in Nat,
           NEW r, r = PingSome(s, t, c)
    PROVE  Good(r, t)
<1> DEFINE most == IF s.nodes # <<>> /\ t - s.pinged[Head(s.nodes)] < RecentNode
                   THEN 2 ELSE c
           last == {n \in 0..Len(s.nodes) :
                       n <= most /\ \A j \in 1..n : s.pinged[s.nodes[j]] # t}
           n    == CHOOSE m \in last : \A j \in last : j <= m
           now  == {s.nodes[j] : j \in 1..n}
           z    == [j \in 1..n |-> [kind |-> "oldest", node |-> s.nodes[j],
                                    lastSeen |-> s.seen[s.nodes[j]], new |-> NoObject]]
           f    == [o \in Object |-> IF o \in now THEN t ELSE s.pinged[o]]
<1>1. /\ s \in State /\ Timed(s, tick) /\ Listed(s) /\ InOrder(s) /\ Counted(s)
      /\ Captured(s, tick)
  BY DEF Good
<1>2. r = [s EXCEPT !.pinged = f, !.checks = @ + n, !.pings = @ \o z]
  BY <1>1 DEF PingSome, State
<1> HIDE DEF f
<1>3. most \in Nat
  OBVIOUS
<1> HIDE DEF most
<1>4. n \in last
  <2>1. last \in SUBSET (0..Len(s.nodes)) /\ Len(s.nodes) \in Nat
    BY <1>1, Fields, LenProperties
  <2>2. 0 \in last
    BY <1>3, <2>1
  <2>3. \A i \in last : \A m \in 0..i : m \in last
    BY <1>3, <2>1
  <2> HIDE DEF last
  <2> DEFINE hi == Len(s.nodes)
  <2>4. hi \in Nat /\ last \in SUBSET (0..hi)
    BY <2>1
  <2> HIDE DEF hi
  <2>5. \E m \in last : \A j \in last : j <= m
    BY <2>2, <2>3, <2>4, LargestIs
  <2> QED
    BY <2>5
<1>5. n \in Nat /\ n <= Len(s.nodes)
  BY <1>1, <1>4, Fields, LenProperties
<1> HIDE DEF n, last
<1>6. \A j \in 1..n : s.nodes[j] \in Object
  BY <1>1, <1>5, Fields, LenProperties, ElementOfSeq
<1>7. \A j \in 1..n : s.seen[s.nodes[j]] \in Nat /\ s.seen[s.nodes[j]] <= tick
  <2>1. \A o \in Object : s.seen[o] \in Nat /\ s.pinged[o] \in Nat
    BY <1>1, Fields
  <2> QED
    BY <1>1, <1>6, <2>1 DEF Timed
<1>8. \A j \in 1..n : /\ z[j] \in Ping /\ z[j].kind = "oldest" /\ CapturedBy(z[j], t)
  BY <1>6, <1>7 DEF Ping, CapturedBy
<1>9. z \in Seq(Ping) /\ Len(z) = n
  BY <1>5, <1>8
<1>10. f \in [Object -> Nat] /\ \A o \in Object : f[o] = t \/ f[o] = s.pinged[o]
  <2>1. s.pinged \in [Object -> Nat]
    BY <1>1, Fields
  <2> QED
    BY <2>1 DEF f
<1> HIDE DEF z, now
<1> DEFINE q == s.pings
           v == r.pings
<1>11. /\ r.table = s.table /\ r.nodes = s.nodes /\ r.seen = s.seen /\ r.added = s.added
       /\ r.hinted = s.hinted /\ r.pinged = f /\ r.checks = s.checks + n
       /\ r.repinging = s.repinging /\ v = q \o z
  BY <1>1, <1>2 DEF State
<1>12. q \in Seq(Ping)
  BY <1>1, Fields
<1> HIDE DEF q, v
<1>13. /\ q \in Seq(Ping) /\ z \in Seq(Ping) /\ v = q \o z
       /\ AllOfKind(z, "oldest")
  BY <1>8, <1>9, <1>11, <1>12 DEF AllOfKind
<1>14. /\ v \in Seq(Ping) /\ Len(v) = Len(q) + Len(z)
       /\ \A i \in 1..Len(q) + Len(z) : v[i] = IF i <= Len(q) THEN q[i] ELSE z[i - Len(q)]
  <2>1. /\ q \o z \in Seq(Ping) /\ Len(q \o z) = Len(q) + Len(z)
        /\ \A i \in 1..Len(q) + Len(z) :
              (q \o z)[i] = IF i <= Len(q) THEN q[i] ELSE z[i - Len(q)]
    BY <1>13, ConcatProperties
  <2> QED
    BY <1>13, <2>1
<1>15. r \in State
  <2>1. s.checks + n \in Nat
    BY <1>1, <1>5, Fields
  <2>2. r = [s EXCEPT !.pinged = r.pinged, !.checks = r.checks, !.pings = r.pings]
    BY <1>1, <1>2, <1>11 DEF State
  <2> QED
    BY <1>1, <1>10, <1>11, <1>14, <2>1, <2>2 DEF State, v
<1>16. Timed(r, t)
  <2>1. \A o \in Object : s.seen[o] \in Nat /\ s.pinged[o] \in Nat /\ s.added[o] \in Nat
    BY <1>1, Fields
  <2>2. \A o \in Object : s.seen[o] <= s.pinged[o] /\ s.pinged[o] <= t /\ s.added[o] <= t
                          /\ s.seen[o] <= t
    BY <1>1, <2>1 DEF Timed
  <2> QED
    BY <1>10, <1>11, <2>1, <2>2 DEF Timed
<1>17. Listed(r) /\ InOrder(r)
  BY <1>1, <1>11 DEF Listed, InOrder, Row
<1>18. Counted(r)
  <2>1. ASSUME NEW kinds
        PROVE  "oldest" \in kinds => CountIn(v, kinds) = CountIn(q, kinds) + Len(z)
    BY <1>13, CountConcat
  <2>2. ASSUME NEW kinds
        PROVE  "oldest" \notin kinds => CountIn(v, kinds) = CountIn(q, kinds)
    BY <1>13, CountConcat
  <2> QED
    BY <1>1, <1>9, <1>11, <2>1, <2>2 DEF Counted, q, v
<1>19. Captured(r, t)
  <2> SUFFICES ASSUME NEW j \in DOMAIN v PROVE CapturedBy(v[j], t)
    BY DEF Captured, v
  <2>1. j \in 1..Len(q) + Len(z) /\ Len(q) \in Nat /\ Len(z) \in Nat
    BY <1>13, <1>14, LenProperties
  <2>2. CASE j <= Len(q)
    <3>1. v[j] = q[j] /\ j \in DOMAIN q
      BY <1>13, <1>14, <2>1, <2>2, LenProperties
    <3>2. Good(s, t)
      BY LaterKeeps
    <3> QED
      BY <3>1, <3>2 DEF Good, Captured, q
  <2>3. CASE ~(j <= Len(q))
    <3>1. j - Len(q) \in 1..n /\ v[j] = z[j - Len(q)]
      BY <1>9, <1>14, <2>1, <2>3
    <3> QED
      BY <1>8, <3>1
  <2> QED
    BY <2>2, <2>3
<1> QED
  BY <1>15, <1>16, <1>17, <1>18, <1>19 DEF Good

-----------------------------------------------------------------------------
(* The invariant of the specification. *)

IInv ==
    /\ tick \in 0..MaxTick
    /\ Good(rt, tick)
    /\ evicted \subseteq {"hint"}

\* An empty table is as it should be.
LEMMA InitIInv == Init => IInv
<1> SUFFICES ASSUME Init PROVE IInv
  OBVIOUS
<1>1. /\ tick = 0 /\ evicted = {} /\ MaxTick \in Nat /\ MaxRepings \in Nat /\ K \in Nat
      /\ rt.table = [i \in Id |-> NoObject] /\ rt.nodes = <<>>
      /\ rt.seen = [o \in Object |-> 0] /\ rt.pinged = [o \in Object |-> 0]
      /\ rt.added = [o \in Object |-> 0] /\ rt.hinted = {} /\ rt.pings = <<>>
      /\ rt.checks = 0 /\ rt.repinging = 0
  BY RoutingTableAssumption DEF Init
<1>2. rt \in State
  BY DEF Init, State
<1>3. Timed(rt, tick) /\ InOrder(rt) /\ Captured(rt, tick)
  BY <1>1 DEF Timed, InOrder, Captured
<1>4. Row(rt) = {}
  BY <1>1 DEF Row
<1>5. IsFiniteSet({}) /\ Cardinality({}) = 0
  BY FS_EmptySet
<1>6. Listed(rt)
  BY <1>1, <1>4, <1>5 DEF Listed, IsInjective
<1>7. ASSUME NEW kinds PROVE CountIn(rt.pings, kinds) = 0
  <2>1. {k \in DOMAIN rt.pings : rt.pings[k].kind \in kinds} = {}
    BY <1>1
  <2> QED
    BY <1>5, <2>1 DEF CountIn
<1>8. Counted(rt)
  BY <1>1, <1>7 DEF Counted
<1> QED
  BY <1>1, <1>2, <1>3, <1>6, <1>8 DEF IInv, Good

\* The outcome of a ping that was answered.  Of one that is not about a hint, the node
\* that the table has stays: the answer itself refreshed it after the ping.
LEMMA AnswerKeeps ==
    ASSUME IInv, NEW k \in DOMAIN rt.pings, NEW withId \in BOOLEAN, Answer(k, withId)
    PROVE  IInv'
<1> DEFINE p == rt.pings[k]
           ids == IF withId THEN Heard(rt, IdOf(p.node)) ELSE {rt}
           end(s) == IF p.kind # "swap"
                     THEN {RemovedIfStale(Settle(s, k), p.node, p.lastSeen)}
                     ELSE IF s.seen[p.node] <= p.lastSeen THEN Swapped(Settle(s, k), p)
                     ELSE {Settle(s, k)}
<1>1. /\ tick \in Nat /\ tick' = tick /\ tick \in 0..MaxTick /\ Good(rt, tick)
      /\ rt \in State /\ Captured(rt, tick) /\ evicted \subseteq {"hint"}
      /\ rt' \in UNION {end(s) : s \in ids}
      /\ evicted' = IF withId /\ rt.table[IdOf(p.node)] = p.node /\ ~InNodes(rt', p.node)
                    THEN evicted \cup {p.kind} ELSE evicted
  BY RoutingTableAssumption DEF IInv, Good, Answer, Becomes
<1>2. p \in Ping /\ p.node \in Object /\ p.kind \in {"oldest", "hint", "swap"}
      /\ p.lastSeen \in Nat
  <2>1. p \in Ping
    BY <1>1, Fields, ElementOfSeq, LenProperties
  <2> QED
    BY <2>1 DEF Ping
<1>3. CapturedBy(p, tick) /\ IdOf(p.node) \in Id
  BY <1>1, <1>2, ObjectFacts DEF Captured
<1>4. PICK s \in ids : rt' \in end(s)
  BY <1>1
<1> HIDE DEF p
<1>5. Good(s, tick) /\ k \in DOMAIN s.pings
  BY <1>1, <1>3, <1>4, HeardKeeps
<1> DEFINE u == Settle(s, k)
<1>6. Good(u, tick) /\ u.seen = s.seen /\ u.nodes = s.nodes
  BY <1>1, <1>5, SettleKeeps
<1> HIDE DEF ids, u
<1>7. \/ rt' = u
      \/ rt' = Removed(u, p.node) /\ s.seen[p.node] <= p.lastSeen
      \/ /\ p.kind = "swap" /\ s.seen[p.node] <= p.lastSeen
         /\ rt' \in Swapped(u, p)
  BY <1>4, <1>6 DEF RemovedIfStale, u
<1> HIDE DEF end
<1>8. p.kind = "swap" => p.new \in Object
  BY <1>3 DEF CapturedBy
<1>9. Good(rt', tick)
  <2>1. CASE rt' = u
    BY <1>6, <2>1
  <2>2. CASE rt' = Removed(u, p.node)
    BY <1>1, <1>2, <1>6, <2>2, RemovedKeeps
  <2>3. CASE p.kind = "swap" /\ rt' \in Swapped(u, p)
    BY <1>1, <1>2, <1>6, <1>8, <2>3, SwappedKeeps
  <2> QED
    BY <1>7, <2>1, <2>2, <2>3
<1>10. evicted' \subseteq {"hint"}
  <2> SUFFICES ASSUME withId, rt.table[IdOf(p.node)] = p.node, ~InNodes(rt', p.node),
                      p.kind # "hint"
               PROVE  FALSE
    BY <1>1
  <2>1. rt.table[IdOf(p.node)] # NoObject /\ InNodes(rt, p.node)
    BY <1>1, <1>2, <1>3, ObjectFacts DEF Good, Listed, Row, InNodes
  <2>2. s = Refreshed(rt, p.node)
    BY <1>4, <2>1 DEF Heard, ids
  <2>3. s.seen[p.node] = tick /\ InNodes(s, p.node)
    BY <1>1, <1>2, <2>1, <2>2, RefreshedKeeps
  <2>4. ~(s.seen[p.node] <= p.lastSeen)
    BY <1>1, <1>2, <1>3, <2>3 DEF CapturedBy
  <2>5. rt' = u
    BY <1>7, <2>4
  <2> QED
    BY <1>6, <2>3, <2>5 DEF InNodes
<1> QED
  BY <1>1, <1>9, <1>10 DEF IInv

\* Every step keeps it.
LEMMA NextIInv == IInv /\ [Next]_vars => IInv'
<1> SUFFICES ASSUME IInv, [Next]_vars PROVE IInv'
  OBVIOUS
<1>1. /\ tick \in Nat /\ tick \in 0..MaxTick /\ MaxTick \in Nat /\ Good(rt, tick)
      /\ rt \in State /\ Captured(rt, tick) /\ evicted \subseteq {"hint"}
  BY RoutingTableAssumption DEF IInv, Good
<1>2. ASSUME NEW i \in Id, Hear(i) PROVE IInv'
  <2>1. rt' \in Heard(rt, i) /\ tick' = tick /\ evicted' = evicted
    BY <1>2 DEF Hear, Becomes
  <2>2. Good(rt', tick)
    BY <1>1, <2>1, HeardKeeps
  <2> QED
    BY <1>1, <2>1, <2>2 DEF IInv
<1>3. ASSUME NEW k \in DOMAIN rt.pings, NEW withId \in BOOLEAN, Answer(k, withId) PROVE IInv'
  BY <1>3, AnswerKeeps
<1>4. ASSUME NEW k \in DOMAIN rt.pings, Fail(k) PROVE IInv'
  <2> DEFINE p == rt.pings[k]
             u == Settle(rt, k)
  <2>1. /\ tick' = tick /\ evicted' = evicted
        /\ rt' \in IF p.kind = "swap" THEN Swapped(u, p) ELSE {Removed(u, p.node)}
    BY <1>4 DEF Fail, Becomes
  <2>2. p \in Ping
    BY <1>1, Fields, ElementOfSeq, LenProperties
  <2>3. p.node \in Object /\ (p.kind = "swap" => p.new \in Object)
    BY <1>1, <2>2 DEF Ping, Captured, CapturedBy
  <2>4. Good(u, tick)
    BY <1>1, SettleKeeps
  <2> HIDE DEF p, u
  <2>5. CASE p.kind = "swap"
    <3>1. Good(rt', tick)
      BY <1>1, <2>1, <2>3, <2>4, <2>5, SwappedKeeps
    <3> QED
      BY <1>1, <2>1, <3>1 DEF IInv
  <2>6. CASE p.kind # "swap"
    <3>1. Good(rt', tick)
      BY <1>1, <2>1, <2>3, <2>4, <2>6, RemovedKeeps
    <3> QED
      BY <1>1, <2>1, <3>1 DEF IInv
  <2> QED
    BY <2>5, <2>6
<1>5. ASSUME NEW i \in Id, Unreachable(i) PROVE IInv'
  <2>1. /\ rt.table[i] \in Object /\ rt' = Removed(rt, rt.table[i])
        /\ tick' = tick /\ evicted' = evicted
    BY <1>1, <1>5, Fields DEF Unreachable
  <2>2. Good(rt', tick)
    BY <1>1, <2>1, RemovedKeeps
  <2> QED
    BY <1>1, <2>1, <2>2 DEF IInv
<1>6. ASSUME NEW i \in Id, DownHint(i) PROVE IInv'
  <2> DEFINE o == rt.table[i]
             h == rt.hinted \cup {o}
             u == [rt EXCEPT !.hinted = h]
  <2>1. /\ o \in Object /\ rt' = Pinging(u, "hint", o, NoObject)
        /\ tick' = tick /\ evicted' = evicted
    BY <1>1, <1>6, Fields DEF DownHint, Becomes
  <2>2. h \in SUBSET Object
    BY <1>1, <2>1, Fields
  <2> HIDE DEF h, o
  <2>3. Good(u, tick)
    BY <1>1, <2>2, HintedKeeps
  <2> HIDE DEF u
  <2>4. Good(rt', tick)
    BY <1>1, <2>1, <2>3, PingingKeeps
  <2> QED
    BY <1>1, <2>1, <2>4 DEF IInv
<1>7. ASSUME Tick PROVE IInv'
  <2>1. tick' \in Nat /\ tick' > tick /\ tick' \in 0..MaxTick /\ evicted' = evicted
    BY <1>1, <1>7, RoutingTableAssumption DEF Tick, AfterWakeup
  <2>2. \/ \E c \in PingCounts : rt' = PingSome(rt, tick', c)
        \/ rt' = rt
    BY <1>7 DEF Tick, Becomes
  <2>3. Good(rt', tick')
    <3>1. ASSUME NEW c \in PingCounts, rt' = PingSome(rt, tick', c) PROVE Good(rt', tick')
      <4>1. c \in Nat
        BY RoutingTableAssumption
      <4> QED
        BY <1>1, <2>1, <3>1, <4>1, PingSomeKeeps
    <3>2. CASE rt' = rt
      BY <1>1, <2>1, <3>2, LaterKeeps
    <3> QED
      BY <2>2, <3>1, <3>2
  <2> QED
    BY <1>1, <2>1, <2>3 DEF IInv
<1>8. CASE UNCHANGED vars
  BY <1>1, <1>8 DEF vars, IInv
<1> QED
  BY <1>2, <1>3, <1>4, <1>5, <1>6, <1>7, <1>8 DEF Next

\* The table, the list and what the pings captured fit together in every state.
THEOREM Invariance == Spec => []IInv
BY InitIInv, NextIInv, PTL DEF Spec

\* Every variable keeps its type, and no time lies beyond the last tick.
THEOREM TypeCorrectness == Spec => []TypeOK
<1>1. IInv => TypeOK
  <2> SUFFICES ASSUME IInv PROVE TypeOK
    OBVIOUS
  <2>1. /\ rt \in State /\ Timed(rt, tick) /\ tick \in 0..MaxTick /\ MaxTick \in Nat
        /\ evicted \subseteq {"hint"}
    BY RoutingTableAssumption DEF IInv, Good
  <2>2. /\ rt.table \in [Id -> Object \cup {NoObject}] /\ rt.nodes \in Seq(Object)
        /\ rt.seen \in [Object -> Nat] /\ rt.pinged \in [Object -> Nat]
        /\ rt.added \in [Object -> Nat] /\ rt.hinted \subseteq Object
        /\ rt.pings \in Seq(Ping) /\ rt.checks \in Nat /\ rt.repinging \in Nat
    BY <2>1, Fields
  <2>3. /\ \A o \in Object : rt.seen[o] \in 0..MaxTick
        /\ \A o \in Object : rt.pinged[o] \in 0..MaxTick
        /\ \A o \in Object : rt.added[o] \in 0..MaxTick
    BY <2>1, <2>2 DEF Timed
  <2>4. /\ rt.seen \in [Object -> 0..MaxTick] /\ rt.pinged \in [Object -> 0..MaxTick]
        /\ rt.added \in [Object -> 0..MaxTick]
    BY <2>2, <2>3
  <2> QED
    BY <2>1, <2>2, <2>4 DEF TypeOK
<1> QED
  BY <1>1, Invariance, PTL

\* The two counters of pings are what is outstanding, in every order of outcomes.
THEOREM CountersStayRight == Spec => []CountersMatch
<1>1. IInv => CountersMatch
  BY DEF IInv, Good, Counted, CountersMatch, CountOf, CountIn
<1> QED
  BY <1>1, Invariance, PTL

\* Every node of the table is in the list, once, and the row is never overfull.
THEOREM ListsAgree == Spec => []SameNodes
<1>1. IInv => SameNodes
  BY DEF IInv, Good, Listed, SameNodes
<1> QED
  BY <1>1, Invariance, PTL

\* The front of the list is what has been silent longest.
THEOREM OrderIsKept == Spec => []OldestFirst
<1>1. IInv => OldestFirst
  BY DEF IInv, Good, InOrder, OldestFirst
<1> QED
  BY <1>1, Invariance, PTL

\* Answering a ping of the node's own accord, with its id, costs no node its place.
THEOREM AnswersKeepPlaces == Spec => []AnswerKeepsPlace
<1>1. IInv => AnswerKeepsPlace
  BY DEF IInv, AnswerKeepsPlace
<1> QED
  BY <1>1, Invariance, PTL
=============================================================================
