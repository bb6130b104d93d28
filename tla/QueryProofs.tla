----------------------------- MODULE QueryProofs -----------------------------
(***************************************************************************)
(* Theorems about Query, for every number of nodes, k, concurrency, list   *)
(* and table.  The handlers compose operators on the state s = q, so the   *)
(* invariant is a conjunction of predicates on s, and each operator is     *)
(* shown to keep them.                                                     *)
(***************************************************************************)
EXTENDS Query, SequenceTheorems, FiniteSetTheorems, TLAPS

-----------------------------------------------------------------------------
(* Finite sets of positions. *)

\* How many numbers an interval has.
LEMMA IntervalIs ==
    ASSUME NEW i \in Int, NEW j \in Int
    PROVE  /\ IsFiniteSet(i..j)
           /\ i <= j => Cardinality(i..j) = j - i + 1
           /\ i > j => Cardinality(i..j) = 0
BY FS_Interval

\* The rank of a member of a finite set of numbers tells it from the others, and
\* every rank is that of a member.
LEMMA RankIs ==
    ASSUME NEW S \in SUBSET Nat, IsFiniteSet(S), NEW rank,
           rank = [n \in S |-> Cardinality({m \in S : m < n}) + 1]
    PROVE  /\ rank \in Injection(S, 1..Cardinality(S))
           /\ \A j \in 1..Cardinality(S) : \E n \in S : rank[n] = j
<1> DEFINE below(n) == {m \in S : m < n}
           c == Cardinality(S)
<1>1. c \in Nat
  BY FS_CardinalityType
<1>2. ASSUME NEW n \in S
      PROVE  /\ IsFiniteSet(below(n)) /\ Cardinality(below(n)) \in Nat
             /\ Cardinality(below(n)) + 1 \in 1..c /\ rank[n] = Cardinality(below(n)) + 1
  <2>1. below(n) \in SUBSET (S \ {n}) /\ n \in Nat
    OBVIOUS
  <2>2. IsFiniteSet(S \ {n}) /\ Cardinality(S \ {n}) = c - 1
    BY FS_RemoveElement
  <2> DEFINE B == below(n)
  <2>3. B \in SUBSET (S \ {n})
    BY <2>1
  <2> HIDE DEF B
  <2>4. IsFiniteSet(B) /\ Cardinality(B) <= c - 1 /\ Cardinality(B) \in Nat
    BY <2>2, <2>3, FS_Subset, FS_CardinalityType
  <2>5. Cardinality(B) + 1 \in 1..c
    BY <1>1, <2>4
  <2> QED
    BY <2>4, <2>5 DEF B
<1>3. ASSUME NEW m \in S, NEW n \in S, m < n
      PROVE  rank[m] < rank[n]
  <2> DEFINE A == below(m)
             B == below(n)
  <2>1. A \cup {m} \in SUBSET B /\ m \notin A
    <3>1. m \in Nat /\ n \in Nat /\ \A x \in S : x \in Nat
      OBVIOUS
    <3>2. \A x \in S : x < m => x < n
      BY <1>3, <3>1
    <3>3. ~(m < m)
      BY <3>1
    <3> QED
      BY <1>3, <3>2, <3>3
  <2>2. /\ IsFiniteSet(A) /\ Cardinality(A) \in Nat /\ rank[m] = Cardinality(A) + 1
        /\ IsFiniteSet(B) /\ Cardinality(B) \in Nat /\ rank[n] = Cardinality(B) + 1
    BY <1>2
  <2> HIDE DEF A, B
  <2>3. Cardinality(A \cup {m}) = Cardinality(A) + 1
    BY <2>1, <2>2, FS_AddElement
  <2>4. Cardinality(A \cup {m}) <= Cardinality(B)
    BY <2>1, <2>2, FS_Subset
  <2> QED
    BY <2>2, <2>3, <2>4
<1>4. rank \in [S -> 1..c]
  BY <1>2
<1> HIDE DEF c
<1>5. \A m, n \in S : rank[m] = rank[n] => m = n
  <2> SUFFICES ASSUME NEW m \in S, NEW n \in S, rank[m] = rank[n], m # n PROVE FALSE
    OBVIOUS
  <2>1. m < n \/ n < m
    OBVIOUS
  <2>2. rank[m] \in Int /\ rank[n] \in Int
    BY <1>1, <1>4
  <2> QED
    BY <1>3, <2>1, <2>2
<1>6. rank \in Injection(S, 1..c)
  BY <1>4, <1>5 DEF Injection, IsInjective
<1>7. IsFiniteSet(1..c) /\ Cardinality(1..c) = c
  BY <1>1, IntervalIs
<1>8. rank \in Surjection(S, 1..c)
  BY <1>6, <1>7, FS_Injection DEF c
<1> QED
  BY <1>6, <1>8 DEF Surjection, c

\* The numbers of a set in ascending order are all of them, each once.
LEMMA AscendingIs ==
    ASSUME NEW S \in SUBSET Nat, IsFiniteSet(S), NEW f, f = Ascending(S)
    PROVE  /\ f \in [1..Cardinality(S) -> S] /\ Cardinality(S) \in Nat
           /\ \A i, j \in 1..Cardinality(S) : f[i] = f[j] => i = j
           /\ \A n \in S : \E j \in 1..Cardinality(S) : f[j] = n
<1> DEFINE rank == [n \in S |-> Cardinality({m \in S : m < n}) + 1]
           c == Cardinality(S)
<1>1. c \in Nat
  BY FS_CardinalityType
<1>2. /\ rank \in Injection(S, 1..c)
      /\ \A j \in 1..c : \E n \in S : rank[n] = j
  BY RankIs
<1>3. \A n \in S : Cardinality({m \in S : m < n}) \in Int
  <2> SUFFICES ASSUME NEW n \in S PROVE Cardinality({m \in S : m < n}) \in Int
    OBVIOUS
  <2> DEFINE B == {m \in S : m < n}
  <2>1. B \in SUBSET S
    OBVIOUS
  <2> HIDE DEF B
  <2>2. Cardinality(B) \in Nat
    BY <2>1, FS_Subset, FS_CardinalityType
  <2> QED
    BY <2>2 DEF B
<1>4. ASSUME NEW j \in 1..c PROVE f[j] \in S /\ rank[f[j]] = j
  <2>1. PICK n \in S : rank[n] = j
    BY <1>2
  <2>2. Cardinality({m \in S : m < n}) = j - 1
    BY <1>1, <1>3, <2>1
  <2>3. f[j] = CHOOSE x \in S : Cardinality({m \in S : m < x}) = j - 1
    BY DEF Ascending
  <2>4. f[j] \in S /\ Cardinality({m \in S : m < f[j]}) = j - 1
    BY <2>2, <2>3
  <2> QED
    BY <1>1, <2>4
<1>5. f \in [1..c -> S]
  BY <1>4 DEF Ascending
<1>6. \A m, n \in S : rank[m] = rank[n] => m = n
  BY <1>2 DEF Injection, IsInjective
<1>7. \A n \in S : rank[n] \in 1..c
  BY <1>2 DEF Injection
<1> HIDE DEF rank, c
<1>8. \A i, j \in 1..c : f[i] = f[j] => i = j
  BY <1>4
<1>9. \A n \in S : \E j \in 1..c : f[j] = n
  BY <1>4, <1>6, <1>7
<1> QED
  BY <1>1, <1>5, <1>8, <1>9 DEF c

\* A set of positions with every later one is the end of the sequence.
LEMMA SuffixIs ==
    ASSUME NEW L \in Nat, NEW P \in SUBSET (1..L),
           \A i \in P : \A j \in i..L : j \in P
    PROVE  Cardinality(P) \in 0..L /\ P = L - Cardinality(P) + 1..L
<1> DEFINE c == Cardinality(P)
           d == L - c
<1>1. IsFiniteSet(1..L) /\ Cardinality(1..L) = L
  BY IntervalIs
<1>2. IsFiniteSet(P) /\ c \in Nat /\ c <= L
  BY <1>1, FS_Subset, FS_CardinalityType
<1>3. d \in Nat
  BY <1>2
<1>4. d \notin P
  <2> SUFFICES ASSUME d \in P PROVE FALSE
    OBVIOUS
  <2> HIDE DEF d
  <2>1. d..L \subseteq P /\ d <= L
    OBVIOUS
  <2>2. Cardinality(d..L) = L - d + 1
    BY <1>3, <2>1, IntervalIs
  <2>3. Cardinality(d..L) <= c
    BY <1>2, <2>1, FS_Subset
  <2> QED
    BY <1>2, <2>2, <2>3 DEF d
<1>5. P \subseteq d + 1..L
  <2> SUFFICES ASSUME NEW i \in P, i <= d PROVE FALSE
    BY <1>3
  <2> HIDE DEF d
  <2>1. d \in i..L
    BY <1>3, <1>2 DEF d
  <2> QED
    BY <1>4, <2>1
<1>6. IsFiniteSet(d + 1..L) /\ Cardinality(d + 1..L) = c
  <2> DEFINE e == d + 1
  <2>1. e \in Int /\ L \in Int /\ (e <= L => L - e + 1 = c) /\ (e > L => c = 0)
    BY <1>2
  <2> HIDE DEF e
  <2>2. IsFiniteSet(e..L) /\ Cardinality(e..L) = c
    <3> HIDE DEF c
    <3>1. IsFiniteSet(e..L) /\ (e <= L => Cardinality(e..L) = L - e + 1)
          /\ (e > L => Cardinality(e..L) = 0)
      BY <2>1, IntervalIs
    <3> QED
      BY <2>1, <3>1
  <2> QED
    BY <2>2 DEF e
<1> HIDE DEF d
<1>7. P = d + 1..L
  BY <1>5, <1>6, FS_Subset
<1> QED
  BY <1>2, <1>7 DEF d

\* Of the members of S that fewer than room others of M exceed there are no more
\* than room.
LEMMA RoomIs ==
    ASSUME NEW M \in SUBSET Nat, IsFiniteSet(M), NEW W \in SUBSET M, NEW room \in Nat,
           \A i \in W : Cardinality({j \in M : j > i}) < room
    PROVE  IsFiniteSet(W) /\ Cardinality(W) \in Nat /\ Cardinality(W) <= room
<1> DEFINE c == Cardinality(W)
<1>1. IsFiniteSet(W) /\ c \in Nat
  BY FS_Subset, FS_CardinalityType
<1>2. CASE c = 0
  BY <1>1, <1>2
<1>3. CASE c # 0
  <2> DEFINE rank == [n \in W |-> Cardinality({m \in W : m < n}) + 1]
  <2>1. 1 \in 1..Cardinality(W) /\ W \in SUBSET Nat
    BY <1>1, <1>3
  <2>2. \A j \in 1..Cardinality(W) : \E n \in W : rank[n] = j
    BY <1>1, <2>1, RankIs
  <2> HIDE DEF rank
  <2>3. PICK i \in W : rank[i] = 1
    BY <2>1, <2>2
  <2> DEFINE B == {m \in W : m < i}
             X == {j \in M : j > i}
  <2>4. B \in SUBSET W
    OBVIOUS
  <2>5. rank[i] = Cardinality(B) + 1
    BY DEF rank
  <2> HIDE DEF B
  <2>6. IsFiniteSet(B) /\ Cardinality(B) \in Nat
    BY <1>1, <2>4, FS_Subset, FS_CardinalityType
  <2>7. Cardinality(B) = 0
    BY <2>3, <2>5, <2>6
  <2>8. B = {}
    BY <2>6, <2>7, FS_EmptySet
  <2>9. W \ {i} \in SUBSET X
    BY <2>8 DEF B
  <2>10. Cardinality(X) < room /\ X \in SUBSET M
    OBVIOUS
  <2> HIDE DEF X
  <2>11. IsFiniteSet(X) /\ Cardinality(X) \in Nat
    BY <2>10, FS_Subset, FS_CardinalityType
  <2>12. Cardinality(W \ {i}) = c - 1
    BY <1>1, FS_RemoveElement
  <2>13. Cardinality(W \ {i}) <= Cardinality(X)
    BY <2>9, <2>11, FS_Subset
  <2> QED
    BY <1>1, <2>10, <2>11, <2>12, <2>13
<1> QED
  BY <1>1, <1>2, <1>3

-----------------------------------------------------------------------------
(* The inductive invariant.                                                *)

\* What a query is made of.
State ==
    [seen : [Node -> {"new", "open", "done", "down"}], refs : [Node -> SUBSET Node],
     pending : Seq(Node), fast : SUBSET Node, slow : SUBSET Node,
     inflight : Nat, slows : Nat, concurrency : {Concurrency, Background},
     successes : Nat, errors : Nat, closest : Seq(Node),
     slowdown : BOOLEAN, fromTable : BOOLEAN, commiting : BOOLEAN,
     phase : {"opening", "open", "ending", "destroying", "closed"},
     buffered : Nat, needsPush : BOOLEAN, commits : Nat, good : Nat,
     hinted : SUBSET (Node \X Node)]

Flight(s) == s.fast \cup s.slow

\* The nodes that wait are in the list once and were not asked, A being asked.
Waiting(s, A) ==
    /\ A \subseteq Node /\ Flight(s) \subseteq A
    /\ IsInjective(s.pending)
    /\ \A i \in DOMAIN s.pending : s.seen[s.pending[i]] = "open" /\ s.pending[i] \notin A
    /\ \A n \in Flight(s) : s.seen[n] = "open"
    /\ \A n \in A : s.seen[n] # "new"

\* The counters count; when requests are refused inflight may count too many.
Most == IF Slowed > Concurrency THEN Slowed ELSE Concurrency

Counts(s) ==
    /\ s.fast \cap s.slow = {} /\ s.slows = Cardinality(s.slow)
    /\ Cardinality(s.fast) <= Most
    /\ Cardinality(Flight(s)) <= s.inflight
    /\ ~gone => s.inflight = Cardinality(Flight(s))

\* ClosestKept of s, V being verified, whose nodes are done.
Kept(s, V) ==
    /\ V \subseteq Node /\ \A n \in V : s.seen[n] = "done"
    /\ ToSet(s.closest) \subseteq V
    /\ \A i, j \in DOMAIN s.closest : i < j => s.closest[i] < s.closest[j]
    /\ Len(s.closest) = (IF Cardinality(V) <= K THEN Cardinality(V) ELSE K)
    /\ \A n \in V \ ToSet(s.closest) : \A i \in DOMAIN s.closest : s.closest[i] < n
    /\ Len(s.closest) < K => V \subseteq ToSet(s.closest)

\* Who named an open node is remembered, and HintsMatch, M being Met.  A node that
\* was named and not taken up is not closer, so it never will be.
Told(s, M) ==
    /\ M \subseteq Node \X Node
    /\ \A m, n \in Node : <<m, n>> \in M /\ s.seen[n] = "new" => ~IsCloser(s, n)
    /\ \A n \in Node : s.seen[n] = "new" => s.refs[n] = {}
    /\ \A m, n \in Node : s.seen[n] = "open" => (m \in s.refs[n] <=> <<m, n>> \in M)
    /\ \A m, n \in Node : <<m, n>> \in s.hinted => <<m, n>> \in M /\ s.seen[n] = "down"
    /\ ~gone => \A m, n \in Node :
                   <<m, n>> \in M /\ s.seen[n] = "down" => <<m, n>> \in s.hinted

\* NoneSkipped of s.
Reached(s, A) ==
    /\ ~gone => \A n \in Node :
         s.seen[n] # "new" => n \in A \cup ToSet(s.pending) \/ ~IsCloser(s, n)
    /\ s.commiting => s.pending = <<>>

\* When a query may commit, and what an ending one must have committed.
Decided(s) ==
    /\ s.phase = "opening" => ~s.commiting /\ Flight(s) = {}
    /\ s.phase = "ending" => s.commiting
    /\ s.commits > 0 => s.commiting
    /\ s.phase = "ending" /\ opts.commit => s.commits = 0 /\ s.good > 0

Good(s, A, V, M) ==
    /\ s \in State
    /\ Waiting(s, A) /\ Counts(s) /\ Kept(s, V) /\ Told(s, M) /\ Reached(s, A) /\ Decided(s)

Names == named \subseteq Node \X Node \X BOOLEAN

IInv == opts \in Options /\ gone \in BOOLEAN /\ Names /\ Good(q, asked, verified, Met)

-----------------------------------------------------------------------------
(* The operators.                                                          *)

\* What the assumption says of each parameter.
LEMMA Parameters ==
    /\ N \in Nat /\ N # 0 /\ K \in Nat /\ K # 0 /\ HighWater \in Nat
    /\ Concurrency \in Nat /\ Background \in Nat /\ Slowed \in Nat
    /\ Background <= Concurrency
    /\ Most \in Nat /\ Slowed <= Most /\ Concurrency <= Most /\ Background <= Most
    /\ Node \in SUBSET Nat /\ IsFiniteSet(Node) /\ 0 \notin Node
<1>1. \A n \in {N, K, Concurrency, Background, Slowed, HighWater} : n \in Nat \ {0}
  BY QueryAssumption
<1>2. /\ N \in Nat \ {0} /\ K \in Nat \ {0} /\ HighWater \in Nat \ {0}
      /\ Concurrency \in Nat \ {0} /\ Background \in Nat \ {0} /\ Slowed \in Nat \ {0}
  BY <1>1
<1>3. Background <= Concurrency
  BY QueryAssumption
<1>4. IsFiniteSet(1..N)
  BY <1>2, IntervalIs
<1> QED
  BY <1>2, <1>3, <1>4 DEF Most, Node

\* A set of nodes or of positions is finite.
LEMMA NodesAreFinite ==
    ASSUME NEW S \in SUBSET Node
    PROVE  IsFiniteSet(S) /\ Cardinality(S) \in Nat
BY Parameters, FS_Subset, FS_CardinalityType

\* The members of a list.
LEMMA ListIs ==
    ASSUME NEW T, NEW list \in Seq(T)
    PROVE  /\ Len(list) \in Nat /\ DOMAIN list = 1..Len(list)
           /\ \A i \in 1..Len(list) : list[i] \in T
           /\ ToSet(list) \in SUBSET T
BY DEF ToSet

\* A set of natural numbers that is not empty has a least member.
LEMMA LeastIs ==
    ASSUME NEW S \in SUBSET Nat, IsFiniteSet(S), NEW x \in S
    PROVE  \E i \in S : \A j \in S : i <= j
<1> DEFINE rank == [n \in S |-> Cardinality({m \in S : m < n}) + 1]
           c == Cardinality(S)
<1>1. c \in Nat /\ c # 0
  BY FS_CardinalityType, FS_EmptySet
<1>2. \A j \in 1..Cardinality(S) : \E n \in S : rank[n] = j
  BY RankIs
<1>3. 1 \in 1..Cardinality(S)
  BY <1>1
<1> HIDE DEF rank
<1>4. PICK i \in S : rank[i] = 1
  BY <1>2, <1>3
<1> DEFINE B == {m \in S : m < i}
<1>5. rank[i] = Cardinality(B) + 1 /\ B \in SUBSET S
  BY DEF rank
<1> HIDE DEF B
<1>6. IsFiniteSet(B) /\ Cardinality(B) \in Nat
  BY <1>5, FS_Subset, FS_CardinalityType
<1>7. B = {}
  BY <1>4, <1>5, <1>6, FS_EmptySet
<1>8. \A j \in S : ~(j < i)
  BY <1>7 DEF B
<1> QED
  BY <1>8

\* What _addPending() takes up of a list: its new nodes that are closer, each once.
Fresh(s, list) == {n \in ToSet(list) : s.seen[n] = "new" /\ IsCloser(s, n)}

LEMMA NewIs ==
    ASSUME NEW s, NEW list \in Seq(Node), NEW at, at = Ascending(News(s, list)),
           NEW new, new = [j \in DOMAIN at |-> list[at[j]]]
    PROVE  new \in Seq(Node) /\ IsInjective(new) /\ ToSet(new) = Fresh(s, list)
<1> DEFINE P == News(s, list)
           c == Cardinality(P)
<1>1. Len(list) \in Nat /\ DOMAIN list = 1..Len(list)
  OBVIOUS
<1>2. P \in SUBSET (1..Len(list))
  BY <1>1 DEF News
<1>3. IsFiniteSet(1..Len(list))
  BY <1>1, IntervalIs
<1>4. IsFiniteSet(P) /\ P \in SUBSET Nat
  BY <1>1, <1>2, <1>3, FS_Subset
<1>5. /\ at \in [1..c -> P] /\ c \in Nat
      /\ \A i, j \in 1..c : at[i] = at[j] => i = j
      /\ \A n \in P : \E j \in 1..c : at[j] = n
  BY <1>4, AscendingIs
<1> HIDE DEF c
<1>6. \A i, j \in P : list[i] = list[j] => i = j
  <2> SUFFICES ASSUME NEW i \in P, NEW j \in P, list[i] = list[j], i < j PROVE FALSE
    BY <1>4
  <2>1. i \in Nat /\ j \in Nat /\ i >= 1
    BY <1>1, <1>2
  <2>2. i \in 1..j - 1
    BY <2>1
  <2> QED
    BY <2>2 DEF News
<1>7. DOMAIN at = 1..c /\ new = [j \in 1..c |-> list[at[j]]]
  BY <1>5
<1> HIDE DEF P
<1>8. \A j \in 1..c : list[at[j]] \in Node /\ at[j] \in P
  <2>1. \A i \in 1..Len(list) : list[i] \in Node
    OBVIOUS
  <2>2. \A j \in 1..c : at[j] \in P
    BY <1>5
  <2> QED
    BY <1>2, <2>1, <2>2
<1>9. new \in Seq(Node)
  BY <1>5, <1>7, <1>8
<1>10. IsInjective(new)
  BY <1>5, <1>6, <1>7, <1>8 DEF IsInjective
<1>11. ASSUME NEW n \in ToSet(new) PROVE n \in Fresh(s, list)
  <2>1. PICK j \in 1..c : n = list[at[j]]
    BY <1>7 DEF ToSet
  <2>2. at[j] \in DOMAIN list /\ s.seen[list[at[j]]] = "new" /\ IsCloser(s, list[at[j]])
    BY <1>8 DEF P, News
  <2> QED
    BY <2>1, <2>2 DEF Fresh, ToSet
<1>12. ASSUME NEW n \in Fresh(s, list) PROVE n \in ToSet(new)
  <2> DEFINE S == {i \in DOMAIN list : list[i] = n}
  <2>1. PICK k \in DOMAIN list : list[k] = n
    BY DEF Fresh, ToSet
  <2>2. S \in SUBSET (1..Len(list)) /\ S \in SUBSET Nat /\ k \in S
    BY <1>1, <2>1
  <2> HIDE DEF S
  <2>3. IsFiniteSet(S)
    BY <1>3, <2>2, FS_Subset
  <2>4. PICK i \in S : \A j \in S : i <= j
    BY <2>2, <2>3, LeastIs
  <2>5. i \in DOMAIN list /\ list[i] = n
    BY DEF S
  <2>6. \A j \in 1..i - 1 : list[j] # list[i]
    <3> SUFFICES ASSUME NEW j \in 1..i - 1, list[j] = list[i] PROVE FALSE
      OBVIOUS
    <3>1. j \in S /\ j < i
      BY <1>1, <2>5 DEF S
    <3> QED
      BY <1>1, <2>2, <2>4, <3>1
  <2>7. i \in P
    BY <2>5, <2>6 DEF P, News, Fresh
  <2>8. PICK j \in 1..c : at[j] = i
    BY <1>5, <2>7
  <2>9. new[j] = n /\ j \in DOMAIN new
    BY <1>7, <2>5, <2>8
  <2> QED
    BY <2>9 DEF ToSet
<1> QED
  BY <1>9, <1>10, <1>11, <1>12

\* Two lists behind each other.
LEMMA ConcatIs ==
    ASSUME NEW T, NEW x \in Seq(T), NEW y \in Seq(T)
    PROVE  /\ ToSet(x \o y) = ToSet(x) \cup ToSet(y)
           /\ IsInjective(x) /\ IsInjective(y) /\ ToSet(x) \cap ToSet(y) = {}
              => IsInjective(x \o y)
<1> DEFINE k == Len(x)
           l == Len(y)
           z == x \o y
<1>1. /\ k \in Nat /\ l \in Nat /\ DOMAIN x = 1..k /\ DOMAIN y = 1..l
      /\ DOMAIN z = 1..k + l /\ z \in Seq(T)
      /\ \A i \in 1..k : z[i] = x[i] /\ x[i] \in ToSet(x)
      /\ \A i \in 1..k + l : i > k => z[i] = y[i - k] /\ i - k \in 1..l
      /\ \A i \in 1..l : z[k + i] = y[i] /\ k + i \in 1..k + l /\ y[i] \in ToSet(y)
  BY DEF ToSet
<1> HIDE DEF k, l, z
<1>2. ToSet(z) = ToSet(x) \cup ToSet(y)
  <2>1. ASSUME NEW i \in 1..k + l PROVE z[i] \in ToSet(x) \cup ToSet(y)
    <3>1. i <= k => i \in 1..k
      BY <1>1
    <3> QED
      BY <1>1, <3>1
  <2>2. ASSUME NEW i \in 1..k PROVE x[i] \in ToSet(z)
    <3>1. i \in 1..k + l
      BY <1>1
    <3> QED
      BY <1>1, <3>1 DEF ToSet
  <2>3. ASSUME NEW i \in 1..l PROVE y[i] \in ToSet(z)
    BY <1>1 DEF ToSet
  <2>4. ToSet(z) \subseteq ToSet(x) \cup ToSet(y)
    BY <1>1, <2>1 DEF ToSet
  <2>5. ToSet(x) \subseteq ToSet(z) /\ ToSet(y) \subseteq ToSet(z)
    BY <1>1, <2>2, <2>3 DEF ToSet
  <2> QED
    BY <2>4, <2>5
<1>3. ASSUME IsInjective(x), IsInjective(y), ToSet(x) \cap ToSet(y) = {} PROVE IsInjective(z)
  <2> SUFFICES ASSUME NEW i \in 1..k + l, NEW j \in 1..k + l, z[i] = z[j] PROVE i = j
    BY <1>1 DEF IsInjective
  <2>1. CASE i <= k /\ j <= k
    <3>1. i \in 1..k /\ j \in 1..k
      BY <1>1, <2>1
    <3> QED
      BY <1>1, <1>3, <3>1 DEF IsInjective
  <2>2. CASE i > k /\ j > k
    <3>1. y[i - k] = y[j - k] /\ i - k \in 1..l /\ j - k \in 1..l
      BY <1>1, <2>2
    <3>2. i - k = j - k
      BY <1>1, <1>3, <3>1 DEF IsInjective
    <3> QED
      BY <1>1, <3>2
  <2>3. \A a \in 1..k, b \in 1..k + l : b > k => z[a] # z[b]
    <3> SUFFICES ASSUME NEW a \in 1..k, NEW b \in 1..k + l, b > k PROVE z[a] # z[b]
      OBVIOUS
    <3>1. z[a] \in ToSet(x)
      BY <1>1
    <3>2. z[b] \in ToSet(y)
      BY <1>1
    <3> QED
      BY <1>3, <3>1, <3>2
  <2>4. (i <= k => i \in 1..k) /\ (j <= k => j \in 1..k)
    BY <1>1
  <2> QED
    BY <1>1, <2>1, <2>2, <2>3, <2>4
<1> QED
  BY <1>2, <1>3 DEF z

\* All that the invariant reads and _addPending() leaves alone.
Alike(r, s) ==
    /\ r.fast = s.fast /\ r.slow = s.slow /\ r.inflight = s.inflight /\ r.slows = s.slows
    /\ r.closest = s.closest /\ r.commiting = s.commiting /\ r.phase = s.phase
    /\ r.commits = s.commits /\ r.good = s.good

Known(s, list, state) == {n \in ToSet(list) : s.seen[n] = state}

\* A loop of _addPending(), field by field.
Took(r, s, list, ref) ==
    /\ r \in State /\ Alike(r, s)
    /\ \E new \in Seq(Node) : /\ IsInjective(new) /\ ToSet(new) = Fresh(s, list)
                              /\ r.pending = s.pending \o new
    /\ r.seen = [n \in Node |-> IF n \in Fresh(s, list) THEN "open" ELSE s.seen[n]]
    /\ r.refs = [n \in Node |-> IF n \in Fresh(s, list) \cup Known(s, list, "open")
                                THEN s.refs[n] \cup ({ref} \ {0}) ELSE s.refs[n]]
    /\ r.hinted = s.hinted \cup Hints(({ref} \ {0}) \X Known(s, list, "down"))

LEMMA AddAllIs ==
    ASSUME NEW s \in State, NEW list \in Seq(Node), NEW ref \in Node \cup {0},
           ~opts.onlyClosest, NEW r, r = AddAll(s, list, ref)
    PROVE  Took(r, s, list, ref)
<1> DEFINE at == Ascending(News(s, list))
           new == [j \in DOMAIN at |-> list[at[j]]]
           F == Fresh(s, list)
           open == Known(s, list, "open")
           down == Known(s, list, "down")
           T == TakenUp(s, list, ref)
           seen1 == [n \in Node |-> IF n \in F THEN "open" ELSE s.seen[n]]
           refs1 == [n \in Node |-> IF n \in F \cup open
                                    THEN s.refs[n] \cup ({ref} \ {0}) ELSE s.refs[n]]
           hint1 == s.hinted \cup Hints(({ref} \ {0}) \X down)
           pend1 == s.pending \o new
<1>1. new \in Seq(Node) /\ IsInjective(new) /\ ToSet(new) = F
  BY NewIs
<1>2. T = [s EXCEPT !.seen = seen1, !.refs = refs1, !.pending = pend1]
  BY <1>1 DEF TakenUp, State, Known
<1>3. r = [T EXCEPT !.hinted = @ \cup Hints(({ref} \ {0}) \X down)]
  BY DEF AddAll, Known
<1>4. open \in SUBSET Node /\ down \in SUBSET Node /\ F \in SUBSET Node
      /\ {ref} \ {0} \in SUBSET Node
  BY ListIs DEF Known, Fresh
<1> HIDE DEF at, new, F, open, down, T
<1>5. /\ seen1 \in [Node -> {"new", "open", "done", "down"}]
      /\ refs1 \in [Node -> SUBSET Node]
      /\ hint1 \in SUBSET (Node \X Node)
      /\ pend1 \in Seq(Node)
  BY <1>1, <1>4 DEF State, Hints
<1> HIDE DEF seen1, refs1, hint1, pend1
<1>6. T \in State /\ Alike(T, s) /\ T.seen = seen1 /\ T.refs = refs1 /\ T.pending = pend1
      /\ T.hinted = s.hinted
  BY <1>2, <1>5 DEF State, Alike
<1>7. r = [T EXCEPT !.hinted = hint1]
  BY <1>3, <1>6 DEF hint1
<1>8. r \in State /\ Alike(r, T) /\ r.seen = seen1 /\ r.refs = refs1 /\ r.pending = pend1
      /\ r.hinted = hint1
  BY <1>5, <1>6, <1>7 DEF State, Alike
<1>9. Alike(r, s)
  BY <1>6, <1>8 DEF Alike
<1> QED
  BY <1>1, <1>8, <1>9 DEF Took, F, open, down, seen1, refs1, hint1, pend1

\* The nodes taken up are the only ones whose state changes.
Grown(r, s) ==
    \A n \in Node : \/ r.seen[n] = s.seen[n]
                    \/ s.seen[n] = "new" /\ r.seen[n] = "open" /\ IsCloser(s, n)

\* What Answer() adds to Met when ref names list.
NamedBy(list, ref) == IF opts.onlyClosest THEN {} ELSE ({ref} \ {0}) \X ToSet(list)

\* Taking up a list keeps the invariant: new nodes wait and were not asked, and
\* ref is remembered with the nodes that are open and told of those that are down.
LEMMA AddAllKeeps ==
    ASSUME NEW s, NEW A, NEW V, NEW M, Good(s, A, V, M), ~s.commiting,
           NEW list \in Seq(Node), NEW ref \in Node \cup {0}, NEW r, r = AddAll(s, list, ref)
    PROVE  Good(r, A, V, M \cup NamedBy(list, ref)) /\ Alike(r, s) /\ Grown(r, s)
<1>1. CASE opts.onlyClosest
  <2>1. r = s /\ NamedBy(list, ref) = {}
    BY <1>1 DEF AddAll, NamedBy
  <2>2. M \cup NamedBy(list, ref) = M
    BY <2>1
  <2> QED
    BY <2>1, <2>2 DEF Alike, Grown
<1>2. CASE ~opts.onlyClosest
  <2>1. s \in State /\ Waiting(s, A) /\ Counts(s) /\ Kept(s, V) /\ Told(s, M)
        /\ Reached(s, A) /\ Decided(s)
    BY DEF Good
  <2>2. s \in State
    BY <2>1
  <2>3. Took(r, s, list, ref)
    BY <1>2, <2>2, AddAllIs
  <2> DEFINE F == Fresh(s, list)
             open == Known(s, list, "open")
             down == Known(s, list, "down")
             by == {ref} \ {0}
             M1 == M \cup NamedBy(list, ref)
  <2>4. r \in State /\ Alike(r, s)
    BY <2>3 DEF Took
  <2>5. PICK new \in Seq(Node) : /\ IsInjective(new) /\ ToSet(new) = F
                                 /\ r.pending = s.pending \o new
    BY <2>3 DEF Took
  <2>6. r.seen = [n \in Node |-> IF n \in F THEN "open" ELSE s.seen[n]]
    BY <2>3 DEF Took
  <2>7. r.refs = [n \in Node |-> IF n \in F \cup open
                                 THEN s.refs[n] \cup by ELSE s.refs[n]]
    BY <2>3 DEF Took
  <2>8. r.hinted = s.hinted \cup Hints(by \X down)
    BY <2>3 DEF Took
  <2>9. /\ \A n \in F : n \in Node /\ n \in ToSet(list) /\ s.seen[n] = "new" /\ IsCloser(s, n)
        /\ \A n \in Node : n \in open <=> n \in ToSet(list) /\ s.seen[n] = "open"
        /\ \A n \in Node : n \in down <=> n \in ToSet(list) /\ s.seen[n] = "down"
        /\ \A n \in Node : n \in ToSet(list) /\ s.seen[n] = "new" /\ IsCloser(s, n) => n \in F
        /\ open \subseteq Node /\ down \subseteq Node /\ by \subseteq Node
    BY ListIs DEF Fresh, Known
  <2>10. \A m, n : <<m, n>> \in M1 <=>
            \/ <<m, n>> \in M
            \/ m \in by /\ n \in ToSet(list)
    BY <1>2 DEF NamedBy
  <2>11. ToSet(list) \subseteq Node
    BY ListIs
  <2> HIDE DEF F, open, down, by, M1
  <2>12. s.pending \in Seq(Node) /\ r.pending \in Seq(Node)
    BY <2>1, <2>4 DEF State
  <2>13. ToSet(r.pending) = ToSet(s.pending) \cup F
    <3>1. ToSet(r.pending) = ToSet(s.pending) \cup ToSet(new)
      BY <2>5, <2>12, ConcatIs
    <3> QED
      BY <2>5, <3>1
  <2>14. \A n \in ToSet(s.pending) : s.seen[n] = "open" /\ n \notin A
    BY <2>1 DEF Waiting, ToSet
  <2>15. Waiting(r, A)
    <3>1. IsInjective(s.pending) /\ ToSet(s.pending) \cap ToSet(new) = {}
      BY <2>1, <2>5, <2>9, <2>14 DEF Waiting
    <3>2. IsInjective(r.pending)
      BY <2>5, <2>12, <3>1, ConcatIs
    <3>3. \A n \in ToSet(r.pending) : r.seen[n] = "open" /\ n \notin A
      <4>1. \A n \in F : n \notin A /\ r.seen[n] = "open"
        BY <2>1, <2>6, <2>9 DEF Waiting
      <4>2. \A n \in ToSet(s.pending) : n \in Node
        BY <2>12, ListIs
      <4> QED
        BY <2>6, <2>13, <2>14, <4>1, <4>2
    <3>4. \A i \in DOMAIN r.pending : r.pending[i] \in ToSet(r.pending)
      BY DEF ToSet
    <3>5. Flight(r) = Flight(s)
      BY <2>4 DEF Flight, Alike
    <3>6. \A n \in A : r.seen[n] # "new"
      BY <2>1, <2>6 DEF Waiting
    <3>7. \A n \in Flight(r) : r.seen[n] = "open"
      BY <2>1, <2>6, <3>5 DEF Waiting
    <3> QED
      BY <2>1, <3>2, <3>3, <3>4, <3>5, <3>6, <3>7 DEF Waiting
  <2>16. Counts(r)
    BY <2>1, <2>4 DEF Counts, Alike, Flight
  <2>17. Kept(r, V)
    <3>1. \A n \in V : r.seen[n] = "done"
      BY <2>1, <2>6, <2>9 DEF Kept
    <3>2. r.closest = s.closest
      BY <2>4 DEF Alike
    <3> QED
      BY <2>1, <3>1, <3>2 DEF Kept
  <2>18. Told(r, M1)
    <3>1. \A n \in Node : r.seen[n] \in {"new", "open", "done", "down"}
                          /\ s.seen[n] \in {"new", "open", "done", "down"}
      BY <2>1, <2>4 DEF State
    <3>2. M1 \subseteq Node \X Node
      <4>1. NamedBy(list, ref) \subseteq Node \X Node
        BY <2>9, <2>11 DEF NamedBy, by
      <4> QED
        BY <2>1, <4>1 DEF Told, M1
    <3>3. ASSUME NEW m \in Node, NEW n \in Node, <<m, n>> \in M1, r.seen[n] = "new"
          PROVE  ~IsCloser(r, n)
      <4>1. s.seen[n] = "new" /\ n \notin F
        BY <2>6, <3>3
      <4>2. IsCloser(r, n) <=> IsCloser(s, n)
        BY <2>4 DEF IsCloser, Alike
      <4> QED
        BY <2>1, <2>9, <2>10, <3>3, <4>1, <4>2 DEF Told
    <3>4. ASSUME NEW n \in Node, r.seen[n] = "new" PROVE r.refs[n] = {}
      <4>1. s.seen[n] = "new" /\ n \notin F
        BY <2>6, <3>4
      <4>2. n \notin open
        BY <2>9, <4>1
      <4> QED
        BY <2>1, <2>7, <4>1, <4>2 DEF Told
    <3>5. ASSUME NEW m \in Node, NEW n \in Node, r.seen[n] = "open"
          PROVE  m \in r.refs[n] <=> <<m, n>> \in M1
      <4>1. CASE n \in F
        <5>1. s.refs[n] = {} /\ <<m, n>> \notin M
          BY <2>1, <2>9, <4>1 DEF Told
        <5>2. r.refs[n] = by
          BY <2>7, <4>1, <5>1
        <5> QED
          BY <2>9, <2>10, <3>5, <4>1, <5>1, <5>2
      <4>2. CASE n \notin F /\ n \in open
        <5>1. r.refs[n] = s.refs[n] \cup by /\ n \in ToSet(list) /\ s.seen[n] = "open"
          BY <2>7, <2>9, <4>2
        <5>2. m \in s.refs[n] <=> <<m, n>> \in M
          BY <2>1, <5>1 DEF Told
        <5> QED
          BY <2>10, <3>5, <5>1, <5>2
      <4>3. CASE n \notin F /\ n \notin open
        <5>1. r.refs[n] = s.refs[n] /\ s.seen[n] = "open"
          BY <2>6, <2>7, <3>5, <4>3
        <5>2. n \notin ToSet(list)
          BY <2>9, <4>3, <5>1
        <5>3. m \in s.refs[n] <=> <<m, n>> \in M
          BY <2>1, <5>1 DEF Told
        <5> QED
          BY <2>10, <5>1, <5>2, <5>3
      <4> QED
        BY <4>1, <4>2, <4>3
    <3>6. ASSUME NEW m \in Node, NEW n \in Node
          PROVE  /\ <<m, n>> \in r.hinted => <<m, n>> \in M1 /\ r.seen[n] = "down"
                 /\ ~gone /\ <<m, n>> \in M1 /\ r.seen[n] = "down" => <<m, n>> \in r.hinted
      <4>1. r.seen[n] = "down" <=> s.seen[n] = "down"
        BY <2>6, <2>9
      <4>2. <<m, n>> \in r.hinted
              <=> <<m, n>> \in s.hinted \/ (~gone /\ m \in by /\ n \in down)
        BY <2>8 DEF Hints
      <4>3. /\ <<m, n>> \in s.hinted => <<m, n>> \in M /\ s.seen[n] = "down"
            /\ ~gone /\ <<m, n>> \in M /\ s.seen[n] = "down" => <<m, n>> \in s.hinted
        BY <2>1 DEF Told
      <4> QED
        BY <2>9, <2>10, <4>1, <4>2, <4>3
    <3> QED
      BY <3>2, <3>3, <3>4, <3>5, <3>6 DEF Told
  <2>19. Reached(r, A)
    <3>1. \A n \in Node : IsCloser(r, n) <=> IsCloser(s, n)
      BY <2>4 DEF IsCloser, Alike
    <3>2. ~r.commiting
      BY <2>4 DEF Alike
    <3>3. ASSUME ~gone, NEW n \in Node, r.seen[n] # "new"
          PROVE  n \in A \cup ToSet(r.pending) \/ ~IsCloser(r, n)
      <4>1. n \in F \/ s.seen[n] # "new"
        BY <2>6, <3>3
      <4> QED
        BY <2>1, <2>13, <3>1, <3>3, <4>1 DEF Reached
    <3> QED
      BY <3>2, <3>3 DEF Reached
  <2>20. Decided(r)
    BY <2>1, <2>4 DEF Decided, Alike, Flight
  <2>21. Grown(r, s)
    BY <2>6, <2>9 DEF Grown
  <2> QED
    BY <2>4, <2>15, <2>16, <2>17, <2>18, <2>19, <2>20, <2>21 DEF Good, M1
<1> QED
  BY <1>1, <1>2

\* Only what the invariant does not read differs.
Same(r, s) ==
    /\ Alike(r, s)
    /\ r.seen = s.seen /\ r.refs = s.refs /\ r.pending = s.pending /\ r.hinted = s.hinted

LEMMA SameKeeps ==
    ASSUME NEW s, NEW A, NEW V, NEW M, Good(s, A, V, M), NEW r \in State, Same(r, s)
    PROVE  Good(r, A, V, M)
<1>1. Waiting(r, A) /\ Counts(r) /\ Kept(r, V) /\ Told(r, M)
  BY DEF Good, Same, Alike, Waiting, Counts, Kept, Told, Flight, IsCloser
<1>2. Reached(r, A)
  BY DEF Good, Same, Alike, Reached, IsCloser
<1>3. Decided(r)
  BY DEF Good, Same, Alike, Decided, Flight
<1> QED
  BY <1>1, <1>2, <1>3 DEF Good

\* The routing table answers with nodes.
LEMMA ClosestOfIs ==
    ASSUME NEW table \in Tables, NEW most \in Nat
    PROVE  ClosestOf(table, most) \in Seq(Node)
<1> DEFINE near == Ascending(table)
           c == Cardinality(table)
<1>1. table \in SUBSET Node
  BY QueryAssumption
<1>2. IsFiniteSet(table) /\ table \in SUBSET Nat
  BY <1>1, NodesAreFinite, Parameters
<1>3. near \in [1..c -> table] /\ c \in Nat
  BY <1>2, AscendingIs
<1> HIDE DEF near, c
<1>4. near \in Seq(Node) /\ Len(near) \in Nat
  BY <1>1, <1>3
<1>5. SubSeq(near, 1, IF Len(near) <= most THEN Len(near) ELSE most) \in Seq(Node)
  BY <1>4
<1> QED
  BY <1>5 DEF ClosestOf, near

LEMMA TableKeeps ==
    ASSUME NEW s, NEW A, NEW V, NEW M, Good(s, A, V, M), ~s.commiting,
           NEW table \in Tables, NEW r, r = AddFromTable(s, table)
    PROVE  Good(r, A, V, M) /\ Alike(r, s) /\ Grown(r, s)
<1>1. s \in State /\ Len(s.pending) \in Nat /\ K \in Nat
  BY Parameters DEF Good, State
<1>2. CASE Len(s.pending) >= K
  BY <1>2 DEF AddFromTable, Alike, Grown
<1>3. CASE ~(Len(s.pending) >= K)
  <2> DEFINE t == [s EXCEPT !.fromTable = TRUE]
             list == ClosestOf(table, K - Len(s.pending))
  <2>1. t \in State /\ Same(t, s)
    BY <1>1 DEF State, Same, Alike
  <2>2. K - Len(s.pending) \in Nat
    BY <1>1, <1>3
  <2>3. list \in Seq(Node)
    BY <2>2, ClosestOfIs
  <2>4. r = AddAll(t, list, 0)
    BY <1>3 DEF AddFromTable
  <2> HIDE DEF t, list
  <2>5. Good(t, A, V, M)
    BY <2>1, SameKeeps
  <2>6. ~t.commiting /\ 0 \in Node \cup {0}
    BY <2>1 DEF Same, Alike
  <2>7. Good(r, A, V, M \cup NamedBy(list, 0)) /\ Alike(r, t) /\ Grown(r, t)
    BY <2>3, <2>4, <2>5, <2>6, AddAllKeeps
  <2>8. M \cup NamedBy(list, 0) = M
    BY DEF NamedBy
  <2>9. Good(r, A, V, M)
    BY <2>7, <2>8
  <2>10. Alike(r, s)
    BY <2>1, <2>7 DEF Alike, Same
  <2>11. \A n : IsCloser(t, n) <=> IsCloser(s, n)
    BY <2>1 DEF IsCloser, Same, Alike
  <2>12. Grown(r, s)
    BY <2>1, <2>7, <2>11 DEF Grown, Same
  <2> QED
    BY <2>9, <2>10, <2>12
<1> QED
  BY <1>2, <1>3

\* The beginning of a list.
LEMMA PrefixIs ==
    ASSUME NEW T, NEW x \in Seq(T), NEW k \in 0..Len(x), NEW z, z = SubSeq(x, 1, k)
    PROVE  /\ z \in Seq(T) /\ Len(z) = k /\ DOMAIN z = 1..k
           /\ \A i \in 1..k : z[i] = x[i]
OBVIOUS

\* What _readMore() pops and asks: the end of the list, and of it the closer nodes.
Visited(r, s) ==
    \E k \in 0..Len(s.pending), visit \in SUBSET Node :
        /\ r.pending = SubSeq(s.pending, 1, k)
        /\ \A i \in k + 1..Len(s.pending) :
               IsCloser(s, s.pending[i]) => s.pending[i] \in visit
        /\ \A n \in visit : \E i \in k + 1..Len(s.pending) : s.pending[i] = n
        /\ r.inflight = s.inflight + Cardinality(visit)
        /\ Cardinality(visit) = 0 \/ r.inflight <= Most + s.slows
        /\ gone => r.fast = s.fast
        /\ ~gone => r.fast = s.fast \cup visit
        /\ visit = {} => r.phase = s.phase
        /\ ~gone => r.phase = s.phase
        /\ r.phase \in {s.phase, "destroying"}

LEMMA VisitsIs ==
    ASSUME NEW s \in State, NEW r, r = Visits(s)
    PROVE  /\ Visited(r, s) /\ r \in State
           /\ r.seen = s.seen /\ r.refs = s.refs /\ r.slow = s.slow /\ r.slows = s.slows
           /\ r.closest = s.closest /\ r.commiting = s.commiting /\ r.commits = s.commits
           /\ r.good = s.good /\ r.hinted = s.hinted
<1> DEFINE limit  == (IF s.slowdown THEN Slowed ELSE s.concurrency) + s.slows
           room   == IF s.inflight < limit THEN limit - s.inflight ELSE 0
           L      == Len(s.pending)
           may    == {i \in DOMAIN s.pending : IsCloser(s, s.pending[i])}
           after(i) == {j \in may : j > i}
           popped == {i \in DOMAIN s.pending : Cardinality(after(i)) < room}
           W      == popped \cap may
           visit  == {s.pending[i] : i \in W}
           p      == Cardinality(popped)
           k      == L - p
<1>1. /\ L \in Nat /\ s.pending \in Seq(Node) /\ DOMAIN s.pending = 1..L
      /\ s.inflight \in Nat /\ s.slows \in Nat /\ s.concurrency \in Nat
      /\ s.concurrency <= Most
  BY Parameters DEF State
<1>2. limit \in Nat /\ limit <= Most + s.slows
  BY <1>1, Parameters
<1>3. room \in Nat /\ (room # 0 => s.inflight + room = limit)
  BY <1>1, <1>2
<1>4. IsFiniteSet(1..L) /\ may \in SUBSET (1..L) /\ popped \in SUBSET (1..L)
  <2>1. IsFiniteSet(1..L)
    BY <1>1, IntervalIs
  <2>2. may \in SUBSET (1..L) /\ popped \in SUBSET (1..L)
    BY <1>1
  <2> QED
    BY <2>1, <2>2
<1>5. IsFiniteSet(may) /\ may \in SUBSET Nat /\ W \in SUBSET may
  BY <1>1, <1>4, FS_Subset
<1>6. \A i \in popped : \A j \in i..L : j \in popped
  <2> SUFFICES ASSUME NEW i \in popped, NEW j \in i..L PROVE j \in popped
    OBVIOUS
  <2> DEFINE X == after(i)
             Y == after(j)
  <2>1. i \in 1..L /\ Cardinality(X) < room /\ X \in SUBSET may /\ Y \in SUBSET may
    BY <1>1
  <2>2. Y \in SUBSET X
    BY <1>1, <1>5, <2>1
  <2>3. j \in 1..L
    BY <1>1, <2>1
  <2> HIDE DEF X, Y
  <2>4. IsFiniteSet(X) /\ Cardinality(X) \in Nat /\ Cardinality(Y) \in Nat
        /\ Cardinality(Y) <= Cardinality(X)
    BY <1>5, <2>1, <2>2, FS_Subset, FS_CardinalityType
  <2>5. Cardinality(Y) < room
    BY <1>3, <2>1, <2>4
  <2> QED
    BY <1>1, <2>3, <2>5 DEF Y
<1>7. \A i \in W : Cardinality({j \in may : j > i}) < room
  OBVIOUS
<1>8. visit \in SUBSET Node
  <2>1. \A i \in 1..L : s.pending[i] \in Node
    BY <1>1
  <2> QED
    BY <1>4, <2>1
<1>9. \A n \in visit : \E i \in W : n = s.pending[i]
  OBVIOUS
<1>10. \A i \in W : s.pending[i] \in visit
  OBVIOUS
<1>11. \A i \in popped : IsCloser(s, s.pending[i]) => i \in W
  OBVIOUS
<1>12. r = [s EXCEPT
            !.pending = SubSeq(@, 1, Len(@) - p),
            !.inflight = @ + Cardinality(visit),
            !.fast = IF gone THEN @ ELSE @ \cup visit,
            !.phase = IF gone /\ visit # {} THEN "destroying" ELSE @,
            !.slowdown = @ \/ (~s.fromTable /\ s.successes = 0 /\ s.errors = 0)]
  BY DEF Visits
<1>13. W \subseteq popped
  OBVIOUS
<1> HIDE DEF limit, room, L, may, after, popped, W, visit
<1>14. p \in 0..L /\ popped = L - p + 1..L
  BY <1>1, <1>4, <1>6, SuffixIs
<1> HIDE DEF p
<1>15. k \in 0..L /\ k \in Nat /\ popped = k + 1..L
  BY <1>1, <1>14
<1>16. IsFiniteSet(W) /\ Cardinality(W) \in Nat /\ Cardinality(W) <= room
  BY <1>3, <1>5, <1>7, RoomIs
<1>17. Cardinality(visit) \in Nat /\ Cardinality(visit) <= Cardinality(W)
  <2> DEFINE f == [i \in W |-> s.pending[i]]
  <2>1. f \in Surjection(W, visit)
    BY <1>9, <1>10 DEF Surjection
  <2> HIDE DEF f
  <2>2. Cardinality(visit) <= Cardinality(W)
    BY <1>16, <2>1, FS_Surjection
  <2> QED
    BY <1>8, <2>2, NodesAreFinite
<1> DEFINE pend == SubSeq(s.pending, 1, k)
           inflight == s.inflight + Cardinality(visit)
           fast == IF gone THEN s.fast ELSE s.fast \cup visit
           phase == IF gone /\ visit # {} THEN "destroying" ELSE s.phase
           slowdown == s.slowdown \/ (~s.fromTable /\ s.successes = 0 /\ s.errors = 0)
<1>18. r = [s EXCEPT !.pending = pend, !.inflight = inflight, !.fast = fast,
                     !.phase = phase, !.slowdown = slowdown]
  BY <1>12 DEF k, L
<1>19. pend \in Seq(Node) /\ inflight \in Nat /\ fast \in SUBSET Node
       /\ phase \in {s.phase, "destroying"} /\ slowdown \in BOOLEAN
       /\ phase \in {"opening", "open", "ending", "destroying", "closed"}
  <2>1. pend \in Seq(Node)
    BY <1>1, <1>15
  <2>2. inflight \in Nat
    BY <1>1, <1>17
  <2>3. fast \in SUBSET Node
    BY <1>8 DEF State
  <2> QED
    BY <2>1, <2>2, <2>3 DEF State
<1>20. /\ gone => fast = s.fast
       /\ ~gone => fast = s.fast \cup visit
       /\ visit = {} => phase = s.phase
       /\ ~gone => phase = s.phase
  OBVIOUS
<1>21. Cardinality(visit) = 0 \/ inflight <= Most + s.slows
  BY <1>1, <1>2, <1>3, <1>16, <1>17, Parameters
<1>22. inflight = s.inflight + Cardinality(visit)
  OBVIOUS
<1> HIDE DEF inflight, fast, phase, slowdown, pend
<1>23. /\ r \in State
       /\ r.pending = pend /\ r.inflight = inflight /\ r.fast = fast /\ r.phase = phase
       /\ r.seen = s.seen /\ r.refs = s.refs /\ r.slow = s.slow /\ r.slows = s.slows
       /\ r.closest = s.closest /\ r.commiting = s.commiting /\ r.commits = s.commits
       /\ r.good = s.good /\ r.hinted = s.hinted
  BY <1>18, <1>19 DEF State
<1>24. \A i \in k + 1..L : IsCloser(s, s.pending[i]) => s.pending[i] \in visit
  BY <1>10, <1>11, <1>15
<1>25. \A n \in visit : \E i \in k + 1..L : s.pending[i] = n
  BY <1>9, <1>13, <1>15
<1>26. Visited(r, s)
  BY <1>8, <1>15, <1>19, <1>20, <1>21, <1>22, <1>23, <1>24, <1>25 DEF Visited, pend, L
<1> QED
  BY <1>23, <1>26

\* Asking more keeps the invariant when what is then in flight counts as asked, and
\* asks nobody again.
LEMMA VisitsKeep ==
    ASSUME NEW s, NEW A, NEW V, NEW M, Good(s, A, V, M), ~s.commiting,
           s.phase # "opening", NEW r, r = Visits(s)
    PROVE  /\ Good(r, A \cup Flight(r), V, M)
           /\ Flight(s) \subseteq Flight(r) /\ Flight(r) \cap A \subseteq Flight(s)
           /\ r.seen = s.seen /\ r.closest = s.closest /\ ~r.commiting
           /\ r.phase # "opening" /\ r.commits = s.commits
<1>1. s \in State /\ Waiting(s, A) /\ Counts(s) /\ Kept(s, V) /\ Told(s, M)
      /\ Reached(s, A) /\ Decided(s)
  BY DEF Good
<1>2. /\ Visited(r, s) /\ r \in State
      /\ r.seen = s.seen /\ r.refs = s.refs /\ r.slow = s.slow /\ r.slows = s.slows
      /\ r.closest = s.closest /\ r.commiting = s.commiting /\ r.commits = s.commits
      /\ r.good = s.good /\ r.hinted = s.hinted
  BY <1>1, VisitsIs
<1>3. PICK k \in 0..Len(s.pending), visit \in SUBSET Node :
        /\ r.pending = SubSeq(s.pending, 1, k)
        /\ \A i \in k + 1..Len(s.pending) :
               IsCloser(s, s.pending[i]) => s.pending[i] \in visit
        /\ \A n \in visit : \E i \in k + 1..Len(s.pending) : s.pending[i] = n
        /\ r.inflight = s.inflight + Cardinality(visit)
        /\ Cardinality(visit) = 0 \/ r.inflight <= Most + s.slows
        /\ gone => r.fast = s.fast
        /\ ~gone => r.fast = s.fast \cup visit
        /\ visit = {} => r.phase = s.phase
        /\ ~gone => r.phase = s.phase
        /\ r.phase \in {s.phase, "destroying"}
  BY <1>2 DEF Visited
<1> DEFINE L == Len(s.pending)
<1>4. /\ L \in Nat /\ k \in 0..L /\ s.pending \in Seq(Node) /\ DOMAIN s.pending = 1..L
      /\ \A i \in 1..L : s.pending[i] \in Node
  BY <1>1 DEF State
<1>5. /\ DOMAIN r.pending = 1..k
      /\ \A i \in 1..k : r.pending[i] = s.pending[i] /\ i \in 1..L
  BY <1>3, <1>4, PrefixIs
<1>6. \A n \in visit : s.seen[n] = "open" /\ n \notin A
  <2> SUFFICES ASSUME NEW n \in visit PROVE s.seen[n] = "open" /\ n \notin A
    OBVIOUS
  <2>1. PICK i \in k + 1..L : s.pending[i] = n
    BY <1>3
  <2>2. i \in 1..L
    BY <1>4, <2>1
  <2> QED
    BY <1>1, <1>4, <2>1, <2>2 DEF Waiting
<1>7. \A i \in 1..k : r.pending[i] \notin visit
  <2> SUFFICES ASSUME NEW i \in 1..k, r.pending[i] \in visit PROVE FALSE
    OBVIOUS
  <2>1. PICK j \in k + 1..L : s.pending[j] = r.pending[i]
    BY <1>3
  <2>2. i \in 1..L /\ j \in 1..L /\ i # j /\ s.pending[i] = s.pending[j]
    BY <1>4, <1>5, <2>1
  <2> QED
    BY <1>1, <1>4, <2>2 DEF Waiting, IsInjective
<1> HIDE DEF L
<1> DEFINE F == Flight(s)
           G == Flight(r)
<1>8. F \subseteq G /\ G \subseteq F \cup visit
  BY <1>2, <1>3 DEF Flight
<1>9. G \cap A \subseteq F
  BY <1>6, <1>8
<1>10. F \subseteq A /\ A \subseteq Node
  BY <1>1 DEF Waiting
<1>11. r.phase # "opening"
  BY <1>3
<1>12. ~r.commiting
  BY <1>2
<1>13. Waiting(r, A \cup Flight(r))
  <2>1. A \cup G \subseteq Node
    BY <1>8, <1>10
  <2>2. IsInjective(r.pending)
    BY <1>1, <1>4, <1>5 DEF Waiting, IsInjective
  <2>3. ASSUME NEW i \in 1..k PROVE r.seen[r.pending[i]] = "open" /\ r.pending[i] \notin A \cup G
    <3>1. s.seen[s.pending[i]] = "open" /\ s.pending[i] \notin A
      BY <1>1, <1>4, <1>5 DEF Waiting
    <3> QED
      BY <1>2, <1>5, <1>7, <1>8, <1>10, <3>1
  <2>4. \A n \in G : r.seen[n] = "open"
    BY <1>1, <1>2, <1>6, <1>8 DEF Waiting
  <2>5. \A n \in A \cup G : r.seen[n] # "new"
    BY <1>1, <1>2, <2>4 DEF Waiting
  <2> QED
    BY <1>5, <2>1, <2>2, <2>3, <2>4, <2>5 DEF Waiting
<1>14. Counts(r)
  <2>1. s.fast \in SUBSET Node /\ s.slow \in SUBSET Node /\ F \in SUBSET Node
        /\ visit \in SUBSET Node /\ s.inflight \in Nat
    BY <1>1, <1>10 DEF State
  <2>2. /\ Cardinality(s.fast) \in Nat /\ Cardinality(s.slow) \in Nat
        /\ Cardinality(F) \in Nat /\ Cardinality(visit) \in Nat
        /\ IsFiniteSet(s.fast) /\ IsFiniteSet(F) /\ IsFiniteSet(visit) /\ IsFiniteSet(s.slow)
    BY <2>1, NodesAreFinite
  <2>3. /\ s.fast \cap s.slow = {} /\ s.slows = Cardinality(s.slow)
        /\ Cardinality(s.fast) <= Most
        /\ Cardinality(F) <= s.inflight
        /\ ~gone => s.inflight = Cardinality(F)
    BY <1>1 DEF Counts
  <2>4. visit \cap F = {}
    BY <1>6, <1>10
  <2>5. visit \cap s.fast = {} /\ visit \cap s.slow = {}
    BY <2>4 DEF Flight
  <2>6. Cardinality(F) = Cardinality(s.fast) + Cardinality(s.slow)
    <3>1. Cardinality(s.fast \cup s.slow)
            = Cardinality(s.fast) + Cardinality(s.slow) - Cardinality(s.fast \cap s.slow)
      BY <2>2, FS_Union
    <3>2. Cardinality(s.fast \cap s.slow) = 0
      BY <2>3, FS_EmptySet
    <3> QED
      BY <2>2, <3>1, <3>2 DEF Flight
  <2>7. Cardinality(F \cup visit) = Cardinality(F) + Cardinality(visit)
    <3>1. Cardinality(F \cup visit)
            = Cardinality(F) + Cardinality(visit) - Cardinality(F \cap visit)
      BY <2>2, FS_Union
    <3>2. Cardinality(F \cap visit) = 0
      BY <2>4, FS_EmptySet
    <3> QED
      BY <2>2, <3>1, <3>2
  <2>8. Cardinality(s.fast \cup visit) = Cardinality(s.fast) + Cardinality(visit)
    <3>1. Cardinality(s.fast \cup visit)
            = Cardinality(s.fast) + Cardinality(visit) - Cardinality(s.fast \cap visit)
      BY <2>2, FS_Union
    <3>2. Cardinality(s.fast \cap visit) = 0
      BY <2>5, FS_EmptySet
    <3> QED
      BY <2>2, <3>1, <3>2
  <2>9. r.fast \cap r.slow = {} /\ r.slows = Cardinality(r.slow)
    BY <1>2, <1>3, <2>3, <2>5
  <2>10. r.inflight = s.inflight + Cardinality(visit)
         /\ (Cardinality(visit) = 0 \/ r.inflight <= Most + s.slows)
    BY <1>3
  <2>11. (gone => r.fast = s.fast) /\ (~gone => r.fast = s.fast \cup visit)
    BY <1>3
  <2>12. (gone => G = F) /\ (~gone => G = F \cup visit)
    BY <1>2, <2>11 DEF Flight
  <2>13. Most \in Nat
    BY Parameters
  <2>14. CASE gone
    <3>1. r.fast = s.fast /\ G = F
      BY <2>11, <2>12, <2>14
    <3> HIDE DEF F, G
    <3>2. Cardinality(G) <= r.inflight
      BY <2>1, <2>2, <2>3, <2>10, <3>1
    <3> QED
      BY <2>3, <2>9, <2>14, <3>1, <3>2 DEF Counts, G
  <2>15. CASE ~gone
    <3>1. r.fast = s.fast \cup visit /\ G = F \cup visit /\ s.inflight = Cardinality(F)
      BY <2>3, <2>11, <2>12, <2>15
    <3> HIDE DEF F, G
    <3>2. r.inflight = Cardinality(G)
      BY <2>7, <2>10, <3>1
    <3>3. Cardinality(r.fast) <= Most
      BY <2>2, <2>3, <2>6, <2>8, <2>10, <2>13, <3>1
    <3>4. Cardinality(G) <= r.inflight
      BY <2>1, <2>2, <2>10, <3>1, <3>2
    <3> QED
      BY <2>9, <3>2, <3>3, <3>4 DEF Counts, G
  <2> QED
    BY <2>14, <2>15
<1>15. Kept(r, V)
  BY <1>1, <1>2 DEF Kept
<1>16. Told(r, M)
  BY <1>1, <1>2 DEF Told, IsCloser
<1>17. Reached(r, A \cup Flight(r))
  <2>1. \A n : IsCloser(r, n) <=> IsCloser(s, n)
    BY <1>2 DEF IsCloser
  <2>2. ASSUME ~gone, NEW n \in Node, r.seen[n] # "new"
        PROVE  n \in (A \cup G) \cup ToSet(r.pending) \/ ~IsCloser(r, n)
    <3>1. CASE n \in A \/ ~IsCloser(s, n)
      BY <2>1, <3>1
    <3>2. CASE n \in ToSet(s.pending) /\ IsCloser(s, n)
      <4>1. PICK i \in 1..L : s.pending[i] = n
        BY <1>4, <3>2 DEF ToSet
      <4>2. CASE i \in 1..k
        BY <1>5, <4>1, <4>2 DEF ToSet
      <4>3. CASE i \in k + 1..L
        <5>1. n \in visit
          BY <1>3, <3>2, <4>1, <4>3 DEF L
        <5> QED
          BY <1>3, <2>2, <5>1 DEF Flight
      <4> QED
        BY <1>4, <4>1, <4>2, <4>3
    <3> QED
      BY <1>1, <1>2, <2>2, <3>1, <3>2 DEF Reached
  <2> QED
    BY <1>12, <2>2 DEF Reached
<1>18. Decided(r)
  BY <1>1, <1>2, <1>3, <1>11, <1>12 DEF Decided
<1> QED
  BY <1>2, <1>8, <1>9, <1>11, <1>12, <1>13, <1>14, <1>15, <1>16, <1>17, <1>18 DEF Good

\* How a state a method leaves relates to the one it was given.
Onto(r, s, A) ==
    /\ Flight(s) \subseteq Flight(r) /\ Flight(r) \cap A \subseteq Flight(s)
    /\ Grown(r, s) /\ r.closest = s.closest /\ r.phase # "opening"

\* A query that is over commits to what it kept or ends.
LEMMA FlushKeeps ==
    ASSUME NEW s, NEW A, NEW V, NEW M, Good(s, A, V, M), ~s.commiting,
           s.phase # "opening", s.pending = <<>>, NEW r, r = Flush(s)
    PROVE  Good(r, A, V, M) /\ Onto(r, s, A)
<1>1. s \in State /\ Waiting(s, A) /\ Counts(s) /\ Kept(s, V) /\ Told(s, M)
      /\ Reached(s, A) /\ Decided(s)
  BY DEF Good
<1>2. s.phase # "ending"
  BY <1>1 DEF Decided
<1>3. \/ ~opts.commit /\ r = [s EXCEPT !.commiting = TRUE, !.phase = "ending"]
      \/ r = [s EXCEPT !.commiting = TRUE, !.phase = "destroying"]
      \/ r = [s EXCEPT !.commiting = TRUE, !.commits = Len(s.closest)]
  BY DEF Flush
<1>4. Len(s.closest) \in Nat
  BY <1>1 DEF State
<1>5. \E phase \in {"ending", "destroying", s.phase}, commits \in Nat :
        r = [s EXCEPT !.commiting = TRUE, !.phase = phase, !.commits = commits]
  <2>1. /\ [s EXCEPT !.commiting = TRUE, !.phase = "ending"]
              = [s EXCEPT !.commiting = TRUE, !.phase = "ending", !.commits = s.commits]
        /\ [s EXCEPT !.commiting = TRUE, !.phase = "destroying"]
              = [s EXCEPT !.commiting = TRUE, !.phase = "destroying", !.commits = s.commits]
        /\ [s EXCEPT !.commiting = TRUE, !.commits = Len(s.closest)]
              = [s EXCEPT !.commiting = TRUE, !.phase = s.phase, !.commits = Len(s.closest)]
        /\ s.commits \in Nat
    BY <1>1 DEF State
  <2> QED
    BY <1>3, <1>4, <2>1
<1>6. PICK phase \in {"ending", "destroying", s.phase}, commits \in Nat :
        r = [s EXCEPT !.commiting = TRUE, !.phase = phase, !.commits = commits]
  BY <1>5
<1>7. /\ phase \in {"opening", "open", "ending", "destroying", "closed"}
      /\ phase # "opening"
  BY <1>1 DEF State
<1>8. /\ r \in State /\ r.commiting = TRUE
      /\ r.seen = s.seen /\ r.refs = s.refs /\ r.pending = s.pending
      /\ r.fast = s.fast /\ r.slow = s.slow /\ r.inflight = s.inflight
      /\ r.slows = s.slows /\ r.closest = s.closest /\ r.hinted = s.hinted
      /\ r.phase # "opening"
  BY <1>1, <1>6, <1>7 DEF State
<1>9. r.phase = "ending" => ~opts.commit
  BY <1>1, <1>2, <1>3 DEF State
<1>10. Waiting(r, A) /\ Counts(r) /\ Kept(r, V) /\ Told(r, M)
  BY <1>1, <1>8 DEF Waiting, Counts, Kept, Told, Flight, IsCloser
<1>11. Reached(r, A)
  BY <1>1, <1>8 DEF Reached, IsCloser
<1>12. Decided(r)
  BY <1>8, <1>9 DEF Decided
<1>13. Onto(r, s, A)
  BY <1>8 DEF Onto, Flight, Grown
<1> QED
  BY <1>8, <1>10, <1>11, <1>12, <1>13 DEF Good

\* Asking more and, when nothing is left to ask, committing keeps the invariant.
LEMMA ReadMoreKeeps ==
    ASSUME NEW s, NEW A, NEW V, NEW M, Good(s, A, V, M), s.phase # "opening",
           NEW table \in Tables, NEW r, r = ReadMore(s, table)
    PROVE  Good(r, A \cup Flight(r), V, M) /\ Onto(r, s, A)
<1> DEFINE first == Visits(s)
           both  == AddFromTable(first, table)
           again == Visits(both)
<1>1. CASE s.phase \in {"destroying", "closed"} \/ s.commiting
  <2>1. r = s
    BY <1>1 DEF ReadMore
  <2>2. A \cup Flight(s) = A
    BY DEF Good, Waiting
  <2>3. Onto(s, s, A)
    BY DEF Onto, Grown
  <2> QED
    BY <2>1, <2>2, <2>3
<1>2. CASE ~(s.phase \in {"destroying", "closed"} \/ s.commiting)
  <2>1. \/ r = first
        \/ IsOver(first) /\ r = Flush(first)
        \/ IsOver(again) /\ r = Flush(again)
        \/ r = again
    BY <1>2 DEF ReadMore
  <2> DEFINE B == A \cup Flight(first)
             C == B \cup Flight(again)
  <2> HIDE DEF first
  <2>2. ~s.commiting
    BY <1>2
  <2>3. /\ Good(first, B, V, M)
        /\ Flight(s) \subseteq Flight(first) /\ Flight(first) \cap A \subseteq Flight(s)
        /\ first.seen = s.seen /\ first.closest = s.closest /\ ~first.commiting
        /\ first.phase # "opening"
    BY <2>2, VisitsKeep DEF first
  <2>4. Onto(first, s, A)
    BY <2>3 DEF Onto, Grown
  <2> HIDE DEF both
  <2>5. Good(both, B, V, M) /\ Alike(both, first) /\ Grown(both, first)
    BY <2>3, TableKeeps DEF both
  <2>6. ~both.commiting /\ both.phase # "opening" /\ Flight(both) = Flight(first)
        /\ both.closest = first.closest
    BY <2>3, <2>5 DEF Alike, Flight
  <2> HIDE DEF again, B
  <2>7. /\ Good(again, C, V, M)
        /\ Flight(both) \subseteq Flight(again) /\ Flight(again) \cap B \subseteq Flight(both)
        /\ again.seen = both.seen /\ again.closest = both.closest /\ ~again.commiting
        /\ again.phase # "opening"
    BY <2>5, <2>6, VisitsKeep DEF again
  <2>8. C = A \cup Flight(again)
    BY <2>6, <2>7 DEF B
  <2>9. Onto(again, s, A)
    <3>1. Flight(s) \subseteq Flight(again) /\ Flight(again) \cap A \subseteq Flight(s)
      BY <2>3, <2>6, <2>7 DEF B
    <3>2. \A n : IsCloser(first, n) <=> IsCloser(s, n)
      BY <2>3 DEF IsCloser
    <3>3. Grown(again, s)
      BY <2>3, <2>5, <2>7, <3>2 DEF Grown
    <3> QED
      BY <2>3, <2>6, <2>7, <3>1, <3>3 DEF Onto
  <2>10. Good(again, A \cup Flight(again), V, M)
    BY <2>7, <2>8
  <2>11. ASSUME NEW t, Good(t, A \cup Flight(t), V, M), Onto(t, s, A), ~t.commiting,
                IsOver(t), r = Flush(t)
         PROVE  Good(r, A \cup Flight(r), V, M) /\ Onto(r, s, A)
    <3> DEFINE D == A \cup Flight(t)
    <3>1. t.pending = <<>> /\ t.phase # "opening"
      BY <2>11 DEF IsOver, Onto
    <3>2. Good(t, D, V, M)
      BY <2>11
    <3> HIDE DEF D
    <3>3. Good(r, D, V, M) /\ Onto(r, t, D)
      BY <2>11, <3>1, <3>2, FlushKeeps
    <3>4. Flight(t) \subseteq Flight(r) /\ Flight(r) \cap D \subseteq Flight(t)
      BY <3>3 DEF Onto
    <3>5. Flight(r) \subseteq D
      BY <3>3 DEF Good, Waiting
    <3>6. Flight(r) = Flight(t)
      BY <3>4, <3>5
    <3>7. Good(r, A \cup Flight(r), V, M)
      BY <3>3, <3>6 DEF D
    <3>8. \A n : IsCloser(t, n) <=> IsCloser(s, n)
      BY <2>11 DEF IsCloser, Onto
    <3>9. Grown(t, s) /\ Grown(r, t)
      BY <2>11, <3>3 DEF Onto
    <3>10. Grown(r, s)
      BY <3>8, <3>9 DEF Grown
    <3>11. Onto(r, s, A)
      BY <2>11, <3>3, <3>6, <3>10 DEF Onto
    <3> QED
      BY <3>7, <3>11
  <2>12. Good(first, A \cup Flight(first), V, M)
    BY <2>3 DEF B
  <2>13. CASE r = first
    BY <2>4, <2>12, <2>13
  <2>14. CASE r = again
    BY <2>9, <2>10, <2>14
  <2>15. CASE IsOver(first) /\ r = Flush(first)
    BY <2>3, <2>4, <2>11, <2>12, <2>15
  <2>16. CASE IsOver(again) /\ r = Flush(again)
    BY <2>7, <2>9, <2>10, <2>11, <2>16
  <2> QED
    BY <2>1, <2>13, <2>14, <2>15, <2>16
<1> QED
  BY <1>1, <1>2

\* A node in flight was asked and did not answer; the counters count it.
LEMMA InFlight ==
    ASSUME NEW s, NEW A, NEW V, NEW M, Good(s, A, V, M), NEW n \in Flight(s)
    PROVE  /\ n \in Node /\ n \in A /\ n \notin V /\ s.seen[n] = "open"
           /\ s.phase # "opening" /\ s.inflight - 1 \in Nat
           /\ n \in s.slow => s.slows - 1 \in Nat /\ n \notin s.fast
<1>1. s \in State /\ Waiting(s, A) /\ Counts(s) /\ Kept(s, V) /\ Decided(s)
  BY DEF Good
<1>2. n \in Node /\ n \in A /\ s.seen[n] = "open" /\ Flight(s) \in SUBSET Node
  BY <1>1 DEF Waiting
<1>3. n \notin V
  BY <1>1, <1>2 DEF Kept
<1>4. s.phase # "opening"
  BY <1>1 DEF Decided
<1>5. s.slow \in SUBSET Node /\ s.inflight \in Nat
  BY <1>1 DEF State
<1>6. \A S \in SUBSET Node : n \in S => Cardinality(S) - 1 \in Nat
  <2> SUFFICES ASSUME NEW S \in SUBSET Node, n \in S PROVE Cardinality(S) - 1 \in Nat
    OBVIOUS
  <2>1. IsFiniteSet(S) /\ Cardinality(S) \in Nat
    BY NodesAreFinite
  <2>2. Cardinality(S) # 0
    BY <2>1, FS_EmptySet
  <2> QED
    BY <2>1, <2>2
<1>7. Cardinality(Flight(s)) - 1 \in Nat /\ Cardinality(Flight(s)) \in Nat
  BY <1>2, <1>6, NodesAreFinite
<1>8. s.inflight - 1 \in Nat
  BY <1>1, <1>5, <1>7 DEF Counts
<1>9. n \in s.slow => s.slows - 1 \in Nat /\ n \notin s.fast
  BY <1>1, <1>5, <1>6 DEF Counts
<1> QED
  BY <1>2, <1>3, <1>4, <1>8, <1>9

\* A request of n is over, which leaves n in the state x.
Settled(r, s, n, x) ==
    /\ r \in State
    /\ r.fast = s.fast \ {n} /\ r.slow = s.slow \ {n}
    /\ r.inflight = s.inflight - 1
    /\ n \in s.slow => r.slows = s.slows - 1
    /\ n \notin s.slow => r.slows = s.slows
    /\ r.pending = s.pending /\ r.closest = s.closest /\ r.commiting = s.commiting
    /\ r.phase = s.phase /\ r.commits = s.commits /\ r.good = s.good
    /\ r.seen = [s.seen EXCEPT ![n] = x]
    /\ x = "open" => r.refs = s.refs
    /\ x # "open" => r.refs = [s.refs EXCEPT ![n] = {}]
    /\ x = "down" => r.hinted = s.hinted \cup Hints(s.refs[n] \X {n})
    /\ x # "down" => r.hinted = s.hinted

\* However a request ends, the invariant is kept: the counters go down with it, and
\* who named the node is told if it is down.
LEMMA SettlesKeep ==
    ASSUME NEW s, NEW A, NEW V, NEW M, Good(s, A, V, M), NEW n \in Flight(s),
           NEW x \in {"open", "done", "down"}, NEW r, Settled(r, s, n, x)
    PROVE  Good(r, A, V, M) /\ Flight(r) = Flight(s) \ {n}
<1>1. s \in State /\ Waiting(s, A) /\ Counts(s) /\ Kept(s, V) /\ Told(s, M)
      /\ Reached(s, A) /\ Decided(s)
  BY DEF Good
<1>2. /\ n \in Node /\ n \in A /\ n \notin V /\ s.seen[n] = "open"
      /\ s.phase # "opening" /\ s.inflight - 1 \in Nat
      /\ n \in s.slow => s.slows - 1 \in Nat /\ n \notin s.fast
  BY InFlight
<1>3. Flight(r) = Flight(s) \ {n}
  BY DEF Settled, Flight
<1>4. r.seen = [s.seen EXCEPT ![n] = x] /\ s.seen \in [Node -> {"new", "open", "done", "down"}]
  BY <1>1 DEF Settled, State
<1>5. r.seen[n] = x /\ \A m \in Node : m # n => r.seen[m] = s.seen[m]
  BY <1>2, <1>4
<1>6. Waiting(r, A)
  <2>1. r.pending = s.pending
    BY DEF Settled
  <2>2. \A i \in DOMAIN s.pending : s.pending[i] # n /\ s.pending[i] \in Node
    BY <1>1, <1>2 DEF Waiting, State
  <2>3. \A i \in DOMAIN r.pending : r.seen[r.pending[i]] = "open" /\ r.pending[i] \notin A
    BY <1>1, <1>5, <2>1, <2>2 DEF Waiting
  <2>4. A \subseteq Node /\ Flight(r) \subseteq A
    BY <1>1, <1>3 DEF Waiting
  <2>5. \A m \in Flight(r) : r.seen[m] = "open"
    BY <1>1, <1>3, <1>5, <2>4 DEF Waiting
  <2>6. \A m \in A : r.seen[m] # "new"
    BY <1>1, <1>5, <2>4 DEF Waiting
  <2>7. IsInjective(r.pending)
    BY <1>1, <2>1 DEF Waiting
  <2> QED
    BY <2>3, <2>4, <2>5, <2>6, <2>7 DEF Waiting
<1>7. Counts(r)
  <2> DEFINE F == Flight(s)
             G == F \ {n}
  <2>1. s.fast \in SUBSET Node /\ s.slow \in SUBSET Node /\ F \in SUBSET Node
        /\ s.inflight \in Nat
    BY <1>1 DEF State, Waiting
  <2>2. /\ IsFiniteSet(s.fast) /\ IsFiniteSet(s.slow) /\ IsFiniteSet(F)
        /\ Cardinality(s.fast) \in Nat /\ Cardinality(s.slow) \in Nat
        /\ Cardinality(F) \in Nat
    BY <2>1, NodesAreFinite
  <2>3. /\ s.fast \cap s.slow = {} /\ s.slows = Cardinality(s.slow)
        /\ Cardinality(s.fast) <= Most
        /\ Cardinality(F) <= s.inflight
        /\ ~gone => s.inflight = Cardinality(F)
    BY <1>1 DEF Counts
  <2>4. n \in F
    OBVIOUS
  <2> HIDE DEF F
  <2>5. Cardinality(G) = Cardinality(F) - 1
    BY <2>2, <2>4, FS_RemoveElement
  <2>6. r.inflight = s.inflight - 1
    BY DEF Settled
  <2>7. r.fast = s.fast \ {n} /\ r.slow = s.slow \ {n}
    BY DEF Settled
  <2>8. r.slows = Cardinality(r.slow)
    <3>1. CASE n \in s.slow
      <4>1. Cardinality(s.slow \ {n}) = Cardinality(s.slow) - 1
        BY <2>2, <3>1, FS_RemoveElement
      <4> QED
        BY <2>3, <2>7, <3>1, <4>1 DEF Settled
    <3>2. CASE n \notin s.slow
      <4>1. s.slow \ {n} = s.slow
        BY <3>2
      <4> QED
        BY <2>3, <2>7, <3>2, <4>1 DEF Settled
    <3> QED
      BY <3>1, <3>2
  <2>9. Cardinality(r.fast) <= Most
    <3>1. s.fast \ {n} \in SUBSET s.fast
      OBVIOUS
    <3>2. Cardinality(r.fast) <= Cardinality(s.fast) /\ Cardinality(r.fast) \in Nat
      BY <2>2, <2>7, <3>1, FS_Subset, FS_CardinalityType
    <3> QED
      BY <2>2, <2>3, <3>2, Parameters
  <2>10. r.fast \cap r.slow = {}
    BY <2>3, <2>7
  <2> HIDE DEF G
  <2>11. Cardinality(G) <= r.inflight /\ (~gone => r.inflight = Cardinality(G))
    BY <2>1, <2>2, <2>3, <2>5, <2>6
  <2> QED
    BY <1>3, <2>8, <2>9, <2>10, <2>11 DEF Counts, F, G
<1>8. Kept(r, V)
  <2>1. \A m \in V : r.seen[m] = "done"
    BY <1>1, <1>2, <1>5 DEF Kept
  <2>2. r.closest = s.closest
    BY DEF Settled
  <2> QED
    BY <1>1, <2>1, <2>2 DEF Kept
<1>9. Told(r, M)
  <2>1. \A m \in Node : s.refs[m] \subseteq Node
    BY <1>1 DEF State
  <2>2. /\ \A m \in Node : m # n => r.refs[m] = s.refs[m]
        /\ x = "open" => r.refs[n] = s.refs[n]
        /\ x # "open" => r.refs[n] = {}
    BY <1>1, <1>2 DEF Settled, State
  <2>3. \A k, m \in Node : <<k, m>> \in M /\ r.seen[m] = "new" => ~IsCloser(r, m)
    <3>1. \A m : IsCloser(r, m) <=> IsCloser(s, m)
      BY DEF IsCloser, Settled
    <3> QED
      BY <1>1, <1>5, <3>1 DEF Told
  <2>4. \A m \in Node : r.seen[m] = "new" => r.refs[m] = {}
    BY <1>1, <1>5, <2>2 DEF Told
  <2>5. ASSUME NEW k \in Node, NEW m \in Node, r.seen[m] = "open"
        PROVE  k \in r.refs[m] <=> <<k, m>> \in M
    <3>1. s.seen[m] = "open" /\ r.refs[m] = s.refs[m]
      BY <1>2, <1>5, <2>2, <2>5
    <3> QED
      BY <1>1, <3>1 DEF Told
  <2>6. ASSUME NEW k \in Node, NEW m \in Node
        PROVE  /\ <<k, m>> \in r.hinted => <<k, m>> \in M /\ r.seen[m] = "down"
               /\ ~gone /\ <<k, m>> \in M /\ r.seen[m] = "down" => <<k, m>> \in r.hinted
    <3>1. /\ <<k, m>> \in s.hinted => <<k, m>> \in M /\ s.seen[m] = "down"
          /\ ~gone /\ <<k, m>> \in M /\ s.seen[m] = "down" => <<k, m>> \in s.hinted
      BY <1>1 DEF Told
    <3>2. k \in s.refs[n] <=> <<k, n>> \in M
      BY <1>1, <1>2 DEF Told
    <3>3. CASE m # n
      <4>1. <<k, m>> \in r.hinted <=> <<k, m>> \in s.hinted
        BY <3>3 DEF Settled, Hints
      <4> QED
        BY <1>5, <3>1, <3>3, <4>1
    <3>4. CASE m = n /\ x = "down"
      <4>1. <<k, n>> \in r.hinted
              <=> <<k, n>> \in s.hinted \/ (~gone /\ k \in s.refs[n])
        BY <3>4 DEF Settled, Hints
      <4> QED
        BY <1>2, <1>5, <3>1, <3>2, <3>4, <4>1
    <3>5. CASE m = n /\ x # "down"
      <4>1. r.hinted = s.hinted
        BY <3>5 DEF Settled
      <4> QED
        BY <1>2, <1>5, <3>1, <3>5, <4>1
    <3> QED
      BY <3>3, <3>4, <3>5
  <2>7. M \subseteq Node \X Node
    BY <1>1 DEF Told
  <2> QED
    BY <2>3, <2>4, <2>5, <2>6, <2>7 DEF Told
<1>10. Reached(r, A)
  <2>1. \A m : IsCloser(r, m) <=> IsCloser(s, m)
    BY DEF IsCloser, Settled
  <2>2. r.pending = s.pending /\ r.commiting = s.commiting
    BY DEF Settled
  <2> QED
    BY <1>1, <1>2, <1>5, <2>1, <2>2 DEF Reached
<1>11. Decided(r)
  BY <1>1, <1>2 DEF Decided, Settled
<1> QED
  BY <1>3, <1>6, <1>7, <1>8, <1>9, <1>10, <1>11 DEF Good, Settled

\* _dec() field by field.
LEMMA DecIs ==
    ASSUME NEW s \in State, NEW n \in Node, s.inflight - 1 \in Nat,
           n \in s.slow => s.slows - 1 \in Nat, NEW r, r = Dec(s, n)
    PROVE  /\ r \in State
           /\ r.fast = s.fast \ {n} /\ r.slow = s.slow \ {n}
           /\ r.inflight = s.inflight - 1
           /\ n \in s.slow => r.slows = s.slows - 1
           /\ n \notin s.slow => r.slows = s.slows
           /\ r.pending = s.pending /\ r.closest = s.closest /\ r.commiting = s.commiting
           /\ r.phase = s.phase /\ r.commits = s.commits /\ r.good = s.good
           /\ r.seen = s.seen /\ r.refs = s.refs /\ r.hinted = s.hinted
<1> DEFINE slows == IF n \in s.slow THEN s.slows - 1 ELSE s.slows
           inflight == s.inflight - 1
           fast == s.fast \ {n}
           slow == s.slow \ {n}
<1>1. slows \in Nat /\ inflight \in Nat /\ fast \in SUBSET Node /\ slow \in SUBSET Node
  BY DEF State
<1>2. r = [s EXCEPT !.slows = slows, !.inflight = inflight, !.fast = fast, !.slow = slow]
  BY DEF Dec
<1>3. (n \in s.slow => slows = s.slows - 1) /\ (n \notin s.slow => slows = s.slows)
  OBVIOUS
<1> HIDE DEF slows, inflight, fast, slow
<1>4. /\ r \in State
      /\ r.fast = fast /\ r.slow = slow /\ r.inflight = inflight /\ r.slows = slows
      /\ r.pending = s.pending /\ r.closest = s.closest /\ r.commiting = s.commiting
      /\ r.phase = s.phase /\ r.commits = s.commits /\ r.good = s.good
      /\ r.seen = s.seen /\ r.refs = s.refs /\ r.hinted = s.hinted
  BY <1>1, <1>2 DEF State
<1> QED
  BY <1>3, <1>4 DEF inflight, fast, slow

\* A node that answers is done.
LEMMA AnsweredIs ==
    ASSUME NEW s, NEW A, NEW V, NEW M, Good(s, A, V, M), NEW n \in Flight(s), NEW r,
           r = [Dec(s, n) EXCEPT !.seen[n] = "done", !.refs[n] = {}]
    PROVE  Settled(r, s, n, "done")
<1>1. /\ s \in State /\ n \in Node /\ s.inflight - 1 \in Nat
      /\ n \in s.slow => s.slows - 1 \in Nat
  BY InFlight DEF Good
<1> DEFINE d == Dec(s, n)
           seen == [s.seen EXCEPT ![n] = "done"]
           refs == [s.refs EXCEPT ![n] = {}]
<1>2. r = [d EXCEPT !.seen[n] = "done", !.refs[n] = {}]
  OBVIOUS
<1> HIDE DEF d
<1>3. /\ d \in State
      /\ d.fast = s.fast \ {n} /\ d.slow = s.slow \ {n}
      /\ d.inflight = s.inflight - 1
      /\ n \in s.slow => d.slows = s.slows - 1
      /\ n \notin s.slow => d.slows = s.slows
      /\ d.pending = s.pending /\ d.closest = s.closest /\ d.commiting = s.commiting
      /\ d.phase = s.phase /\ d.commits = s.commits /\ d.good = s.good
      /\ d.seen = s.seen /\ d.refs = s.refs /\ d.hinted = s.hinted
  BY <1>1, DecIs DEF d
<1>4. seen \in [Node -> {"new", "open", "done", "down"}] /\ refs \in [Node -> SUBSET Node]
  BY <1>1 DEF State
<1>5. r = [d EXCEPT !.seen = seen, !.refs = refs]
  BY <1>2, <1>3 DEF State
<1> HIDE DEF seen, refs
<1>6. /\ r \in State /\ r.seen = seen /\ r.refs = refs
      /\ r.fast = d.fast /\ r.slow = d.slow /\ r.inflight = d.inflight /\ r.slows = d.slows
      /\ r.pending = d.pending /\ r.closest = d.closest /\ r.commiting = d.commiting
      /\ r.phase = d.phase /\ r.commits = d.commits /\ r.good = d.good
      /\ r.hinted = d.hinted
  BY <1>3, <1>4, <1>5 DEF State
<1> QED
  BY <1>3, <1>6 DEF Settled, seen, refs

\* The counters of answers and errors do not matter.
LEMMA ErrorIs ==
    ASSUME NEW s \in State, NEW r, r = [s EXCEPT !.errors = @ + 1]
    PROVE  r \in State /\ Same(r, s)
<1>1. s.errors + 1 \in Nat
  BY DEF State
<1> QED
  BY <1>1 DEF State, Same, Alike

\* A node that timed out is down, and one that failed otherwise stays as it was.
LEMMA TimedOutIs ==
    ASSUME NEW s, NEW A, NEW V, NEW M, Good(s, A, V, M), NEW n \in Flight(s), NEW r,
           r = [Dec([s EXCEPT !.seen[n] = "down", !.refs[n] = {},
                              !.hinted = @ \cup Hints(s.refs[n] \X {n})], n)
                  EXCEPT !.errors = @ + 1]
    PROVE  Settled(r, s, n, "down")
<1>1. /\ s \in State /\ n \in Node /\ s.inflight - 1 \in Nat
      /\ n \in s.slow => s.slows - 1 \in Nat
  BY InFlight DEF Good
<1> DEFINE told == [s EXCEPT !.seen[n] = "down", !.refs[n] = {},
                             !.hinted = @ \cup Hints(s.refs[n] \X {n})]
           seen == [s.seen EXCEPT ![n] = "down"]
           refs == [s.refs EXCEPT ![n] = {}]
           hinted == s.hinted \cup Hints(s.refs[n] \X {n})
           d == Dec(told, n)
<1>2. /\ seen \in [Node -> {"new", "open", "done", "down"}]
      /\ refs \in [Node -> SUBSET Node] /\ hinted \in SUBSET (Node \X Node)
  BY <1>1 DEF State, Hints
<1>3. told = [s EXCEPT !.seen = seen, !.refs = refs, !.hinted = hinted]
  BY <1>1 DEF State
<1>4. r = [d EXCEPT !.errors = @ + 1]
  OBVIOUS
<1> HIDE DEF told, seen, refs, hinted
<1>5. /\ told \in State /\ told.seen = seen /\ told.refs = refs /\ told.hinted = hinted
      /\ told.fast = s.fast /\ told.slow = s.slow
      /\ told.inflight = s.inflight /\ told.slows = s.slows
      /\ told.pending = s.pending /\ told.closest = s.closest
      /\ told.commiting = s.commiting
      /\ told.phase = s.phase /\ told.commits = s.commits /\ told.good = s.good
  BY <1>1, <1>2, <1>3 DEF State
<1>6. told.inflight - 1 \in Nat /\ (n \in told.slow => told.slows - 1 \in Nat)
  BY <1>1, <1>5
<1> HIDE DEF d
<1>7. /\ d \in State
      /\ d.fast = told.fast \ {n} /\ d.slow = told.slow \ {n}
      /\ d.inflight = told.inflight - 1
      /\ n \in told.slow => d.slows = told.slows - 1
      /\ n \notin told.slow => d.slows = told.slows
      /\ d.pending = told.pending /\ d.closest = told.closest
      /\ d.commiting = told.commiting
      /\ d.phase = told.phase /\ d.commits = told.commits /\ d.good = told.good
      /\ d.seen = told.seen /\ d.refs = told.refs /\ d.hinted = told.hinted
  BY <1>1, <1>5, <1>6, DecIs DEF d
<1>8. r \in State /\ Same(r, d)
  BY <1>4, <1>7, ErrorIs
<1> QED
  BY <1>5, <1>7, <1>8 DEF Settled, Same, Alike, seen, refs, hinted

LEMMA FailedIs ==
    ASSUME NEW s, NEW A, NEW V, NEW M, Good(s, A, V, M), NEW n \in Flight(s), NEW r,
           r = [Dec(s, n) EXCEPT !.errors = @ + 1]
    PROVE  Settled(r, s, n, "open")
<1>1. /\ s \in State /\ n \in Node /\ s.inflight - 1 \in Nat /\ s.seen[n] = "open"
      /\ n \in s.slow => s.slows - 1 \in Nat
  BY InFlight DEF Good
<1> DEFINE d == Dec(s, n)
<1>2. r = [d EXCEPT !.errors = @ + 1]
  OBVIOUS
<1> HIDE DEF d
<1>3. /\ d \in State
      /\ d.fast = s.fast \ {n} /\ d.slow = s.slow \ {n}
      /\ d.inflight = s.inflight - 1
      /\ n \in s.slow => d.slows = s.slows - 1
      /\ n \notin s.slow => d.slows = s.slows
      /\ d.pending = s.pending /\ d.closest = s.closest /\ d.commiting = s.commiting
      /\ d.phase = s.phase /\ d.commits = s.commits /\ d.good = s.good
      /\ d.seen = s.seen /\ d.refs = s.refs /\ d.hinted = s.hinted
  BY <1>1, DecIs DEF d
<1>4. r \in State /\ Same(r, d)
  BY <1>2, <1>3, ErrorIs
<1>5. s.seen = [s.seen EXCEPT ![n] = "open"]
  BY <1>1 DEF State
<1> QED
  BY <1>3, <1>4, <1>5 DEF Settled, Same, Alike

\* After the settling of a request more is asked.
LEMMA FailedKeeps ==
    ASSUME NEW s, NEW A, NEW V, NEW M, Good(s, A, V, M), NEW n \in Flight(s),
           NEW timeout \in BOOLEAN, NEW table \in Tables, NEW r,
           r = Failed(s, n, timeout, table)
    PROVE  /\ Good(r, A \cup Flight(r), V, M)
           /\ Flight(s) \ {n} \subseteq Flight(r) /\ Flight(r) \cap A \subseteq Flight(s)
<1> DEFINE t == [Dec([s EXCEPT !.seen[n] = "down", !.refs[n] = {},
                               !.hinted = @ \cup Hints(s.refs[n] \X {n})], n)
                   EXCEPT !.errors = @ + 1]
           u == [Dec(s, n) EXCEPT !.errors = @ + 1]
<1>1. \/ r = ReadMore(t, table)
      \/ r = ReadMore(u, table)
  <2>1. CASE timeout
    BY <2>1 DEF Failed
  <2>2. CASE ~timeout
    BY <2>2 DEF Failed
  <2> QED
    BY <2>1, <2>2
<1>2. Settled(t, s, n, "down")
  BY TimedOutIs
<1>3. Settled(u, s, n, "open")
  BY FailedIs
<1> HIDE DEF t, u
<1>4. Good(t, A, V, M) /\ Flight(t) = Flight(s) \ {n}
  BY <1>2, SettlesKeep
<1>5. Good(u, A, V, M) /\ Flight(u) = Flight(s) \ {n}
  BY <1>3, SettlesKeep
<1>6. s.phase # "opening"
  BY InFlight
<1>7. t.phase # "opening" /\ u.phase # "opening"
  BY <1>2, <1>3, <1>6 DEF Settled
<1>8. ASSUME NEW v, Good(v, A, V, M), Flight(v) = Flight(s) \ {n}, v.phase # "opening",
             r = ReadMore(v, table)
      PROVE  /\ Good(r, A \cup Flight(r), V, M)
             /\ Flight(s) \ {n} \subseteq Flight(r) /\ Flight(r) \cap A \subseteq Flight(s)
  <2>1. Good(r, A \cup Flight(r), V, M) /\ Onto(r, v, A)
    BY <1>8, ReadMoreKeeps
  <2> QED
    BY <1>8, <2>1 DEF Onto
<1> QED
  BY <1>1, <1>4, <1>5, <1>7, <1>8

\* A request that is slow is still in flight.
LEMMA CycledKeeps ==
    ASSUME NEW s, NEW A, NEW V, NEW M, Good(s, A, V, M), NEW n \in s.fast,
           NEW table \in Tables, NEW r, r = Cycled(s, n, table)
    PROVE  /\ Good(r, A \cup Flight(r), V, M)
           /\ Flight(s) \subseteq Flight(r) /\ Flight(r) \cap A \subseteq Flight(s)
<1> DEFINE t == [s EXCEPT !.fast = @ \ {n}, !.slow = @ \cup {n}, !.slows = @ + 1]
<1>1. s \in State /\ Waiting(s, A) /\ Counts(s) /\ Kept(s, V) /\ Told(s, M)
      /\ Reached(s, A) /\ Decided(s)
  BY DEF Good
<1>2. n \in Flight(s)
  BY DEF Flight
<1>3. n \in Node /\ s.phase # "opening"
  BY <1>2, InFlight
<1> DEFINE fast == s.fast \ {n}
           slow == s.slow \cup {n}
           slows == s.slows + 1
<1>4. fast \in SUBSET Node /\ slow \in SUBSET Node /\ slows \in Nat
  BY <1>1, <1>3 DEF State
<1>5. t = [s EXCEPT !.fast = fast, !.slow = slow, !.slows = slows]
  OBVIOUS
<1> HIDE DEF fast, slow, slows, t
<1>6. /\ t \in State
      /\ t.fast = fast /\ t.slow = slow /\ t.slows = slows
      /\ t.inflight = s.inflight
      /\ t.pending = s.pending /\ t.closest = s.closest /\ t.commiting = s.commiting
      /\ t.phase = s.phase /\ t.commits = s.commits /\ t.good = s.good
      /\ t.seen = s.seen /\ t.refs = s.refs /\ t.hinted = s.hinted
  BY <1>1, <1>4, <1>5 DEF State
<1>7. /\ t \in State
      /\ t.fast = s.fast \ {n} /\ t.slow = s.slow \cup {n} /\ t.slows = s.slows + 1
      /\ t.inflight = s.inflight
      /\ t.pending = s.pending /\ t.closest = s.closest /\ t.commiting = s.commiting
      /\ t.phase = s.phase /\ t.commits = s.commits /\ t.good = s.good
      /\ t.seen = s.seen /\ t.refs = s.refs /\ t.hinted = s.hinted
  BY <1>6 DEF fast, slow, slows
<1>8. r = ReadMore(t, table)
  BY DEF Cycled, t
<1>9. Flight(t) = Flight(s)
  BY <1>7 DEF Flight
<1>10. Counts(t)
  <2>1. s.fast \in SUBSET Node /\ s.slow \in SUBSET Node
    BY <1>1 DEF State
  <2>2. /\ IsFiniteSet(s.fast) /\ IsFiniteSet(s.slow)
        /\ Cardinality(s.fast) \in Nat /\ Cardinality(s.slow) \in Nat
    BY <2>1, NodesAreFinite
  <2>3. /\ s.fast \cap s.slow = {} /\ s.slows = Cardinality(s.slow)
        /\ Cardinality(s.fast) <= Most
        /\ Cardinality(Flight(s)) <= s.inflight
        /\ ~gone => s.inflight = Cardinality(Flight(s))
    BY <1>1 DEF Counts
  <2>4. n \notin s.slow
    BY <2>3
  <2>5. Cardinality(s.slow \cup {n}) = Cardinality(s.slow) + 1
    BY <2>2, <2>4, FS_AddElement
  <2>6. Cardinality(s.fast \ {n}) = Cardinality(s.fast) - 1
    BY <2>2, FS_RemoveElement
  <2>7. Cardinality(t.fast) <= Most
    BY <1>7, <2>2, <2>3, <2>6, Parameters
  <2>8. t.fast \cap t.slow = {} /\ t.slows = Cardinality(t.slow)
    BY <1>7, <2>3, <2>5
  <2> QED
    BY <1>7, <1>9, <2>3, <2>7, <2>8 DEF Counts
<1>11. Waiting(t, A) /\ Kept(t, V) /\ Told(t, M)
  BY <1>1, <1>7, <1>9 DEF Waiting, Kept, Told, IsCloser
<1>12. Reached(t, A)
  BY <1>1, <1>7 DEF Reached, IsCloser
<1>13. Decided(t)
  BY <1>1, <1>7, <1>9 DEF Decided
<1>14. Good(t, A, V, M)
  BY <1>7, <1>10, <1>11, <1>12, <1>13 DEF Good
<1>15. t.phase # "opening"
  BY <1>3, <1>7
<1>16. Good(r, A \cup Flight(r), V, M) /\ Onto(r, t, A)
  BY <1>8, <1>14, <1>15, ReadMoreKeeps
<1> QED
  BY <1>9, <1>16 DEF Onto

\* The members of two lists behind each other.
LEMMA JoinIs ==
    ASSUME NEW T, NEW x \in Seq(T), NEW y \in Seq(T)
    PROVE  /\ x \o y \in Seq(T) /\ Len(x \o y) = Len(x) + Len(y)
           /\ \A i \in 1..Len(x) : (x \o y)[i] = x[i]
           /\ \A i \in 1..Len(y) : (x \o y)[Len(x) + i] = y[i]
OBVIOUS

LEMMA PutIs ==
    ASSUME NEW x, NEW i, NEW n
    PROVE  InsertAt(x, i, n) = SubSeq(x, 1, i - 1) \o <<n>> \o SubSeq(x, i, Len(x))
BY DEF InsertAt

\* A number put in its place between the lesser and the greater ones of a list that
\* ascends: the list still ascends, and its last does not come nearer to the end.
Inserted(all, x, n) ==
    \E c \in 0..Len(x) :
        /\ all \in Seq(Node) /\ Len(all) = Len(x) + 1
        /\ \A i \in 1..c : all[i] = x[i] /\ x[i] < n
        /\ all[c + 1] = n
        /\ \A i \in c + 1..Len(x) : all[i + 1] = x[i] /\ n < x[i]

LEMMA InsertIs ==
    ASSUME NEW x \in Seq(Node), NEW n \in Node, n \notin ToSet(x),
           \A i, j \in DOMAIN x : i < j => x[i] < x[j],
           NEW all, all = InsertAt(x, Cardinality({i \in DOMAIN x : x[i] < n}) + 1, n)
    PROVE  Inserted(all, x, n)
<1> DEFINE L == Len(x)
           D == {i \in DOMAIN x : x[i] < n}
           P == {i \in 1..L : ~(x[i] < n)}
           p == Cardinality(P)
           c == L - p
<1>1. L \in Nat /\ DOMAIN x = 1..L /\ Node \in SUBSET Nat /\ \A i \in 1..L : x[i] \in Node
  BY Parameters
<1>2. \A i \in 1..L : x[i] # n
  BY <1>1 DEF ToSet
<1>3. \A i \in P : \A j \in i..L : j \in P
  <2> SUFFICES ASSUME NEW i \in P, NEW j \in i..L, i # j, x[j] < n PROVE FALSE
    BY <1>1
  <2>1. i \in 1..L /\ j \in 1..L /\ i < j
    BY <1>1
  <2>2. x[i] < x[j] /\ x[i] \in Nat /\ x[j] \in Nat /\ n \in Nat
    BY <1>1, <2>1
  <2> QED
    BY <2>2
<1>4. P \in SUBSET (1..L)
  OBVIOUS
<1>5. D = 1..L \ P
  BY <1>1
<1>6. \A i \in 1..L : i \in P <=> n < x[i]
  <2> SUFFICES ASSUME NEW i \in 1..L PROVE ~(x[i] < n) <=> n < x[i]
    OBVIOUS
  <2>1. x[i] \in Nat /\ n \in Nat
    BY <1>1
  <2> QED
    BY <1>2, <2>1
<1>7. \A i \in D : x[i] < n
  OBVIOUS
<1> HIDE DEF L, P, D
<1>8. p \in 0..L /\ P = L - p + 1..L
  BY <1>1, <1>3, <1>4, SuffixIs
<1> HIDE DEF p
<1>9. c \in 0..L /\ P = c + 1..L
  BY <1>1, <1>8
<1> HIDE DEF c
<1>10. D = 1..c
  BY <1>1, <1>5, <1>9
<1>11. Cardinality(D) = c
  BY <1>1, <1>9, <1>10, IntervalIs
<1>12. all = SubSeq(x, 1, c) \o <<n>> \o SubSeq(x, c + 1, L)
  <2> DEFINE d == c + 1
  <2>1. all = InsertAt(x, d, n)
    BY <1>11 DEF D
  <2>2. d - 1 = c
    BY <1>1, <1>9
  <2> HIDE DEF d
  <2>3. InsertAt(x, d, n) = SubSeq(x, 1, d - 1) \o <<n>> \o SubSeq(x, d, Len(x))
    BY Zenon, PutIs
  <2> QED
    BY <2>1, <2>2, <2>3 DEF L, d
<1> DEFINE y == SubSeq(x, 1, c)
           z == SubSeq(x, c + 1, L)
           w == y \o <<n>>
<1>13. c \in Nat /\ c <= L /\ L - c \in Nat
  BY <1>1, <1>9
<1>14. /\ y \in Seq(Node) /\ Len(y) = c /\ \A i \in 1..c : y[i] = x[i]
  BY <1>9, PrefixIs DEF L
<1>15. /\ z \in Seq(Node) /\ Len(z) = L - c
  BY <1>13 DEF L
<1>16. \A i \in 1..L - c : z[i] = x[c + i]
  BY <1>13 DEF L
<1>17. /\ y \in Seq(Node) /\ Len(y) = c /\ \A i \in 1..c : y[i] = x[i]
       /\ z \in Seq(Node) /\ Len(z) = L - c /\ \A i \in 1..L - c : z[i] = x[c + i]
  BY <1>14, <1>15, <1>16
<1> HIDE DEF y, z
<1>18. /\ w \in Seq(Node) /\ Len(w) = c + 1 /\ w[c + 1] = n
       /\ \A i \in 1..c : w[i] = x[i]
  BY <1>13, <1>17
<1>19. all = w \o z
  BY <1>12 DEF y, z
<1> HIDE DEF w
<1>20. /\ all \in Seq(Node) /\ Len(all) = L + 1
       /\ \A i \in 1..c + 1 : all[i] = w[i]
       /\ \A i \in 1..L - c : all[c + 1 + i] = z[i]
  <2>1. all \in Seq(Node) /\ Len(all) = c + 1 + (L - c)
    <3>1. w \o z \in Seq(Node) /\ Len(w \o z) = Len(w) + Len(z)
      BY <1>17, <1>18, JoinIs
    <3> QED
      BY <1>17, <1>18, <1>19, <3>1
  <2>2. \A i \in 1..c + 1 : all[i] = w[i]
    <3>1. \A i \in 1..Len(w) : (w \o z)[i] = w[i]
      BY <1>17, <1>18, JoinIs
    <3> QED
      BY <1>18, <1>19, <3>1
  <2>3. \A i \in 1..L - c : all[c + 1 + i] = z[i]
    <3>1. \A i \in 1..Len(z) : (w \o z)[Len(w) + i] = z[i]
      BY <1>17, <1>18, JoinIs
    <3> QED
      BY <1>17, <1>18, <1>19, <3>1
  <2> QED
    BY <1>1, <1>13, <2>1, <2>2, <2>3
<1>21. \A i \in 1..c : all[i] = x[i] /\ x[i] < n
  BY <1>1, <1>7, <1>9, <1>10, <1>18, <1>20
<1>22. all[c + 1] = n
  BY <1>1, <1>9, <1>18, <1>20
<1>23. ASSUME NEW i \in c + 1..L PROVE all[i + 1] = x[i] /\ n < x[i]
  <2>1. i - c \in 1..L - c /\ c + 1 + (i - c) = i + 1 /\ c + (i - c) = i /\ i \in 1..L
    BY <1>1, <1>9
  <2>2. all[c + 1 + (i - c)] = z[i - c] /\ z[i - c] = x[c + (i - c)]
    BY <1>17, <1>20, <2>1
  <2>3. n < x[i]
    BY <1>6, <1>9, <2>1
  <2> QED
    BY <2>1, <2>2, <2>3
<1> QED
  BY <1>9, <1>20, <1>21, <1>22, <1>23 DEF Inserted, L

\* A node that answered well and is closer than the last of those kept takes its
\* place among them, and then none that answered well is nearer than any kept
\* that is not kept itself; whoever was not closer before is not closer now.
LEMMA PushIs ==
    ASSUME NEW s \in State, NEW V, Kept(s, V), NEW n \in Node, n \notin V,
           s.seen[n] = "done", IsCloser(s, n), NEW y, y = PushClosest(s, n).closest
    PROVE  /\ y \in Seq(Node) /\ ToSet(y) \subseteq V \cup {n}
           /\ \A i, j \in DOMAIN y : i < j => y[i] < y[j]
           /\ Len(y) = (IF Cardinality(V \cup {n}) <= K THEN Cardinality(V \cup {n}) ELSE K)
           /\ \A m \in (V \cup {n}) \ ToSet(y) : \A i \in DOMAIN y : y[i] < m
           /\ Len(y) < K => V \cup {n} \subseteq ToSet(y)
           /\ \A m \in Node : ~IsCloser(s, m) => ~(Len(y) < K) /\ ~(m < y[Len(y)])
<1> DEFINE x == s.closest
           L == Len(x)
           at == Cardinality({i \in DOMAIN x : x[i] < n}) + 1
           all == InsertAt(x, at, n)
<1>1. /\ x \in Seq(Node) /\ L \in Nat /\ DOMAIN x = 1..L /\ K \in Nat /\ K # 0
      /\ \A i \in 1..L : x[i] \in Node
      /\ Node \in SUBSET Nat /\ n \in Nat
  BY Parameters DEF State
<1>2. /\ V \subseteq Node /\ ToSet(x) \subseteq V
      /\ \A i, j \in 1..L : i < j => x[i] < x[j]
      /\ L = (IF Cardinality(V) <= K THEN Cardinality(V) ELSE K)
      /\ \A m \in V \ ToSet(x) : \A i \in 1..L : x[i] < m
      /\ L < K => V \subseteq ToSet(x)
  BY <1>1 DEF Kept
<1>3. L < K \/ n < x[L]
  BY DEF IsCloser, Last
<1>4. y = IF Len(all) > K THEN Front(all) ELSE all
  BY DEF PushClosest, State
<1>5. n \notin ToSet(x) /\ \A i, j \in DOMAIN x : i < j => x[i] < x[j]
  BY <1>1, <1>2
<1>6. \A m : IsCloser(s, m) <=> L < K \/ m < x[L]
  BY DEF IsCloser, Last
<1> HIDE DEF x
<1>7. Inserted(all, x, n)
  BY <1>1, <1>5, InsertIs
<1> HIDE DEF at, all, L
<1>8. PICK c \in 0..L :
        /\ all \in Seq(Node) /\ Len(all) = L + 1
        /\ \A i \in 1..c : all[i] = x[i] /\ x[i] < n
        /\ all[c + 1] = n
        /\ \A i \in c + 1..L : all[i + 1] = x[i] /\ n < x[i]
  BY <1>7 DEF Inserted, L
<1>9. \A i \in 1..L : i \in 1..c \/ i \in c + 1..L
  BY <1>1
<1>10. \A i \in 1..L + 1 : i \in 1..c \/ i = c + 1 \/ (i - 1 \in c + 1..L /\ i - 1 + 1 = i)
  BY <1>1
<1>11. \A i \in 1..L : x[i] \in Nat
  BY <1>1
<1>12. \A i, j \in 1..L + 1 : i < j => all[i] < all[j]
  <2> SUFFICES ASSUME NEW i \in 1..L + 1, NEW j \in 1..L + 1, i < j PROVE all[i] < all[j]
    OBVIOUS
  <2>1. CASE i \in 1..c
    <3>1. all[i] = x[i] /\ x[i] < n /\ i \in 1..L
      BY <1>1, <1>8, <2>1
    <3>2. CASE j \in 1..c
      <4>1. all[j] = x[j] /\ j \in 1..L
        BY <1>1, <1>8, <3>2
      <4> QED
        BY <1>2, <3>1, <4>1
    <3>3. CASE j = c + 1
      BY <1>8, <3>1, <3>3
    <3>4. CASE j - 1 \in c + 1..L /\ j - 1 + 1 = j
      <4>1. all[j] = x[j - 1] /\ n < x[j - 1] /\ j - 1 \in 1..L
        BY <1>1, <1>8, <3>4
      <4>2. x[i] \in Nat /\ x[j - 1] \in Nat
        BY <1>11, <3>1, <4>1
      <4> QED
        BY <1>1, <3>1, <4>1, <4>2
    <3> QED
      BY <1>10, <3>2, <3>3, <3>4
  <2>2. CASE i = c + 1
    <3>1. j - 1 \in c + 1..L /\ j - 1 + 1 = j
      BY <1>1, <2>2
    <3>2. all[j] = x[j - 1] /\ n < x[j - 1]
      BY <1>8, <3>1
    <3> QED
      BY <1>8, <2>2, <3>2
  <2>3. CASE i - 1 \in c + 1..L /\ i - 1 + 1 = i
    <3>1. j - 1 \in c + 1..L /\ j - 1 + 1 = j /\ i - 1 < j - 1
      BY <1>1, <2>3
    <3>2. all[j] = x[j - 1] /\ all[i] = x[i - 1]
      BY <1>8, <2>3, <3>1
    <3>3. i - 1 \in 1..L /\ j - 1 \in 1..L
      BY <1>1, <2>3, <3>1
    <3> QED
      BY <1>2, <3>1, <3>2, <3>3
  <2> QED
    BY <1>10, <2>1, <2>2, <2>3
<1>13. \A i \in 1..L + 1 : all[i] \in ToSet(x) \cup {n}
  <2> SUFFICES ASSUME NEW i \in 1..L + 1 PROVE all[i] \in ToSet(x) \cup {n}
    OBVIOUS
  <2>1. \A j \in 1..L : x[j] \in ToSet(x)
    BY <1>1 DEF ToSet
  <2>2. (i \in 1..c => i \in 1..L) /\ (i - 1 \in c + 1..L => i - 1 \in 1..L)
    BY <1>1
  <2> QED
    BY <1>8, <1>10, <2>1, <2>2
<1>14. c + 1 \in 1..L + 1 /\ L + 1 \in 1..L + 1 /\ L \in 0..L
  BY <1>1
<1>15. \A i \in 1..L : \E j \in 1..L + 1 : all[j] = x[i] /\ (i < L => j < L + 1)
  <2> SUFFICES ASSUME NEW i \in 1..L
               PROVE  \E j \in 1..L + 1 : all[j] = x[i] /\ (i < L => j < L + 1)
    OBVIOUS
  <2>1. CASE i \in 1..c
    <3>1. i \in 1..L + 1 /\ all[i] = x[i] /\ i < L + 1
      BY <1>1, <1>8, <2>1
    <3> QED
      BY <3>1
  <2>2. CASE i \in c + 1..L
    <3>1. i + 1 \in 1..L + 1 /\ all[i + 1] = x[i] /\ (i < L => i + 1 < L + 1)
      BY <1>1, <1>8, <2>2
    <3> QED
      BY <3>1
  <2> QED
    BY <1>9, <2>1, <2>2
<1>16. /\ Cardinality(V) \in Nat /\ IsFiniteSet(V)
       /\ Cardinality(V \cup {n}) = Cardinality(V) + 1
  BY <1>2, NodesAreFinite, FS_AddElement
<1>17. L <= K
  BY <1>1, <1>2, <1>16
<1>18. CASE L < K
  <2>1. y = all
    BY <1>1, <1>4, <1>8, <1>18
  <2>2. Len(y) = L + 1 /\ DOMAIN y = 1..L + 1 /\ y \in Seq(Node)
    BY <1>1, <1>8, <2>1
  <2>3. ToSet(y) \subseteq V \cup {n}
    BY <1>2, <1>13, <2>1, <2>2 DEF ToSet
  <2>4. V \cup {n} \subseteq ToSet(y)
    <3>1. n \in ToSet(y)
      BY <1>8, <1>14, <2>1, <2>2 DEF ToSet
    <3>2. ASSUME NEW m \in V PROVE m \in ToSet(y)
      <4>1. m \in ToSet(x)
        BY <1>2, <1>18
      <4>2. PICK i \in 1..L : m = x[i]
        BY <1>1, <4>1 DEF ToSet
      <4>3. PICK j \in 1..L + 1 : all[j] = x[i]
        BY <1>15
      <4> QED
        BY <2>1, <2>2, <4>2, <4>3 DEF ToSet
    <3> QED
      BY <3>1, <3>2
  <2>5. L = Cardinality(V)
    BY <1>1, <1>2, <1>16, <1>18
  <2>6. Len(y) = (IF Cardinality(V \cup {n}) <= K THEN Cardinality(V \cup {n}) ELSE K)
    BY <1>1, <1>16, <1>18, <2>2, <2>5
  <2>7. \A m \in Node : IsCloser(s, m)
    BY <1>6, <1>18
  <2> QED
    BY <1>12, <2>1, <2>2, <2>3, <2>4, <2>6, <2>7
<1>19. CASE L = K
  <2>1. y = Front(all)
    BY <1>1, <1>4, <1>8, <1>19
  <2>2. y = SubSeq(all, 1, L)
    <3>1. Len(all) - 1 = L
      BY <1>1, <1>8
    <3> QED
      BY <2>1, <3>1 DEF Front
  <2>3. L \in 0..Len(all)
    BY <1>1, <1>8
  <2>4. /\ y \in Seq(Node) /\ Len(y) = L /\ DOMAIN y = 1..L
        /\ \A i \in 1..L : y[i] = all[i]
    BY <1>8, <2>2, <2>3, PrefixIs
  <2>5. L \in 1..L /\ n < x[L]
    BY <1>1, <1>3, <1>19
  <2>6. c < L
    <3> SUFFICES ASSUME c = L PROVE FALSE
      BY <1>1
    <3>1. x[L] < n
      BY <1>8, <2>5
    <3> QED
      BY <1>1, <1>11, <2>5, <3>1
  <2>7. all[L + 1] = x[L]
    <3>1. L \in c + 1..L
      BY <1>1, <2>6
    <3> QED
      BY <1>8, <3>1
  <2>8. \A i \in 1..L : i \in 1..L + 1 /\ i < L + 1
    BY <1>1
  <2>9. \A i, j \in 1..L : i < j => y[i] < y[j]
    BY <1>12, <2>4, <2>8
  <2>10. ToSet(y) \subseteq V \cup {n}
    BY <1>2, <1>13, <2>4, <2>8 DEF ToSet
  <2>11. \A i \in 1..L : y[i] < x[L]
    BY <1>12, <1>14, <2>4, <2>7, <2>8
  <2>12. \A i \in 1..L : y[i] \in Nat
    <3>1. \A i \in 1..Len(y) : y[i] \in Node
      BY <2>4, ListIs
    <3> QED
      BY <1>1, <2>4, <3>1
  <2>13. n \in ToSet(y)
    <3>1. c + 1 \in 1..L
      BY <1>1, <2>6
    <3> QED
      BY <1>8, <2>4, <3>1 DEF ToSet
  <2>14. ASSUME NEW m \in (V \cup {n}) \ ToSet(y), NEW k \in 1..L PROVE y[k] < m
    <3>1. m \in V /\ m \in Nat
      BY <1>1, <1>2, <2>13, <2>14
    <3>2. CASE m \in ToSet(x)
      <4>1. PICK i \in 1..L : m = x[i]
        BY <1>1, <3>2 DEF ToSet
      <4>2. PICK j \in 1..L + 1 : all[j] = x[i] /\ (i < L => j < L + 1)
        BY <1>15
      <4>3. CASE i = L
        BY <2>11, <4>1, <4>3
      <4>4. CASE i < L
        <5>1. j \in 1..L
          BY <1>1, <4>2, <4>4
        <5>2. m \in ToSet(y)
          BY <2>4, <4>1, <4>2, <5>1 DEF ToSet
        <5> QED
          BY <2>14, <5>2
      <4> QED
        BY <1>1, <4>3, <4>4
    <3>3. CASE m \notin ToSet(x)
      <4>1. x[L] < m
        BY <1>2, <2>5, <3>1, <3>3
      <4>2. y[k] < x[L] /\ y[k] \in Nat /\ x[L] \in Nat
        BY <1>1, <1>11, <2>12, <2>5, <2>11
      <4> QED
        BY <3>1, <4>1, <4>2
    <3> QED
      BY <3>2, <3>3
  <2>15. ASSUME NEW m \in Node, ~IsCloser(s, m) PROVE ~(Len(y) < K) /\ ~(m < y[Len(y)])
    <3>1. ~(m < x[L])
      BY <1>6, <2>15
    <3>2. y[L] < x[L] /\ y[L] \in Nat /\ x[L] \in Nat /\ m \in Nat
      BY <1>1, <1>11, <2>12, <2>5, <2>11
    <3> QED
      BY <1>1, <1>19, <2>4, <3>1, <3>2
  <2>16. Len(y) = (IF Cardinality(V \cup {n}) <= K THEN Cardinality(V \cup {n}) ELSE K)
    BY <1>1, <1>2, <1>16, <1>19, <2>4
  <2>17. ~(Len(y) < K)
    BY <1>1, <1>19, <2>4
  <2> QED
    BY <2>4, <2>9, <2>10, <2>14, <2>15, <2>16, <2>17
<1> QED
  BY <1>1, <1>17, <1>18, <1>19

\* A good answer counts and is kept if it is near enough: the invariant holds with
\* the node among those that answered well.
LEMMA PushKeeps ==
    ASSUME NEW s, NEW A, NEW V, NEW M, Good(s, A, V, M), ~s.commiting,
           NEW n \in A, n \notin V, s.seen[n] = "done", IsCloser(s, n),
           NEW r, r = PushClosest(s, n)
    PROVE  /\ Good(r, A, V \cup {n}, M)
           /\ Flight(r) = Flight(s) /\ r.phase = s.phase /\ ~r.commiting
<1>1. s \in State /\ Waiting(s, A) /\ Counts(s) /\ Kept(s, V) /\ Told(s, M)
      /\ Reached(s, A) /\ Decided(s)
  BY DEF Good
<1>2. n \in Node
  BY <1>1 DEF Waiting
<1> DEFINE y == r.closest
<1>3. /\ y \in Seq(Node) /\ ToSet(y) \subseteq V \cup {n}
      /\ \A i, j \in DOMAIN y : i < j => y[i] < y[j]
      /\ Len(y) = (IF Cardinality(V \cup {n}) <= K THEN Cardinality(V \cup {n}) ELSE K)
      /\ \A m \in (V \cup {n}) \ ToSet(y) : \A i \in DOMAIN y : y[i] < m
      /\ Len(y) < K => V \cup {n} \subseteq ToSet(y)
      /\ \A m \in Node : ~IsCloser(s, m) => ~(Len(y) < K) /\ ~(m < y[Len(y)])
  BY <1>1, <1>2, PushIs
<1>4. r = [s EXCEPT !.closest = y]
  BY <1>1 DEF PushClosest, State
<1> HIDE DEF y
<1>5. /\ r \in State /\ r.closest = y
      /\ r.seen = s.seen /\ r.refs = s.refs /\ r.pending = s.pending
      /\ r.fast = s.fast /\ r.slow = s.slow /\ r.inflight = s.inflight
      /\ r.slows = s.slows /\ r.commiting = s.commiting /\ r.hinted = s.hinted
      /\ r.phase = s.phase /\ r.commits = s.commits /\ r.good = s.good
  BY <1>1, <1>3, <1>4 DEF State
<1>6. Waiting(r, A) /\ Counts(r)
  BY <1>1, <1>5 DEF Waiting, Counts, Flight
<1>7. Kept(r, V \cup {n})
  <2>1. V \cup {n} \subseteq Node /\ \A m \in V \cup {n} : r.seen[m] = "done"
    BY <1>1, <1>2, <1>5 DEF Kept
  <2> QED
    BY <1>3, <1>5, <2>1 DEF Kept
<1>8. \A m \in Node : ~IsCloser(s, m) => ~IsCloser(r, m)
  BY <1>3, <1>5 DEF IsCloser, Last
<1>9. ~r.commiting
  BY <1>5
<1>10. Told(r, M)
  BY <1>1, <1>5, <1>8 DEF Told
<1>11. Reached(r, A)
  BY <1>1, <1>5, <1>8, <1>9 DEF Reached
<1>12. Decided(r)
  BY <1>1, <1>5 DEF Decided, Flight
<1> QED
  BY <1>5, <1>6, <1>7, <1>9, <1>10, <1>11, <1>12 DEF Good, Flight

\* So it does when it is not near enough.
LEMMA FarKeeps ==
    ASSUME NEW s, NEW A, NEW V, NEW M, Good(s, A, V, M),
           NEW n \in A, n \notin V, s.seen[n] = "done", ~IsCloser(s, n)
    PROVE  Good(s, A, V \cup {n}, M)
<1>1. s \in State /\ Waiting(s, A) /\ Kept(s, V)
  BY DEF Good
<1> DEFINE x == s.closest
           L == Len(x)
<1>2. /\ L \in Nat /\ DOMAIN x = 1..L /\ K \in Nat /\ K # 0 /\ n \in Nat /\ n \in Node
      /\ \A i \in 1..L : x[i] \in Nat /\ x[i] \in V
  <2>1. n \in Node /\ x \in Seq(Node)
    BY <1>1 DEF Waiting, State
  <2>2. \A i \in 1..L : x[i] \in Node
    BY <2>1, ListIs
  <2>3. \A i \in 1..L : x[i] \in V
    BY <1>1, <2>1 DEF Kept, ToSet
  <2>4. Node \in SUBSET Nat /\ K \in Nat /\ K # 0
    BY Parameters
  <2>5. L \in Nat /\ DOMAIN x = 1..L
    BY <2>1, ListIs
  <2>6. \A i \in 1..L : x[i] \in Nat /\ x[i] \in V
    BY <2>2, <2>3, <2>4
  <2> QED
    BY <2>1, <2>4, <2>5, <2>6
<1>3. /\ V \subseteq Node /\ \A m \in V : s.seen[m] = "done"
      /\ ToSet(x) \subseteq V
      /\ \A i, j \in 1..L : i < j => x[i] < x[j]
      /\ L = (IF Cardinality(V) <= K THEN Cardinality(V) ELSE K)
      /\ \A m \in V \ ToSet(x) : \A i \in 1..L : x[i] < m
  BY <1>1, <1>2 DEF Kept
<1>4. ~(L < K) /\ ~(n < x[L])
  BY DEF IsCloser, Last
<1> HIDE DEF x
<1>5. /\ Cardinality(V) \in Nat /\ Cardinality(V \cup {n}) = Cardinality(V) + 1
  BY <1>3, NodesAreFinite, FS_AddElement
<1> HIDE DEF L
<1>6. L = K
  BY <1>2, <1>3, <1>4, <1>5
<1>7. L = (IF Cardinality(V \cup {n}) <= K THEN Cardinality(V \cup {n}) ELSE K)
  BY <1>2, <1>3, <1>5, <1>6
<1>8. \A i \in 1..L : x[i] < n
  <2> SUFFICES ASSUME NEW i \in 1..L PROVE x[i] < n
    OBVIOUS
  <2>1. L \in 1..L
    BY <1>2, <1>6
  <2>2. x[L] < n
    BY <1>2, <1>4, <2>1
  <2>3. i = L \/ x[i] < x[L]
    BY <1>2, <1>3, <2>1
  <2> QED
    BY <1>2, <2>1, <2>2, <2>3
<1>9. \A m \in (V \cup {n}) \ ToSet(x) : \A i \in 1..L : x[i] < m
  BY <1>3, <1>8
<1>10. Kept(s, V \cup {n})
  BY <1>1, <1>2, <1>3, <1>4, <1>7, <1>9 DEF Kept, x, L
<1> QED
  BY <1>10 DEF Good

LEMMA CountedKeeps ==
    ASSUME NEW s, NEW A, NEW V, NEW M, Good(s, A, V, M), ~s.commiting,
           NEW n \in A, n \notin V, s.seen[n] = "done",
           NEW ok \in BOOLEAN, NEW withId \in BOOLEAN,
           NEW r, r = Counted(s, n, ok, withId)
    PROVE  /\ ok /\ withId => Good(r, A, V \cup {n}, M)
           /\ ~(ok /\ withId) => Good(r, A, V, M)
           /\ Flight(r) = Flight(s) /\ r.phase = s.phase /\ ~r.commiting
<1> DEFINE t == [s EXCEPT !.successes = @ + 1]
           u == [s EXCEPT !.errors = @ + 1]
<1>1. s \in State
  BY DEF Good
<1>2. s.successes + 1 \in Nat /\ s.errors + 1 \in Nat
  BY <1>1 DEF State
<1>3. t \in State /\ Same(t, s)
  BY <1>1, <1>2 DEF State, Same, Alike
<1>4. u \in State /\ Same(u, s)
  BY <1>1, ErrorIs
<1>5. /\ ok /\ withId /\ IsCloser(s, n) => r = PushClosest(t, n)
      /\ ok /\ ~(withId /\ IsCloser(s, n)) => r = t
      /\ ~ok => r = u
  BY DEF Counted
<1> HIDE DEF t, u
<1>6. Good(t, A, V, M) /\ Good(u, A, V, M)
  BY <1>3, <1>4, SameKeeps
<1>7. /\ Flight(t) = Flight(s) /\ t.phase = s.phase /\ t.commiting = s.commiting
      /\ Flight(u) = Flight(s) /\ u.phase = s.phase /\ u.commiting = s.commiting
      /\ t.seen = s.seen /\ t.closest = s.closest
  BY <1>3, <1>4 DEF Same, Alike, Flight
<1>8. IsCloser(t, n) <=> IsCloser(s, n)
  BY <1>7 DEF IsCloser
<1>9. CASE ok /\ withId /\ IsCloser(s, n)
  <2>1. r = PushClosest(t, n)
    BY <1>5, <1>9
  <2>2. IsCloser(t, n) /\ t.seen[n] = "done" /\ ~t.commiting
    BY <1>7, <1>8, <1>9
  <2>3. /\ Good(r, A, V \cup {n}, M)
        /\ Flight(r) = Flight(t) /\ r.phase = t.phase /\ ~r.commiting
    BY <1>6, <2>1, <2>2, PushKeeps
  <2> QED
    BY <1>7, <1>9, <2>3
<1>10. CASE ok /\ withId /\ ~IsCloser(s, n)
  <2>1. r = t
    BY <1>5, <1>10
  <2>2. Good(t, A, V \cup {n}, M)
    BY <1>6, <1>7, <1>8, <1>10, FarKeeps
  <2> QED
    BY <1>7, <1>10, <2>1, <2>2
<1>11. CASE ok /\ ~withId
  <2>1. r = t
    BY <1>5, <1>11
  <2> QED
    BY <1>6, <1>7, <1>11, <2>1
<1>12. CASE ~ok
  <2>1. r = u
    BY <1>5, <1>12
  <2> QED
    BY <1>6, <1>7, <1>12, <2>1
<1> QED
  BY <1>9, <1>10, <1>11, <1>12

\* What is considered of a list is a list.
LEMMA ConsideredIs ==
    ASSUME NEW s, NEW list \in Seq(Node)
    PROVE  Considered(s, list) \in Seq(Node) /\ ToSet(Considered(s, list)) \subseteq ToSet(list)
<1> DEFINE far == {i \in DOMAIN list : ~IsCloser(s, list[i])}
           first == CHOOSE i \in far : \A j \in far : i <= j
<1>1. Len(list) \in Nat /\ DOMAIN list = 1..Len(list)
  OBVIOUS
<1>2. far \in SUBSET (1..Len(list)) /\ far \in SUBSET Nat
  BY <1>1
<1>3. far = {} => Considered(s, list) = list
  BY DEF Considered
<1>4. far # {} => Considered(s, list) = SubSeq(list, 1, first)
  BY DEF Considered
<1> HIDE DEF far
<1>5. ASSUME far # {} PROVE first \in far
  <2>1. IsFiniteSet(1..Len(list))
    BY <1>1, IntervalIs
  <2>2. IsFiniteSet(far)
    BY <1>2, <2>1, FS_Subset
  <2>3. \E i \in far : \A j \in far : i <= j
    BY <1>2, <1>5, <2>2, LeastIs
  <2> QED
    BY <2>3
<1> HIDE DEF first
<1>6. ASSUME far # {}, NEW z, z = SubSeq(list, 1, first)
      PROVE  z \in Seq(Node) /\ ToSet(z) \subseteq ToSet(list)
  <2>1. first \in 0..Len(list)
    <3>1. first \in far
      BY <1>5, <1>6
    <3> QED
      BY <1>1, <1>2, <3>1
  <2>2. /\ z \in Seq(Node) /\ DOMAIN z = 1..first
        /\ \A i \in 1..first : z[i] = list[i] /\ i \in 1..Len(list)
    BY <1>1, <1>6, <2>1, PrefixIs
  <2> QED
    BY <1>1, <2>2 DEF ToSet
<1> QED
  BY <1>3, <1>4, <1>6

\* A step from s to r drops no request and makes none again.
Asks(r, s, A) == Flight(s) \subseteq Flight(r) /\ Flight(r) \cap A \subseteq Flight(s)

\* What an answer teaches keeps the invariant, with the pairs Answer() notes.
LEMMA LearnedKeeps ==
    ASSUME NEW s, NEW A, NEW V, NEW M, Good(s, A, V, M), ~s.commiting,
           s.phase # "opening", NEW n \in Node, NEW list \in Seq(Node),
           NEW ok \in BOOLEAN, NEW data \in BOOLEAN, NEW table \in Tables,
           NEW r, r = Learned(s, n, list, ok, data, table)
    PROVE  Good(r, A \cup Flight(r), V, M \cup NamedBy(list, n)) /\ Asks(r, s, A)
<1> DEFINE c    == AddAll(s, list, n)
           calm == [c EXCEPT !.slowdown = @ /\ (c.fromTable
                                             \/ c.successes + c.errors < c.concurrency)]
           put  == [calm EXCEPT !.buffered = @ + 1, !.needsPush = FALSE]
           M1   == M \cup NamedBy(list, n)
<1>1. r = ReadMore(calm, table) \/ r = ReadMore(put, table) \/ r = put
  <2>1. r = IF ~ok \/ ~data THEN ReadMore(calm, table)
            ELSE IF put.buffered < HighWater THEN ReadMore(put, table)
            ELSE put
    BY DEF Learned
  <2> HIDE DEF c, calm, put
  <2> QED
    BY <2>1
<1> HIDE DEF c
<1>2. Good(c, A, V, M1) /\ Alike(c, s) /\ Grown(c, s)
  BY AddAllKeeps DEF c
<1>3. s \in State /\ c \in State
  BY <1>2 DEF Good
<1> DEFINE slow == c.slowdown /\ (c.fromTable \/ c.successes + c.errors < c.concurrency)
<1>4. slow \in BOOLEAN
  BY <1>3 DEF State
<1>5. calm = [c EXCEPT !.slowdown = slow]
  BY <1>3 DEF State
<1> HIDE DEF slow, calm
<1>6. calm \in State /\ Same(calm, c)
  BY <1>3, <1>4, <1>5 DEF State, Same, Alike
<1>7. calm.buffered + 1 \in Nat
  BY <1>6 DEF State
<1>8. put \in State /\ Same(put, calm)
  BY <1>6, <1>7 DEF State, Same, Alike
<1> HIDE DEF put
<1>9. Same(put, c)
  BY <1>6, <1>8 DEF Same, Alike
<1> HIDE DEF M1
<1>10. ASSUME NEW v \in State, Same(v, c), r = ReadMore(v, table) \/ r = v
       PROVE  Good(r, A \cup Flight(r), V, M \cup NamedBy(list, n)) /\ Asks(r, s, A)
  <2>1. Good(v, A, V, M1)
    BY <1>2, <1>10, SameKeeps
  <2>2. v.phase # "opening" /\ Flight(v) = Flight(s) /\ v.closest = s.closest
        /\ v.seen = c.seen /\ v.closest = c.closest
    BY <1>2, <1>10 DEF Same, Alike, Flight
  <2>3. Good(r, A \cup Flight(r), V, M1) /\ Onto(r, v, A)
    <3>1. CASE r = ReadMore(v, table)
      BY <2>1, <2>2, <3>1, ReadMoreKeeps
    <3>2. CASE r = v
      <4>1. A \cup Flight(v) = A
        BY <2>1 DEF Good, Waiting
      <4>2. Onto(v, v, A)
        BY <2>2 DEF Onto, Grown
      <4> QED
        BY <2>1, <3>2, <4>1, <4>2
    <3> QED
      BY <1>10, <3>1, <3>2
  <2> QED
    BY <2>2, <2>3 DEF Onto, Asks, M1
<1> QED
  BY <1>1, <1>6, <1>8, <1>9, <1>10

-----------------------------------------------------------------------------
(* The handlers.                                                           *)

\* A handler that reads no reply changes nothing about the names.
LEMMA SameNames ==
    ASSUME IInv, UNCHANGED named
    PROVE  Met' = Met /\ Names'
BY DEF IInv, Met, Names

\* What a handler leaves is good in the next state, in which the options are the
\* same and the node stays destroyed if it was.
LEMMA Primes ==
    ASSUME IInv, opts' = opts, gone' \in BOOLEAN, gone => gone',
           Good(q', asked', verified', Met'), Names'
    PROVE  IInv'
<1>1. (q \in State)'
  BY DEF Good
<1>2. Waiting(q, asked)' /\ Kept(q, verified)' /\ Told(q, Met)'
  BY DEF Good, Waiting, Kept, Told, Flight, IsCloser
<1>3. Counts(q)'
  BY DEF Good, Counts, Flight
<1>4. Reached(q, asked)'
  BY DEF Good, Reached, IsCloser
<1>5. Decided(q)'
  BY DEF Good, Decided, Flight
<1>6. (opts \in Options /\ gone \in BOOLEAN)'
  BY DEF IInv
<1>7. Good(q, asked, verified, Met)'
  BY <1>1, <1>2, <1>3, <1>4, <1>5 DEF Good
<1> QED
  BY <1>6, <1>7 DEF IInv

\* A request that was made is not made again.
NoneAgain == \A n \in asked : n \in q'.fast \cup q'.slow => n \in q.fast \cup q.slow

\* The same, when a handler ends with Becomes().
LEMMA BecomesIs ==
    ASSUME IInv, UNCHANGED <<opts, gone>>, Names', NEW s, Becomes(s),
           Good(s, asked \cup Flight(s), verified', Met'),
           Flight(s) \cap asked \subseteq Flight(q)
    PROVE  IInv' /\ NoneAgain
<1>1. q' = s /\ asked' = asked \cup Flight(s)
  BY DEF Becomes, Flight
<1>2. Good(q', asked', verified', Met')
  BY <1>1
<1>3. IInv'
  BY <1>2, Primes DEF IInv
<1>4. NoneAgain
  BY <1>1 DEF NoneAgain, Flight
<1> QED
  BY <1>3, <1>4

LEMMA OpenKeeps ==
    ASSUME IInv, NEW table \in Tables, Open(table)
    PROVE  IInv' /\ NoneAgain
<1> DEFINE t == [q EXCEPT !.phase = "open"]
           s == AddFromTable(t, table)
           u == IF Len(s.pending) >= K THEN s ELSE AddAll(s, Bootstrap, 0)
<1>1. Good(q, asked, verified, Met) /\ q \in State /\ Decided(q)
  BY DEF IInv, Good
<1>2. q.phase = "opening" /\ Becomes(u) /\ UNCHANGED <<opts, gone, named, verified>>
  BY DEF Open
<1>3. ~q.commiting /\ Flight(q) = {}
  BY <1>1, <1>2 DEF Decided
<1>4. /\ t \in State /\ t.phase = "open"
      /\ t.fast = q.fast /\ t.slow = q.slow /\ t.inflight = q.inflight
      /\ t.slows = q.slows /\ t.closest = q.closest /\ t.commiting = q.commiting
      /\ t.commits = q.commits /\ t.good = q.good
      /\ t.seen = q.seen /\ t.refs = q.refs /\ t.pending = q.pending /\ t.hinted = q.hinted
  BY <1>1 DEF State
<1> HIDE DEF t
<1>5. Good(t, asked, verified, Met)
  <2>1. Waiting(t, asked) /\ Counts(t) /\ Kept(t, verified) /\ Told(t, Met)
    BY <1>1, <1>4 DEF Good, Waiting, Counts, Kept, Told, Flight, IsCloser
  <2>2. Reached(t, asked)
    BY <1>1, <1>4 DEF Good, Reached, IsCloser
  <2>3. Decided(t)
    BY <1>1, <1>4 DEF Decided
  <2> QED
    BY <1>4, <2>1, <2>2, <2>3 DEF Good
<1>6. ~t.commiting
  BY <1>3, <1>4
<1> HIDE DEF s
<1>7. Good(s, asked, verified, Met) /\ Alike(s, t)
  BY <1>5, <1>6, TableKeeps DEF s
<1>8. ~s.commiting /\ Flight(s) = {}
  BY <1>3, <1>4, <1>7 DEF Alike, Flight
<1>9. Bootstrap \in Seq(Node)
  BY QueryAssumption
<1> DEFINE b == AddAll(s, Bootstrap, 0)
<1>10. u = s \/ u = b
  OBVIOUS
<1> HIDE DEF b, u
<1>11. Good(b, asked, verified, Met) /\ Flight(b) = {}
  <2>1. 0 \in Node \cup {0}
    OBVIOUS
  <2>2. Good(b, asked, verified, Met \cup NamedBy(Bootstrap, 0)) /\ Alike(b, s)
    BY <1>7, <1>8, <1>9, <2>1, AddAllKeeps DEF b
  <2>3. Met \cup NamedBy(Bootstrap, 0) = Met
    BY DEF NamedBy
  <2>4. Good(b, asked, verified, Met)
    BY <2>2, <2>3
  <2> QED
    BY <1>8, <2>2, <2>4 DEF Alike, Flight
<1>12. Good(u, asked, verified, Met) /\ Flight(u) = {}
  BY <1>7, <1>8, <1>10, <1>11
<1>13. asked \cup Flight(u) = asked
  BY <1>12
<1>14. Good(u, asked \cup Flight(u), verified', Met') /\ Names'
  BY <1>2, <1>12, <1>13, SameNames
<1>15. UNCHANGED <<opts, gone>> /\ Flight(u) \cap asked \subseteq Flight(q)
  BY <1>2, <1>12
<1> QED
  BY <1>2, <1>14, <1>15, BecomesIs

LEMMA ReadKeeps ==
    ASSUME IInv, NEW table \in Tables, Read(table)
    PROVE  IInv' /\ NoneAgain
<1> DEFINE t == [q EXCEPT !.needsPush = TRUE]
           s == ReadMore(t, table)
<1>1. Good(q, asked, verified, Met) /\ q \in State
  BY DEF IInv, Good
<1>2. q.phase = "open" /\ Becomes(s) /\ UNCHANGED <<opts, gone, named, verified>>
  BY DEF Read
<1>3. t \in State /\ Same(t, q)
  BY <1>1 DEF State, Same, Alike
<1> HIDE DEF t
<1>4. Good(t, asked, verified, Met)
  BY <1>1, <1>3, SameKeeps
<1>5. t.phase # "opening" /\ Flight(t) = Flight(q)
  BY <1>2, <1>3 DEF Same, Alike, Flight
<1> HIDE DEF s
<1>6. Good(s, asked \cup Flight(s), verified, Met) /\ Onto(s, t, asked)
  BY <1>4, <1>5, ReadMoreKeeps DEF s
<1>7. Flight(s) \cap asked \subseteq Flight(q)
  BY <1>5, <1>6 DEF Onto
<1>8. Good(s, asked \cup Flight(s), verified', Met') /\ UNCHANGED <<opts, gone>> /\ Names'
  BY <1>2, <1>6, SameNames
<1> QED
  BY <1>2, <1>7, <1>8, BecomesIs

LEMMA ConsumeKeeps ==
    ASSUME IInv, Consume
    PROVE  IInv' /\ NoneAgain
<1>1. Good(q, asked, verified, Met) /\ q \in State
  BY DEF IInv, Good
<1>2. q.buffered > 0 /\ UNCHANGED <<opts, gone, asked, named, verified>>
  BY DEF Consume
<1>3. PICK concurrency \in {Concurrency, Background, q.concurrency} :
        q' = [q EXCEPT !.buffered = @ - 1, !.concurrency = concurrency]
  BY DEF Consume
<1>4. q.buffered - 1 \in Nat /\ concurrency \in {Concurrency, Background}
  BY <1>1, <1>2, <1>3 DEF State
<1>5. q' \in State /\ Same(q', q)
  BY <1>1, <1>3, <1>4 DEF State, Same, Alike
<1>6. Good(q', asked', verified', Met') /\ Names'
  BY <1>1, <1>2, <1>5, SameKeeps, SameNames
<1>7. IInv'
  BY <1>2, <1>6, Primes DEF IInv
<1>8. NoneAgain
  BY <1>5 DEF NoneAgain, Same, Alike
<1> QED
  BY <1>7, <1>8

LEMMA CycleKeeps ==
    ASSUME IInv, NEW n \in Node, NEW table \in Tables, Cycle(n, table)
    PROVE  IInv' /\ NoneAgain
<1> DEFINE s == Cycled(q, n, table)
<1>1. Good(q, asked, verified, Met)
  BY DEF IInv
<1>2. n \in q.fast /\ Becomes(s) /\ UNCHANGED <<opts, gone, named, verified>>
  BY DEF Cycle
<1> HIDE DEF s
<1>3. /\ Good(s, asked \cup Flight(s), verified, Met)
      /\ Flight(s) \cap asked \subseteq Flight(q)
  BY <1>1, <1>2, CycledKeeps DEF s
<1>4. Good(s, asked \cup Flight(s), verified', Met') /\ UNCHANGED <<opts, gone>> /\ Names'
  BY <1>2, <1>3, SameNames
<1> QED
  BY <1>2, <1>3, <1>4, BecomesIs

LEMMA FailKeeps ==
    ASSUME IInv, NEW n \in Node, NEW table \in Tables, Fail(n, table)
    PROVE  IInv' /\ NoneAgain
<1> DEFINE s == Failed(q, n, FALSE, table)
<1>1. Good(q, asked, verified, Met)
  BY DEF IInv
<1>2. n \in Flight(q) /\ Becomes(s) /\ UNCHANGED <<opts, gone, named, verified>>
  BY DEF Fail, Flight
<1> HIDE DEF s
<1>3. /\ Good(s, asked \cup Flight(s), verified, Met)
      /\ Flight(s) \cap asked \subseteq Flight(q)
  <2>1. FALSE \in BOOLEAN
    OBVIOUS
  <2> QED
    BY <1>1, <1>2, <2>1, FailedKeeps DEF s
<1>4. Good(s, asked \cup Flight(s), verified', Met') /\ UNCHANGED <<opts, gone>> /\ Names'
  BY <1>2, <1>3, SameNames
<1> QED
  BY <1>2, <1>3, <1>4, BecomesIs

\* Without retries the first cycle of a request is its last: more is asked in between.
LEMMA TimeoutKeeps ==
    ASSUME IInv, NEW n \in Node, NEW table \in Tables, Timeout(n, table)
    PROVE  IInv' /\ NoneAgain
<1> DEFINE f == Failed(q, n, TRUE, table)
           c == Cycled(q, n, table)
           g == Failed(c, n, TRUE, table)
<1>1. Good(q, asked, verified, Met)
  BY DEF IInv
<1>2. /\ n \in q.slow => Becomes(f)
      /\ n \notin q.slow => n \in q.fast /\ Becomes(g)
      /\ UNCHANGED <<opts, gone, named, verified>>
  BY DEF Timeout
<1>3. TRUE \in BOOLEAN
  OBVIOUS
<1> HIDE DEF f, c, g
<1>4. CASE n \in q.slow
  <2>1. n \in Flight(q)
    BY <1>4 DEF Flight
  <2>2. /\ Good(f, asked \cup Flight(f), verified, Met)
        /\ Flight(f) \cap asked \subseteq Flight(q)
    BY <1>1, <1>3, <2>1, FailedKeeps DEF f
  <2>3. Good(f, asked \cup Flight(f), verified', Met') /\ UNCHANGED <<opts, gone>> /\ Names'
    BY <1>2, <2>2, SameNames
  <2> QED
    BY <1>2, <1>4, <2>2, <2>3, BecomesIs
<1>5. CASE n \notin q.slow
  <2>1. n \in q.fast /\ Becomes(g)
    BY <1>2, <1>5
  <2> DEFINE B == asked \cup Flight(c)
  <2>2. /\ Good(c, B, verified, Met)
        /\ Flight(q) \subseteq Flight(c) /\ Flight(c) \cap asked \subseteq Flight(q)
    BY <1>1, <2>1, CycledKeeps DEF c
  <2> HIDE DEF B
  <2>3. n \in Flight(c) /\ n \in asked
    BY <1>1, <2>1, <2>2 DEF Flight, Good, Waiting
  <2>4. /\ Good(g, B \cup Flight(g), verified, Met)
        /\ Flight(c) \ {n} \subseteq Flight(g) /\ Flight(g) \cap B \subseteq Flight(c)
    <3>1. n \in Flight(c) /\ Good(c, B, verified, Met) /\ g = Failed(c, n, TRUE, table)
      BY <2>2, <2>3 DEF g
    <3> QED
      BY <1>3, <3>1, FailedKeeps
  <2>5. B \cup Flight(g) = asked \cup Flight(g)
    BY <2>3, <2>4 DEF B
  <2>6. Flight(g) \cap asked \subseteq Flight(q)
    BY <2>2, <2>4 DEF B
  <2>7. Good(g, asked \cup Flight(g), verified', Met') /\ UNCHANGED <<opts, gone>> /\ Names'
    BY <1>2, <2>4, <2>5, SameNames
  <2> QED
    BY <2>1, <2>6, <2>7, BecomesIs
<1> QED
  BY <1>4, <1>5

\* The names of a reply, met being those the query gets to.
LEMMA NamesAre ==
    ASSUME IInv, NEW n \in Node, NEW S \in SUBSET Node, NEW met \in SUBSET S,
           named' = named \cup ({n} \X met \X {TRUE}) \cup ({n} \X (S \ met) \X {FALSE})
    PROVE  Names' /\ Met' = Met \cup {n} \X met
<1> DEFINE new == ({n} \X met \X {TRUE}) \cup ({n} \X (S \ met) \X {FALSE})
<1>1. new \subseteq Node \X Node \X BOOLEAN
  OBVIOUS
<1>2. \A k, m : <<k, m, TRUE>> \in new <=> k = n /\ m \in met
  OBVIOUS
<1> HIDE DEF new
<1>3. named' = named \cup new
  BY DEF new
<1>4. Names'
  BY <1>1, <1>3 DEF IInv, Names
<1>5. \A k, m \in Node : <<k, m>> \in Met' <=> <<k, m, TRUE>> \in named'
  BY DEF Met
<1>6. \A k, m \in Node : <<k, m>> \in Met <=> <<k, m, TRUE>> \in named
  BY DEF Met
<1>7. \A k, m \in Node : <<k, m>> \in Met' <=> <<k, m>> \in Met \/ (k = n /\ m \in met)
  BY <1>2, <1>3, <1>5, <1>6
<1>8. Met \subseteq Node \X Node /\ Met' \subseteq Node \X Node
      /\ {n} \X met \subseteq Node \X Node
  BY DEF Met
<1> QED
  BY <1>4, <1>7, <1>8

LEMMA AnswerKeeps ==
    ASSUME IInv, NEW n \in Node, NEW ok \in BOOLEAN, NEW withId \in BOOLEAN,
           NEW data \in BOOLEAN, NEW list \in Lists, NEW table \in Tables,
           Answer(n, ok, withId, list, data, table)
    PROVE  IInv' /\ NoneAgain
<1> DEFINE s == [Dec(q, n) EXCEPT !.seen[n] = "done", !.refs[n] = {}]
           c == Counted(s, n, ok, withId)
           l == Considered(c, list)
           r == Learned(c, n, l, ok, data, table)
           V == IF ok /\ withId THEN verified \cup {n} ELSE verified
           met == IF q.commiting \/ opts.onlyClosest THEN {} ELSE ToSet(l)
<1>1. Good(q, asked, verified, Met) /\ q \in State
  BY DEF IInv, Good
<1>2. /\ n \in Flight(q) /\ UNCHANGED <<opts, gone>>
      /\ q.commiting => q' = s /\ UNCHANGED <<asked, verified>>
      /\ ~q.commiting => Becomes(r) /\ verified' = V
      /\ named' = named \cup ({n} \X met \X {TRUE})
                        \cup ({n} \X (ToSet(list) \ met) \X {FALSE})
  BY DEF Answer, Flight
<1>3. Settled(s, q, n, "done")
  BY <1>1, <1>2, AnsweredIs
<1> HIDE DEF s
<1>4. Good(s, asked, verified, Met) /\ Flight(s) = Flight(q) \ {n}
  <2>1. "done" \in {"open", "done", "down"}
    OBVIOUS
  <2> QED
    BY <1>1, <1>2, <1>3, <2>1, SettlesKeep
<1>5. n \in asked /\ n \notin verified /\ q.phase # "opening"
  BY <1>1, <1>2, InFlight
<1>6. s.phase = q.phase /\ s.commiting = q.commiting /\ s.seen[n] = "done"
  BY <1>1, <1>3 DEF Settled, State
<1>7. list \in Seq(Node) /\ ToSet(list) \in SUBSET Node
  <2>1. list \in Seq(Node)
    BY QueryAssumption
  <2> QED
    BY <2>1, ListIs
<1>8. l \in Seq(Node) /\ met \in SUBSET ToSet(list)
  BY <1>7, ConsideredIs
<1> DEFINE S == ToSet(list)
<1>9. Names' /\ Met' = Met \cup {n} \X met
  <2>1. S \in SUBSET Node /\ met \in SUBSET S
    BY <1>7, <1>8
  <2>2. named' = named \cup ({n} \X met \X {TRUE}) \cup ({n} \X (S \ met) \X {FALSE})
    BY <1>2
  <2> HIDE DEF S, met
  <2> QED
    BY <2>1, <2>2, NamesAre
<1>10. CASE q.commiting
  <2>1. q' = s /\ UNCHANGED <<asked, verified>> /\ Met' = Met
    BY <1>2, <1>9, <1>10
  <2>2. Good(q', asked', verified', Met')
    BY <1>4, <2>1
  <2>3. IInv'
    BY <1>2, <1>9, <2>2, Primes DEF IInv
  <2>4. NoneAgain
    BY <1>4, <2>1 DEF NoneAgain, Flight
  <2> QED
    BY <2>3, <2>4
<1>11. CASE ~q.commiting
  <2>1. Becomes(r) /\ verified' = V
    BY <1>2, <1>11
  <2>2. Met' = Met \cup NamedBy(l, n)
    <3>1. 0 # n
      BY Parameters
    <3> QED
      BY <1>9, <1>11, <3>1 DEF NamedBy
  <2> HIDE DEF c
  <2>3. /\ ok /\ withId => Good(c, asked, verified \cup {n}, Met)
        /\ ~(ok /\ withId) => Good(c, asked, verified, Met)
        /\ Flight(c) = Flight(s) /\ c.phase = s.phase /\ ~c.commiting
    BY <1>4, <1>5, <1>6, <1>11, CountedKeeps DEF c
  <2>4. Good(c, asked, V, Met)
    BY <2>3
  <2>5. c.phase # "opening" /\ ~c.commiting
    BY <1>5, <1>6, <2>3
  <2>6. l \in Seq(Node)
    BY <1>8
  <2> HIDE DEF l, V, r, S, met
  <2>7. /\ Good(r, asked \cup Flight(r), V, Met \cup NamedBy(l, n))
        /\ Flight(r) \cap asked \subseteq Flight(c)
    <3>1. Good(r, asked \cup Flight(r), V, Met \cup NamedBy(l, n)) /\ Asks(r, c, asked)
      BY <2>4, <2>5, <2>6, LearnedKeeps DEF r
    <3> QED
      BY <3>1 DEF Asks
  <2>8. Good(r, asked \cup Flight(r), verified', Met')
    BY <2>1, <2>2, <2>7
  <2>9. Flight(r) \cap asked \subseteq Flight(q)
    BY <1>4, <2>3, <2>7
  <2> QED
    BY <1>2, <1>9, <2>1, <2>8, <2>9, BecomesIs
<1> QED
  BY <1>10, <1>11

LEMMA NodeDestroyedKeeps ==
    ASSUME IInv, NodeDestroyed
    PROVE  IInv' /\ NoneAgain
<1>1. gone' = TRUE /\ UNCHANGED <<opts, q, asked, named, verified>>
  BY DEF NodeDestroyed
<1>2. Good(q', asked', verified', Met') /\ Names'
  BY <1>1, SameNames DEF IInv
<1>3. IInv'
  BY <1>1, <1>2, Primes
<1> QED
  BY <1>1, <1>3 DEF NoneAgain

\* A change of the phase and of the commits alone.
LEMMA PhaseKeeps ==
    ASSUME IInv, UNCHANGED <<opts, gone, asked, named, verified>>,
           NEW phase \in {"open", "ending", "destroying", "closed", q.phase},
           NEW commits \in Nat, NEW good \in Nat,
           q' = [q EXCEPT !.phase = phase, !.commits = commits, !.good = good],
           Decided(q')
    PROVE  IInv' /\ NoneAgain
<1>1. Good(q, asked, verified, Met) /\ q \in State
  BY DEF IInv, Good
<1>2. phase \in {"opening", "open", "ending", "destroying", "closed"}
  BY <1>1 DEF State
<1>3. /\ q' \in State
      /\ q'.fast = q.fast /\ q'.slow = q.slow /\ q'.inflight = q.inflight
      /\ q'.slows = q.slows /\ q'.closest = q.closest /\ q'.commiting = q.commiting
      /\ q'.seen = q.seen /\ q'.refs = q.refs /\ q'.pending = q.pending
      /\ q'.hinted = q.hinted
  BY <1>1, <1>2 DEF State
<1>4. Waiting(q', asked) /\ Counts(q') /\ Kept(q', verified) /\ Told(q', Met)
  BY <1>1, <1>3 DEF Good, Waiting, Counts, Kept, Told, Flight, IsCloser
<1>5. Reached(q', asked)
  BY <1>1, <1>3 DEF Good, Reached, IsCloser
<1>6. Good(q', asked', verified', Met') /\ Names'
  BY <1>3, <1>4, <1>5, SameNames DEF Good
<1>7. IInv'
  BY <1>6, Primes DEF IInv
<1> QED
  BY <1>3, <1>7 DEF NoneAgain

LEMMA DestroyKeeps ==
    ASSUME IInv, Destroy
    PROVE  IInv' /\ NoneAgain
<1>1. q \in State /\ Decided(q)
  BY DEF IInv, Good
<1>2. q' = [q EXCEPT !.phase = "destroying"] /\ UNCHANGED <<opts, gone, asked, named, verified>>
  BY DEF Destroy
<1>3. q.commits \in Nat /\ q.good \in Nat
  BY <1>1 DEF State
<1>4. q' = [q EXCEPT !.phase = "destroying", !.commits = q.commits, !.good = q.good]
  BY <1>1, <1>2 DEF State
<1>5. q'.phase = "destroying" /\ q'.commiting = q.commiting /\ q'.commits = q.commits
  BY <1>1, <1>2 DEF State
<1>6. Decided(q')
  BY <1>1, <1>5 DEF Decided
<1> QED
  BY <1>2, <1>3, <1>4, <1>6, PhaseKeeps

\* A commit that settles while others may still fail changes nothing; the last one
\* decides, by whether one was fulfilled.
LEMMA CommitKeeps ==
    ASSUME IInv, CommitDone \/ CommitFailed
    PROVE  IInv' /\ NoneAgain
<1>1. q \in State /\ Decided(q)
  BY DEF IInv, Good
<1>2. q.commits > 0 /\ UNCHANGED <<opts, gone, asked, named, verified>>
  BY DEF CommitDone, CommitFailed
<1> DEFINE commits == q.commits - 1
<1>3. commits \in Nat /\ q.good \in Nat /\ q.good + 1 \in Nat
      /\ q.phase \in {"opening", "open", "ending", "destroying", "closed"}
  BY <1>1, <1>2 DEF State
<1> HIDE DEF commits
<1>4. \E phase \in {"ending", "destroying", q.phase}, good \in Nat :
        /\ q' = [q EXCEPT !.phase = phase, !.commits = commits, !.good = good]
        /\ phase = q.phase \/ (q.phase = "open" /\ commits = 0)
        /\ phase = "ending" /\ phase # q.phase => good > 0
  <2>1. CASE CommitDone
    <3> DEFINE s == [q EXCEPT !.commits = @ - 1, !.good = @ + 1]
    <3>1. q' = IF s.commits = 0 THEN End(s, "ending") ELSE s
      BY <2>1 DEF CommitDone
    <3>2. s.commits = commits /\ s.phase = q.phase
      BY <1>1 DEF State, commits
    <3>3. s = [q EXCEPT !.phase = q.phase, !.commits = commits, !.good = q.good + 1]
      BY <1>1 DEF State, commits
    <3>4. [s EXCEPT !.phase = "ending"]
            = [q EXCEPT !.phase = "ending", !.commits = commits, !.good = q.good + 1]
      BY <1>1 DEF State, commits
    <3> HIDE DEF s
    <3>5. \/ q' = s
          \/ q' = [s EXCEPT !.phase = "ending"] /\ q.phase = "open" /\ commits = 0
      BY <3>1, <3>2 DEF End
    <3>6. q.good + 1 > 0
      BY <1>3
    <3> QED
      BY <1>3, <3>3, <3>4, <3>5, <3>6
  <2>2. CASE CommitFailed
    <3> DEFINE s == [q EXCEPT !.commits = @ - 1]
               last == IF s.good > 0 THEN "ending" ELSE "destroying"
    <3>1. q' = IF s.commits > 0 THEN s ELSE End(s, last)
      BY <2>2 DEF CommitFailed
    <3>2. s.commits = commits /\ s.phase = q.phase /\ s.good = q.good
      BY <1>1 DEF State, commits
    <3>3. s = [q EXCEPT !.phase = q.phase, !.commits = commits, !.good = q.good]
      BY <1>1 DEF State, commits
    <3>4. /\ [s EXCEPT !.phase = "ending"]
            = [q EXCEPT !.phase = "ending", !.commits = commits, !.good = q.good]
          /\ [s EXCEPT !.phase = "destroying"]
            = [q EXCEPT !.phase = "destroying", !.commits = commits, !.good = q.good]
      BY <1>1 DEF State, commits
    <3> HIDE DEF s
    <3>5. last = "destroying" \/ (last = "ending" /\ q.good > 0)
      BY <3>2
    <3> HIDE DEF last
    <3>6. \/ q' = s
          \/ q' = [s EXCEPT !.phase = last] /\ q.phase = "open" /\ commits = 0
      BY <1>3, <3>1, <3>2 DEF End
    <3>7. CASE q' = s
      BY <1>3, <3>3, <3>7
    <3>8. CASE q' = [s EXCEPT !.phase = last] /\ q.phase = "open" /\ commits = 0
      BY <1>3, <3>4, <3>5, <3>8
    <3> QED
      BY <3>6, <3>7, <3>8
  <2> QED
    BY <2>1, <2>2
<1>5. PICK phase \in {"ending", "destroying", q.phase}, good \in Nat :
        /\ q' = [q EXCEPT !.phase = phase, !.commits = commits, !.good = good]
        /\ phase = q.phase \/ (q.phase = "open" /\ commits = 0)
        /\ phase = "ending" /\ phase # q.phase => good > 0
  BY <1>4
<1>6. /\ q'.phase = phase /\ q'.commits = commits /\ q'.good = good
      /\ q'.commiting = q.commiting /\ q'.fast = q.fast /\ q'.slow = q.slow
  BY <1>1, <1>5 DEF State
<1>7. q.commiting
  BY <1>1, <1>2 DEF Decided
<1>8. q.phase # "opening"
  BY <1>1, <1>7 DEF Decided
<1>9. opts.commit => q.phase # "ending"
  BY <1>1, <1>2, <1>3 DEF Decided
<1>10. q'.phase # "opening"
  BY <1>5, <1>6, <1>8
<1>11. q'.phase = "ending" /\ opts.commit => q'.commits = 0 /\ q'.good > 0
  BY <1>5, <1>6, <1>9
<1>12. Decided(q')
  BY <1>6, <1>7, <1>10, <1>11 DEF Decided
<1> QED
  BY <1>2, <1>3, <1>5, <1>12, PhaseKeeps

\* The session of the query is destroyed and with it every request, or nothing is.
LEMMA CloseKeeps ==
    ASSUME IInv, Close
    PROVE  IInv' /\ NoneAgain
<1> DEFINE F == Flight(q)
<1>1. Good(q, asked, verified, Met) /\ q \in State /\ Counts(q) /\ Waiting(q, asked)
      /\ Decided(q)
  BY DEF IInv, Good
<1>2. /\ UNCHANGED <<opts, gone, asked, named, verified>>
      /\ opts.shared => q' = [q EXCEPT !.phase = "closed"]
      /\ ~opts.shared =>
           q' = [q EXCEPT !.phase = "closed", !.fast = {}, !.slow = {}, !.slows = 0,
                          !.inflight = @ - Cardinality(F),
                          !.errors = @ + Cardinality(F)]
  BY DEF Close, Flight
<1>3. q.commits \in Nat /\ q.good \in Nat
  BY <1>1 DEF State
<1>4. CASE opts.shared
  <2>1. q' = [q EXCEPT !.phase = "closed"]
    BY <1>2, <1>4
  <2>2. q' = [q EXCEPT !.phase = "closed", !.commits = q.commits, !.good = q.good]
    BY <1>1, <2>1 DEF State
  <2>3. q'.phase = "closed" /\ q'.commiting = q.commiting /\ q'.commits = q.commits
    BY <1>1, <2>1 DEF State
  <2>4. Decided(q')
    BY <1>1, <2>3 DEF Decided
  <2> QED
    BY <1>2, <1>3, <2>2, <2>4, PhaseKeeps
<1>5. CASE ~opts.shared
  <2>1. q' = [q EXCEPT !.phase = "closed", !.fast = {}, !.slow = {}, !.slows = 0,
                       !.inflight = @ - Cardinality(F),
                       !.errors = @ + Cardinality(F)]
    BY <1>2, <1>5
  <2>2. F \in SUBSET Node /\ Cardinality(F) \in Nat /\ Cardinality(F) <= q.inflight
        /\ (~gone => q.inflight = Cardinality(F)) /\ q.inflight \in Nat /\ q.errors \in Nat
    <3>1. F \in SUBSET Node
      BY <1>1 DEF Waiting
    <3> QED
      BY <1>1, <3>1, NodesAreFinite DEF Counts, State
  <2> HIDE DEF F
  <2> DEFINE inflight == q.inflight - Cardinality(F)
             errors == q.errors + Cardinality(F)
  <2>3. inflight \in Nat /\ errors \in Nat /\ (~gone => inflight = 0)
    BY <2>2
  <2>4. q' = [q EXCEPT !.phase = "closed", !.fast = {}, !.slow = {}, !.slows = 0,
                       !.inflight = inflight, !.errors = errors]
    BY <1>1, <2>1 DEF State
  <2> HIDE DEF inflight, errors
  <2>5. /\ q' \in State /\ q'.phase = "closed"
        /\ q'.fast = {} /\ q'.slow = {} /\ q'.slows = 0 /\ q'.inflight = inflight
        /\ q'.closest = q.closest /\ q'.commiting = q.commiting
        /\ q'.commits = q.commits /\ q'.good = q.good
        /\ q'.seen = q.seen /\ q'.refs = q.refs /\ q'.pending = q.pending
        /\ q'.hinted = q.hinted
    BY <1>1, <2>3, <2>4 DEF State
  <2>6. Flight(q') = {} /\ Cardinality({}) = 0
    BY <2>5, FS_EmptySet DEF Flight
  <2>7. Counts(q')
    <3>1. q'.fast \cap q'.slow = {} /\ q'.slows = Cardinality(q'.slow)
      BY <2>5, <2>6
    <3>2. Cardinality(q'.fast) <= Most
      BY <2>5, <2>6, Parameters
    <3>3. Cardinality(Flight(q')) <= q'.inflight
      BY <2>3, <2>5, <2>6
    <3>4. ~gone => q'.inflight = Cardinality(Flight(q'))
      BY <2>3, <2>5, <2>6
    <3> QED
      BY <3>1, <3>2, <3>3, <3>4 DEF Counts
  <2>8. Waiting(q', asked) /\ Kept(q', verified) /\ Told(q', Met)
    BY <1>1, <2>5, <2>6 DEF Good, Waiting, Kept, Told, IsCloser
  <2>9. Reached(q', asked)
    BY <1>1, <2>5 DEF Good, Reached, IsCloser
  <2>10. Decided(q')
    BY <1>1, <2>5 DEF Decided
  <2>11. Good(q', asked', verified', Met') /\ Names'
    BY <1>2, <2>5, <2>7, <2>8, <2>9, <2>10, SameNames DEF Good
  <2>12. IInv'
    BY <1>2, <2>11, Primes DEF IInv
  <2> QED
    BY <2>5, <2>12 DEF NoneAgain
<1> QED
  BY <1>4, <1>5

-----------------------------------------------------------------------------
(* The theorems.                                                           *)

\* The nodes a query is started with, from the last to the first.
LEMMA ReverseIs ==
    ASSUME NEW list \in Seq(Node), IsInjective(list)
    PROVE  /\ Reverse(list) \in Seq(Node) /\ IsInjective(Reverse(list))
           /\ ToSet(Reverse(list)) = ToSet(list)
<1> DEFINE L == Len(list)
           r == Reverse(list)
<1>1. L \in Nat /\ DOMAIN list = 1..L /\ \A i \in 1..L : list[i] \in Node
  OBVIOUS
<1>2. r = [i \in 1..L |-> list[L - i + 1]]
  BY DEF Reverse
<1> HIDE DEF r, L
<1>3. \A i \in 1..L : L - i + 1 \in 1..L /\ L - (L - i + 1) + 1 = i
  BY <1>1
<1>4. DOMAIN r = 1..L /\ \A i \in 1..L : r[i] = list[L - i + 1]
  BY <1>2
<1>5. r \in Seq(Node)
  <2>1. r \in [1..L -> Node]
    BY <1>1, <1>2, <1>3
  <2> QED
    BY <1>1, <2>1
<1>6. IsInjective(r)
  <2> SUFFICES ASSUME NEW i \in 1..L, NEW j \in 1..L, r[i] = r[j] PROVE i = j
    BY <1>4 DEF IsInjective
  <2>1. L - i + 1 = L - j + 1
    BY <1>1, <1>3, <1>4 DEF IsInjective
  <2> QED
    BY <1>1, <2>1
<1>7. ToSet(r) = ToSet(list)
  <2>1. ASSUME NEW i \in 1..L PROVE r[i] \in ToSet(list)
    BY <1>1, <1>3, <1>4 DEF ToSet
  <2>2. ASSUME NEW i \in 1..L PROVE list[i] \in ToSet(r)
    <3>1. r[L - i + 1] = list[i] /\ L - i + 1 \in 1..L
      BY <1>3, <1>4
    <3> QED
      BY <1>4, <3>1 DEF ToSet
  <2>3. ToSet(r) \subseteq ToSet(list)
    BY <1>4, <2>1 DEF ToSet
  <2>4. ToSet(list) \subseteq ToSet(r)
    BY <1>1, <2>2 DEF ToSet
  <2> QED
    BY <2>3, <2>4
<1> QED
  BY <1>5, <1>6, <1>7 DEF r

LEMMA InitKeeps == Init => IInv
<1> SUFFICES ASSUME Init PROVE IInv
  OBVIOUS
<1>1. opts \in Options /\ gone = FALSE /\ asked = {} /\ named = {} /\ verified = {}
  BY DEF Init
<1>2. PICK list \in Starts :
         q = [seen |-> [n \in Node |-> IF n \in ToSet(list) THEN "open" ELSE "new"],
              refs |-> [n \in Node |-> {}],
              pending |-> Reverse(list),
              fast |-> {}, slow |-> {},
              inflight |-> 0, slows |-> 0,
              concurrency |-> IF opts.background THEN Background ELSE Concurrency,
              successes |-> 0, errors |-> 0,
              closest |-> <<>>,
              slowdown |-> FALSE, fromTable |-> FALSE, commiting |-> FALSE,
              phase |-> "opening",
              buffered |-> 0, needsPush |-> FALSE,
              commits |-> 0, good |-> 0,
              hinted |-> {}]
  BY DEF Init
<1> DEFINE seen == [n \in Node |-> IF n \in ToSet(list) THEN "open" ELSE "new"]
           refs == [n \in Node |-> {}]
           pending == Reverse(list)
           concurrency == IF opts.background THEN Background ELSE Concurrency
<1>3. list \in Seq(Node) /\ IsInjective(list)
  BY QueryAssumption
<1>4. /\ pending \in Seq(Node) /\ IsInjective(pending)
      /\ ToSet(pending) = ToSet(list)
  BY <1>3, ReverseIs
<1>5. /\ seen \in [Node -> {"new", "open", "done", "down"}]
      /\ refs \in [Node -> SUBSET Node]
      /\ concurrency \in {Concurrency, Background}
  OBVIOUS
<1>6. /\ \A n \in Node : seen[n] = (IF n \in ToSet(list) THEN "open" ELSE "new")
      /\ \A n \in Node : refs[n] = {}
  OBVIOUS
<1> HIDE DEF seen, refs, pending, concurrency
<1>7. q = [seen |-> seen, refs |-> refs, pending |-> pending,
           fast |-> {}, slow |-> {}, inflight |-> 0, slows |-> 0,
           concurrency |-> concurrency, successes |-> 0, errors |-> 0,
           closest |-> <<>>,
           slowdown |-> FALSE, fromTable |-> FALSE, commiting |-> FALSE,
           phase |-> "opening", buffered |-> 0, needsPush |-> FALSE,
           commits |-> 0, good |-> 0, hinted |-> {}]
  BY <1>2 DEF seen, refs, pending, concurrency
<1>8. q \in State
  BY <1>4, <1>5, <1>7 DEF State
<1>9. /\ q.seen = seen /\ q.refs = refs /\ q.pending = pending
      /\ q.fast = {} /\ q.slow = {} /\ q.inflight = 0 /\ q.slows = 0
      /\ q.closest = <<>> /\ q.phase = "opening" /\ q.commits = 0 /\ q.hinted = {}
      /\ q.commiting = FALSE
  BY <1>7
<1>10. Flight(q) = {} /\ Cardinality({}) = 0
  BY <1>9, FS_EmptySet DEF Flight
<1>11. Waiting(q, asked)
  <2>1. \A i \in DOMAIN pending : pending[i] \in ToSet(list) /\ pending[i] \in Node
    BY <1>4 DEF ToSet
  <2>2. \A i \in DOMAIN pending : seen[pending[i]] = "open"
    BY <1>6, <2>1
  <2> QED
    BY <1>1, <1>4, <1>9, <1>10, <2>2 DEF Waiting
<1>12. Counts(q)
  BY <1>1, <1>9, <1>10, Parameters DEF Counts
<1>13. Kept(q, verified)
  <2>1. ToSet(<<>>) = {} /\ Len(<<>>) = 0 /\ DOMAIN <<>> = {}
    BY DEF ToSet
  <2>2. q.closest = <<>> /\ verified = {} /\ K \in Nat
    BY <1>1, <1>9, Parameters
  <2>3. Len(q.closest) = (IF Cardinality(verified) <= K THEN Cardinality(verified) ELSE K)
    BY <1>10, <2>1, <2>2
  <2> QED
    BY <2>1, <2>2, <2>3 DEF Kept
<1>14. Names /\ Met = {}
  BY <1>1 DEF Names, Met
<1>15. Told(q, Met)
  BY <1>6, <1>9, <1>14 DEF Told
<1>16. Reached(q, asked)
  <2>1. \A n \in Node : q.seen[n] # "new" => n \in ToSet(q.pending)
    BY <1>4, <1>6, <1>9
  <2> QED
    BY <1>9, <2>1 DEF Reached
<1>17. Decided(q)
  BY <1>9, <1>10 DEF Decided
<1> QED
  BY <1>1, <1>8, <1>11, <1>12, <1>13, <1>14, <1>15, <1>16, <1>17 DEF IInv, Good

\* Every step keeps the invariant and makes no request again.
LEMMA NextKeeps == IInv /\ [Next]_vars => IInv' /\ [NoneAgain]_vars
<1> SUFFICES ASSUME IInv, [Next]_vars PROVE IInv' /\ [NoneAgain]_vars
  OBVIOUS
<1>1. CASE UNCHANGED vars
  <2>1. UNCHANGED <<opts, q, gone, asked, named, verified>>
    BY <1>1 DEF vars
  <2>2. Good(q', asked', verified', Met') /\ Names'
    BY <2>1, SameNames DEF IInv
  <2>3. IInv'
    BY <2>1, <2>2, Primes DEF IInv
  <2> QED
    BY <1>1, <2>3
<1>2. ASSUME NEW table \in Tables, Open(table) PROVE IInv' /\ NoneAgain
  BY <1>2, OpenKeeps
<1>3. ASSUME NEW table \in Tables, Read(table) PROVE IInv' /\ NoneAgain
  BY <1>3, ReadKeeps
<1>4. CASE Consume
  BY <1>4, ConsumeKeeps
<1>5. ASSUME NEW n \in Node, NEW ok \in BOOLEAN, NEW withId \in BOOLEAN,
             NEW data \in BOOLEAN, NEW list \in Lists, NEW table \in Tables,
             Answer(n, ok, withId, list, data, table)
      PROVE  IInv' /\ NoneAgain
  BY <1>5, AnswerKeeps
<1>6. ASSUME NEW n \in Node, NEW table \in Tables, Cycle(n, table)
      PROVE  IInv' /\ NoneAgain
  BY <1>6, CycleKeeps
<1>7. ASSUME NEW n \in Node, NEW table \in Tables, Timeout(n, table)
      PROVE  IInv' /\ NoneAgain
  BY <1>7, TimeoutKeeps
<1>8. ASSUME NEW n \in Node, NEW table \in Tables, Fail(n, table)
      PROVE  IInv' /\ NoneAgain
  BY <1>8, FailKeeps
<1>9. CASE NodeDestroyed
  BY <1>9, NodeDestroyedKeeps
<1>10. CASE Destroy
  BY <1>10, DestroyKeeps
<1>11. CASE CommitDone \/ CommitFailed
  BY <1>11, CommitKeeps
<1>12. CASE Close
  BY <1>12, CloseKeeps
<1> QED
  BY <1>1, <1>2, <1>3, <1>4, <1>5, <1>6, <1>7, <1>8, <1>9, <1>10, <1>11, <1>12 DEF Next

\* What CommitsDecide says of a step.
Deciding ==
    opts.commit =>
      /\ q.phase # "ending" /\ q'.phase = "ending" => q'.commits = 0 /\ q'.good > 0
      /\ q.phase = "open" /\ q.commits > 0 /\ q'.commits = 0 =>
            q'.phase = IF q'.good > 0 THEN "ending" ELSE "destroying"

\* A query that is committing reads no more.
LEMMA NoMore ==
    ASSUME NEW s, s.commiting, NEW table
    PROVE  ReadMore(s, table) = s
BY DEF ReadMore

\* While commits are under way nothing but a commit that settles changes their number.
LEMMA CommitsStay ==
    ASSUME IInv, [Next]_vars, q.commits > 0, ~(CommitDone \/ CommitFailed)
    PROVE  q'.commits = q.commits
<1>1. Good(q, asked, verified, Met) /\ q \in State /\ Decided(q)
  BY DEF IInv, Good
<1>2. q.commiting /\ q.phase # "opening"
  BY <1>1 DEF Decided
<1>3. ASSUME NEW s, Good(s, asked \cup Flight(s), verified, Met), s.commiting,
             NEW n \in Flight(s), NEW timeout \in BOOLEAN, NEW table
      PROVE  Failed(s, n, timeout, table).commits = s.commits
  <2> DEFINE t == [Dec([s EXCEPT !.seen[n] = "down", !.refs[n] = {},
                                 !.hinted = @ \cup Hints(s.refs[n] \X {n})], n)
                     EXCEPT !.errors = @ + 1]
             u == [Dec(s, n) EXCEPT !.errors = @ + 1]
             f == Failed(s, n, timeout, table)
  <2>1. f = ReadMore(t, table) \/ f = ReadMore(u, table)
    <3>1. CASE timeout
      BY <3>1 DEF Failed
    <3>2. CASE ~timeout
      BY <3>2 DEF Failed
    <3> QED
      BY <3>1, <3>2
  <2>2. Settled(t, s, n, "down") /\ Settled(u, s, n, "open")
    BY <1>3, TimedOutIs, FailedIs
  <2> HIDE DEF t, u, f
  <2>3. t.commiting /\ u.commiting /\ t.commits = s.commits /\ u.commits = s.commits
    BY <1>3, <2>2 DEF Settled
  <2>4. f = t \/ f = u
    BY <2>1, <2>3, NoMore
  <2> QED
    BY <2>3, <2>4 DEF f
<1>4. ASSUME NEW n \in q.fast, NEW table
      PROVE  Cycled(q, n, table).commits = q.commits /\ Cycled(q, n, table).commiting
  <2> DEFINE t == [q EXCEPT !.fast = @ \ {n}, !.slow = @ \cup {n}, !.slows = @ + 1]
  <2>1. t.commits = q.commits /\ t.commiting = q.commiting
    BY <1>1 DEF State
  <2>2. Cycled(q, n, table) = ReadMore(t, table)
    BY DEF Cycled
  <2> HIDE DEF t
  <2> QED
    BY <1>2, <2>1, <2>2, NoMore
<1>5. asked \cup Flight(q) = asked
  BY <1>1 DEF Good, Waiting
<1>6. ASSUME NEW table \in Tables, Read(table) PROVE q'.commits = q.commits
  <2> DEFINE t == [q EXCEPT !.needsPush = TRUE]
  <2>1. q' = ReadMore(t, table) /\ t.commits = q.commits /\ t.commiting = q.commiting
    BY <1>1, <1>6 DEF Read, Becomes, State
  <2> HIDE DEF t
  <2> QED
    BY <1>2, <2>1, NoMore
<1>7. ASSUME NEW n \in Node, NEW table \in Tables, Timeout(n, table)
      PROVE  q'.commits = q.commits
  <2>1. CASE n \in q.slow
    <3>1. q' = Failed(q, n, TRUE, table) /\ n \in Flight(q) /\ TRUE \in BOOLEAN
      BY <1>7, <2>1 DEF Timeout, Becomes, Flight
    <3> QED
      BY <1>1, <1>2, <1>3, <1>5, <3>1
  <2>2. CASE n \notin q.slow
    <3> DEFINE c == Cycled(q, n, table)
    <3>1. q' = Failed(c, n, TRUE, table) /\ n \in q.fast /\ TRUE \in BOOLEAN
      BY <1>7, <2>2 DEF Timeout, Becomes
    <3>2. /\ Good(c, asked \cup Flight(c), verified, Met)
          /\ Flight(q) \subseteq Flight(c)
      BY <1>1, <3>1, CycledKeeps
    <3>3. c.commits = q.commits /\ c.commiting
      BY <1>4, <3>1
    <3>4. n \in Flight(q)
      BY <3>1 DEF Flight
    <3> HIDE DEF c
    <3> QED
      BY <1>3, <3>1, <3>2, <3>3, <3>4
  <2> QED
    BY <2>1, <2>2
<1>8. ASSUME NEW n \in Node, NEW table \in Tables, Fail(n, table)
      PROVE  q'.commits = q.commits
  <2>1. q' = Failed(q, n, FALSE, table) /\ n \in Flight(q) /\ FALSE \in BOOLEAN
    BY <1>8 DEF Fail, Becomes, Flight
  <2> QED
    BY <1>1, <1>2, <1>3, <1>5, <2>1
<1>9. ASSUME NEW n \in Node, NEW table \in Tables, Cycle(n, table)
      PROVE  q'.commits = q.commits
  <2>1. q' = Cycled(q, n, table) /\ n \in q.fast
    BY <1>9 DEF Cycle, Becomes
  <2> QED
    BY <1>4, <2>1
<1>10. ASSUME NEW n \in Node, NEW ok \in BOOLEAN, NEW withId \in BOOLEAN,
              NEW data \in BOOLEAN, NEW list \in Lists, NEW table \in Tables,
              Answer(n, ok, withId, list, data, table)
       PROVE  q'.commits = q.commits
  <2> DEFINE s == [Dec(q, n) EXCEPT !.seen[n] = "done", !.refs[n] = {}]
  <2>1. q' = s /\ n \in Flight(q)
    BY <1>2, <1>10 DEF Answer, Flight
  <2>2. Settled(s, q, n, "done")
    BY <1>1, <2>1, AnsweredIs
  <2> HIDE DEF s
  <2> QED
    BY <2>1, <2>2 DEF Settled
<1>11. ASSUME Consume \/ NodeDestroyed \/ Destroy \/ Close PROVE q'.commits = q.commits
  <2>1. CASE Consume
    BY <1>1, <2>1 DEF Consume, State
  <2>2. CASE NodeDestroyed
    BY <2>2 DEF NodeDestroyed
  <2>3. CASE Destroy
    BY <1>1, <2>3 DEF Destroy, State
  <2>4. CASE Close
    BY <1>1, <2>4 DEF Close, State
  <2> QED
    BY <1>11, <2>1, <2>2, <2>3, <2>4
<1>12. ASSUME NEW table \in Tables, Open(table) PROVE FALSE
  BY <1>2, <1>12 DEF Open
<1>13. CASE UNCHANGED vars
  BY <1>13 DEF vars
<1> QED
  BY <1>6, <1>7, <1>8, <1>9, <1>10, <1>11, <1>12, <1>13 DEF Next

\* A commit that settles leaves a stream that is open open until it is the last, and
\* then closes it by whether one was fulfilled.
LEMMA LastDecides ==
    ASSUME IInv, CommitDone \/ CommitFailed, q.phase = "open", q'.commits = 0
    PROVE  q'.phase = IF q'.good > 0 THEN "ending" ELSE "destroying"
<1>1. q \in State
  BY DEF IInv, Good
<1>2. CASE CommitDone
  <2> DEFINE s == [q EXCEPT !.commits = @ - 1, !.good = @ + 1]
  <2>1. q' = IF s.commits = 0 THEN End(s, "ending") ELSE s
    BY <1>2 DEF CommitDone
  <2>2. s.phase = "open" /\ s.good = q.good + 1 /\ q.good \in Nat
    BY <1>1 DEF State
  <2>3. [s EXCEPT !.phase = "ending"].commits = s.commits
        /\ [s EXCEPT !.phase = "ending"].good = s.good
        /\ [s EXCEPT !.phase = "ending"].phase = "ending"
    BY <1>1 DEF State
  <2> HIDE DEF s
  <2>4. s.commits = 0 /\ q' = [s EXCEPT !.phase = "ending"]
    BY <2>1, <2>2 DEF End
  <2> QED
    BY <2>2, <2>3, <2>4
<1>3. CASE CommitFailed
  <2> DEFINE s == [q EXCEPT !.commits = @ - 1]
             phase == IF s.good > 0 THEN "ending" ELSE "destroying"
  <2>1. q' = IF s.commits > 0 THEN s ELSE End(s, phase)
    BY <1>3 DEF CommitFailed
  <2>2. s.phase = "open" /\ s.commits = q.commits - 1 /\ q.commits \in Nat /\ q.commits > 0
    BY <1>1, <1>3 DEF State, CommitFailed
  <2>3. [s EXCEPT !.phase = phase].commits = s.commits
        /\ [s EXCEPT !.phase = phase].good = s.good
        /\ [s EXCEPT !.phase = phase].phase = phase
    BY <1>1 DEF State
  <2> HIDE DEF s
  <2>4. q' = [s EXCEPT !.phase = phase]
    BY <2>1, <2>2 DEF End
  <2> QED
    BY <2>3, <2>4
<1> QED
  BY <1>2, <1>3

\* Every step decides as CommitsDecide says.
LEMMA StepDecides == IInv /\ [Next]_vars => [Deciding]_vars
<1> SUFFICES ASSUME IInv, [Next]_vars, ~UNCHANGED vars PROVE Deciding
  OBVIOUS
<1>1. IInv' /\ opts' = opts
  <2>1. CASE UNCHANGED vars
    BY <2>1 DEF vars
  <2>2. ASSUME NEW table \in Tables, Open(table) \/ Read(table) PROVE opts' = opts
    BY <2>2 DEF Open, Read
  <2>3. ASSUME NEW n \in Node, NEW table \in Tables,
               Cycle(n, table) \/ Timeout(n, table) \/ Fail(n, table)
        PROVE  opts' = opts
    BY <2>3 DEF Cycle, Timeout, Fail
  <2>4. ASSUME NEW n, NEW ok, NEW withId, NEW data, NEW list, NEW table,
               Answer(n, ok, withId, list, data, table)
        PROVE  opts' = opts
    BY <2>4 DEF Answer
  <2>5. ASSUME Consume \/ NodeDestroyed \/ Destroy \/ CommitDone \/ CommitFailed \/ Close
        PROVE  opts' = opts
    BY <2>5 DEF Consume, NodeDestroyed, Destroy, CommitDone, CommitFailed, Close
  <2>6. opts' = opts
    BY <2>1, <2>2, <2>3, <2>4, <2>5 DEF Next
  <2> QED
    BY <2>6, NextKeeps
<1>2. opts.commit /\ q'.phase = "ending" => q'.commits = 0 /\ q'.good > 0
  <2>1. Decided(q)'
    BY <1>1 DEF IInv, Good
  <2> QED
    BY <1>1, <2>1 DEF Decided
<1>3. ASSUME q.phase = "open", q.commits > 0, q'.commits = 0
      PROVE  q'.phase = IF q'.good > 0 THEN "ending" ELSE "destroying"
  <2>1. q.commits \in Nat /\ ~(0 > 0)
    BY DEF IInv, Good, State
  <2>2. CommitDone \/ CommitFailed
    BY <1>3, <2>1, CommitsStay
  <2> QED
    BY <1>3, <2>2, LastDecides
<1> QED
  BY <1>2, <1>3 DEF Deciding

\* In every state of a query all that Good() says of it holds: the lists, the
\* counters, who named whom, and what the phase says agree.
THEOREM Invariance == Spec => []IInv
<1>1. Init => IInv
  BY InitKeeps
<1>2. IInv /\ [Next]_vars => IInv'
  BY NextKeeps
<1> QED
  BY <1>1, <1>2, PTL DEF Spec

\* Every variable of a query always has a value of its type.
THEOREM TypeCorrectness == Spec => []TypeOK
<1>1. IInv => TypeOK
  <2> SUFFICES ASSUME IInv PROVE TypeOK
    OBVIOUS
  <2>1. q \in State /\ opts \in Options /\ gone \in BOOLEAN
    BY DEF IInv, Good
  <2>2. asked \subseteq Node /\ named \subseteq Node \X Node \X BOOLEAN /\ verified \subseteq Node
    BY DEF IInv, Good, Waiting, Kept, Names
  <2>3. /\ q.seen \in [Node -> {"new", "open", "done", "down"}]
        /\ q.refs \in [Node -> SUBSET Node]
        /\ q.pending \in Seq(Node) /\ q.closest \in Seq(Node)
        /\ q.fast \subseteq Node /\ q.slow \subseteq Node
        /\ q.concurrency \in {Concurrency, Background}
        /\ q.phase \in {"opening", "open", "ending", "destroying", "closed"}
        /\ q.hinted \subseteq Node \X Node
    BY <2>1 DEF State
  <2>4. \A n \in {q.inflight, q.slows, q.successes, q.errors, q.buffered, q.commits,
                  q.good} : n \in Nat
    BY <2>1 DEF State
  <2>5. \A b \in {q.slowdown, q.fromTable, q.commiting, q.needsPush} : b \in BOOLEAN
    BY <2>1 DEF State
  <2> QED
    BY <2>1, <2>2, <2>3, <2>4, <2>5 DEF TypeOK
<1> QED
  BY <1>1, Invariance, PTL

\* The counters of a query count its requests, whatever becomes of these, and no
\* more than the concurrency are fast.
THEOREM RequestsAreCounted == Spec => []CountsKept
<1>1. IInv => CountsKept
  BY DEF IInv, Good, Counts, CountsKept, Flight, Most
<1> QED
  BY <1>1, Invariance, PTL

\* A query keeps the k closest of the nodes that answered well, nearest first.
THEOREM ClosestAreKept == Spec => []ClosestKept
<1>1. IInv => ClosestKept
  BY DEF IInv, Good, Kept, ClosestKept
<1> QED
  BY <1>1, Invariance, PTL

\* A query passes over no node it took up that could be among the closest.
THEOREM NobodyIsSkipped == Spec => []NoneSkipped
<1>1. IInv => NoneSkipped
  <2> SUFFICES ASSUME IInv PROVE NoneSkipped
    OBVIOUS
  <2>1. Reached(q, asked)
    BY DEF IInv, Good
  <2>2. q.commiting => \A n \in ToSet(q.pending) : ~IsCloser(q, n)
    <3> SUFFICES ASSUME q.commiting PROVE ToSet(q.pending) = {}
      OBVIOUS
    <3>1. q.pending = <<>>
      BY <2>1 DEF Reached
    <3> QED
      BY <3>1 DEF ToSet
  <2> QED
    BY <2>1, <2>2 DEF Reached, NoneSkipped
<1> QED
  BY <1>1, Invariance, PTL

\* Exactly those are told of a node that timed out in whose reply the query got to its
\* name, whether that was before or after the timeout, as long as the node is not
\* destroyed: then no further hint is sent.
THEOREM NamersAreTold == Spec => []HintsMatch
<1>1. IInv => HintsMatch
  <2> SUFFICES ASSUME IInv PROVE HintsMatch
    OBVIOUS
  <2>1. Met \subseteq Node \X Node /\ q.hinted \subseteq Node \X Node
    BY DEF IInv, Good, Told, State
  <2>2. \A m, n \in Node : <<m, n>> \in q.hinted => <<m, n>> \in Met /\ q.seen[n] = "down"
    BY DEF IInv, Good, Told
  <2>3. ~gone => \A m, n \in Node :
                   <<m, n>> \in Met /\ q.seen[n] = "down" => <<m, n>> \in q.hinted
    BY DEF IInv, Good, Told
  <2>4. \A pair \in q.hinted : pair \in Met /\ q.seen[pair[2]] = "down"
    BY <2>1, <2>2
  <2>5. ~gone => \A pair \in Met : q.seen[pair[2]] = "down" => pair \in q.hinted
    BY <2>1, <2>3
  <2> QED
    BY <2>4, <2>5 DEF HintsMatch
<1> QED
  BY <1>1, Invariance, PTL

\* The last commit that settles decides: the stream ends if one was fulfilled and is
\* destroyed if none was, and it ends in no other way.
THEOREM CommitsSettleFirst == Spec => CommitsDecide
<1>1. IInv /\ [Next]_vars => [Deciding]_vars
  BY StepDecides
<1>2. [Deciding]_vars
        => [opts.commit =>
              /\ q.phase # "ending" /\ q'.phase = "ending" => q'.commits = 0 /\ q'.good > 0
              /\ q.phase = "open" /\ q.commits > 0 /\ q'.commits = 0 =>
                    q'.phase = IF q'.good > 0 THEN "ending" ELSE "destroying"]_vars
  BY DEF Deciding
<1> QED
  BY <1>1, <1>2, Invariance, PTL DEF Spec, CommitsDecide

\* No node is asked twice in a query.
THEOREM NobodyIsAskedTwice == Spec => AskedOnce
<1>1. IInv /\ [Next]_vars => [NoneAgain]_vars
  BY NextKeeps
<1>2. [NoneAgain]_vars
        => [\A n \in asked : n \in q'.fast \cup q'.slow => n \in q.fast \cup q.slow]_vars
  BY DEF NoneAgain
<1> QED
  BY <1>1, <1>2, Invariance, PTL DEF Spec, AskedOnce

=============================================================================
