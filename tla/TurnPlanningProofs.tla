------------------------- MODULE TurnPlanningProofs -------------------------
(***************************************************************************)
(* Lemmas about the planning of a turn.  Two things carry them: members    *)
(* and nodes are ranked by strict total orders of finite sets, so that a   *)
(* rank says who is taken, and every way to a plan names roles that fit.   *)
(***************************************************************************)
EXTENDS TurnPlanning, FiniteSetTheorems, WellFoundedInduction, TLAPS


----------------------------------------------------------------------------
(* Ranks in a strict total order *)

StrictOrder(S, R) ==
  /\ \A x \in S : <<x, x>> \notin R
  /\ \A x, y, z \in S : <<x, y>> \in R /\ <<y, z>> \in R => <<x, z>> \in R
  /\ \A x, y \in S : x = y \/ <<x, y>> \in R \/ <<y, x>> \in R

Rank(S, R, x) == Cardinality(Ahead(S, R, x))

\* A rank is a number below the size of the set, and grows along the order.
LEMMA RankTyped ==
  ASSUME NEW S, NEW R, IsFiniteSet(S), StrictOrder(S, R), NEW x \in S
  PROVE  Rank(S, R, x) \in 0..(Cardinality(S) - 1)
<1>1. Ahead(S, R, x) \in SUBSET S /\ Ahead(S, R, x) # S
  BY DEF Ahead, StrictOrder
<1>2. /\ IsFiniteSet(Ahead(S, R, x))
      /\ Cardinality(Ahead(S, R, x)) <= Cardinality(S)
      /\ Cardinality(Ahead(S, R, x)) # Cardinality(S)
  BY <1>1, FS_Subset
<1>3. Cardinality(Ahead(S, R, x)) \in Nat /\ Cardinality(S) \in Nat
  BY <1>2, FS_CardinalityType
<1> QED BY <1>2, <1>3 DEF Rank

LEMMA RankGrows ==
  ASSUME NEW S, NEW R, IsFiniteSet(S), StrictOrder(S, R),
         NEW x \in S, NEW y \in S, <<x, y>> \in R
  PROVE  Rank(S, R, x) < Rank(S, R, y)
<1>1. Ahead(S, R, x) \in SUBSET Ahead(S, R, y)
  BY DEF Ahead, StrictOrder
<1>2. x \in Ahead(S, R, y) /\ x \notin Ahead(S, R, x)
  BY DEF Ahead, StrictOrder
<1>3. IsFiniteSet(Ahead(S, R, y))
  BY FS_Subset DEF Ahead
<1>4. /\ Cardinality(Ahead(S, R, x)) <= Cardinality(Ahead(S, R, y))
      /\ Cardinality(Ahead(S, R, x)) # Cardinality(Ahead(S, R, y))
  BY <1>1, <1>2, <1>3, FS_Subset
<1>5. Rank(S, R, x) \in Int /\ Rank(S, R, y) \in Int
  BY RankTyped
<1> QED BY <1>4, <1>5 DEF Rank

\* Every rank is taken, and by one member only.
LEMMA RankOnto ==
  ASSUME NEW S, NEW R, IsFiniteSet(S), StrictOrder(S, R)
  PROVE  /\ \A x, y \in S : Rank(S, R, x) = Rank(S, R, y) => x = y
         /\ \A i \in 0..(Cardinality(S) - 1) : \E x \in S : Rank(S, R, x) = i
<1> DEFINE N == Cardinality(S)
           f == [x \in S |-> Rank(S, R, x)]
<1>1. N \in Nat
  BY FS_CardinalityType
<1>2. \A x \in S : Rank(S, R, x) \in 0..(N - 1)
  BY RankTyped
<1>3. \A x, y \in S : Rank(S, R, x) = Rank(S, R, y) => x = y
  <2> SUFFICES ASSUME NEW x \in S, NEW y \in S, Rank(S, R, x) = Rank(S, R, y)
               PROVE  x = y
    OBVIOUS
  <2>1. Rank(S, R, x) \in Int
    BY <1>2
  <2>2. <<x, y>> \notin R /\ <<y, x>> \notin R
    BY <2>1, RankGrows
  <2> QED BY <2>2 DEF StrictOrder
<1>4. f \in Injection(S, 0..(N - 1))
  BY <1>2, <1>3 DEF Injection, IsInjective
<1>5. IsFiniteSet(0..(N - 1)) /\ Cardinality(0..(N - 1)) = N
  BY <1>1, FS_Interval
<1>6. f \in Surjection(S, 0..(N - 1))
  BY <1>4, <1>5, FS_Injection
<1>7. \A i \in 0..(N - 1) : \E x \in S : f[x] = i
  BY <1>6 DEF Surjection
<1> QED BY <1>3, <1>7

\* The members in order: each once, at the place of its rank
LEMMA InOrderRanks ==
  ASSUME NEW S, NEW R, IsFiniteSet(S), StrictOrder(S, R)
  PROVE  /\ InOrder(S, R) \in [1..Cardinality(S) -> S]
         /\ \A i \in 1..Cardinality(S) : Rank(S, R, InOrder(S, R)[i]) = i - 1
         /\ \A x \in S : \E i \in 1..Cardinality(S) : InOrder(S, R)[i] = x
         /\ InOrder(S, R) \in Seq(S) /\ Len(InOrder(S, R)) = Cardinality(S)
<1> DEFINE N == Cardinality(S)
           s == InOrder(S, R)
<1>1. N \in Nat
  BY FS_CardinalityType
<1>2. s = [i \in 1..N |-> CHOOSE x \in S : Rank(S, R, x) = i - 1]
  BY DEF InOrder, Rank
<1>3. \A i \in 1..N : s[i] \in S /\ Rank(S, R, s[i]) = i - 1
  <2> SUFFICES ASSUME NEW i \in 1..N
               PROVE  s[i] \in S /\ Rank(S, R, s[i]) = i - 1
    OBVIOUS
  <2>1. i - 1 \in 0..(N - 1)
    BY <1>1
  <2>2. \E x \in S : Rank(S, R, x) = i - 1
    BY <2>1, RankOnto
  <2>3. s[i] = CHOOSE x \in S : Rank(S, R, x) = i - 1
    BY <1>2
  <2> QED BY <2>2, <2>3
<1>4. s \in [1..N -> S]
  BY <1>2, <1>3
<1>5. \A x \in S : \E i \in 1..N : s[i] = x
  <2> SUFFICES ASSUME NEW x \in S
               PROVE  \E i \in 1..N : s[i] = x
    OBVIOUS
  <2>1. Rank(S, R, x) \in 0..(N - 1)
    BY RankTyped
  <2> DEFINE i == Rank(S, R, x) + 1
  <2>2. i \in 1..N
    BY <1>1, <2>1
  <2>3. Rank(S, R, s[i]) = Rank(S, R, x) /\ s[i] \in S
    BY <1>3, <2>1, <2>2
  <2> QED BY <2>2, <2>3, RankOnto
<1>6. s \in Seq(S) /\ Len(s) = N
  BY <1>1, <1>4
<1> QED BY <1>3, <1>4, <1>5, <1>6

\* The first n of them are those whose rank is less than n.
LEMMA FirstNRanks ==
  ASSUME NEW S, NEW R, IsFiniteSet(S), StrictOrder(S, R), NEW n \in Nat
  PROVE  LET s == FirstN(InOrder(S, R), n)
         IN  /\ s \in Seq(S)
             /\ Len(s) = IF n < Cardinality(S) THEN n ELSE Cardinality(S)
             /\ Range(s) = {x \in S : Rank(S, R, x) < n}
             /\ \A i, j \in DOMAIN s : s[i] = s[j] => i = j
<1> DEFINE N == Cardinality(S)
           t == InOrder(S, R)
           m == IF n < N THEN n ELSE N
           s == FirstN(t, n)
<1>1. N \in Nat
  BY FS_CardinalityType
<1>2. t \in [1..N -> S] /\ t \in Seq(S) /\ Len(t) = N
  BY InOrderRanks
<1>3. \A i \in 1..N : Rank(S, R, t[i]) = i - 1
  BY InOrderRanks
<1>4. \A x \in S : \E i \in 1..N : t[i] = x
  BY InOrderRanks
<1> HIDE DEF t
<1>5. m \in 0..N
  BY <1>1
<1>6. s = SubSeq(t, 1, m)
  BY <1>2 DEF FirstN
<1> HIDE DEF m
<1>7. s \in Seq(S) /\ Len(s) = m /\ DOMAIN s = 1..m /\ \A i \in 1..m : s[i] = t[i]
  BY <1>1, <1>2, <1>5, <1>6
<1> HIDE DEF s
<1>8. Range(s) = {x \in S : Rank(S, R, x) < n}
  <2>1. ASSUME NEW i \in 1..m PROVE s[i] \in S /\ Rank(S, R, s[i]) < n
    <3>1. i \in 1..N /\ i - 1 < n
      BY <1>1, <1>5 DEF m
    <3> QED BY <1>2, <1>3, <1>7, <3>1
  <2>2. ASSUME NEW x \in S, Rank(S, R, x) < n PROVE \E i \in 1..m : s[i] = x
    <3>1. PICK i \in 1..N : t[i] = x
      BY <1>4
    <3>2. i - 1 < n
      BY <1>3, <2>2, <3>1
    <3>3. i \in 1..m
      BY <1>1, <3>2 DEF m
    <3> QED BY <1>7, <3>1, <3>3
  <2> QED BY <1>7, <2>1, <2>2 DEF Range
<1>9. ASSUME NEW i \in DOMAIN s, NEW j \in DOMAIN s, s[i] = s[j] PROVE i = j
  <2>1. i \in 1..N /\ j \in 1..N
    BY <1>1, <1>5, <1>7
  <2>2. i - 1 = j - 1
    BY <1>3, <1>7, <1>9, <2>1
  <2> QED BY <2>1, <2>2
<1> QED BY <1>7, <1>8, <1>9 DEF s, m, t

\* The least, and the greatest, of some numbers
LEMMA LeastExists ==
  ASSUME NEW S \in SUBSET Nat, S # {}
  PROVE  \E i \in S : \A j \in S : i <= j
<1>1. PICK x \in S : \A y \in S : ~(<<y, x>> \in OpToRel(<, Nat))
  BY WFMin, NatLessThanWellFounded
<1>2. \A y \in S : ~(y < x)
  BY <1>1 DEF OpToRel
<1> QED BY <1>2

LEMMA SomeoneIsFirst ==
  ASSUME NEW S, NEW R, IsFiniteSet(S), StrictOrder(S, R), S # {}
  PROVE  \E x \in S : \A y \in S : <<y, x>> \notin R
<1>1. Cardinality(S) \in Nat \ {0}
  BY FS_CardinalityType, FS_EmptySet
<1>2. PICK x \in S : Rank(S, R, x) = 0
  BY <1>1, RankOnto
<1>3. ASSUME NEW y \in S, <<y, x>> \in R PROVE FALSE
  <2>1. Rank(S, R, y) < 0 /\ Rank(S, R, y) \in 0..(Cardinality(S) - 1)
    BY <1>2, <1>3, RankGrows, RankTyped
  <2> QED BY <1>1, <2>1
<1> QED BY <1>2, <1>3

LEMMA ExtremesExist ==
  ASSUME NEW S \in SUBSET Int, S # {}, IsFiniteSet(S)
  PROVE  /\ Max(S) \in S /\ \A x \in S : x <= Max(S)
         /\ Min(S) \in S /\ \A x \in S : Min(S) <= x
<1> DEFINE Up == {p \in S \X S : p[1] < p[2]}
           Down == {p \in S \X S : p[1] > p[2]}
<1>2. StrictOrder(S, Up) /\ StrictOrder(S, Down)
  BY DEF StrictOrder
<1>4. \E x \in S : \A y \in S : x <= y
  <2>1. PICK x \in S : \A y \in S : <<y, x>> \notin Up
    BY <1>2, SomeoneIsFirst
  <2>2. x \in Int /\ \A y \in S : y \in Int /\ ~(y < x)
    <3>1. \A y \in S : ~(y < x)
      BY <2>1
    <3> QED BY <2>1, <3>1
  <2>3. \A y \in S : x <= y
    BY <2>2
  <2> QED BY <2>1, <2>3
<1>5. \E x \in S : \A y \in S : x >= y
  <2>1. PICK x \in S : \A y \in S : <<y, x>> \notin Down
    BY <1>2, SomeoneIsFirst
  <2>2. x \in Int /\ \A y \in S : y \in Int /\ ~(y > x)
    <3>1. \A y \in S : ~(y > x)
      BY <2>1
    <3> QED BY <2>1, <3>1
  <2>3. \A y \in S : x >= y
    BY <2>2
  <2> QED BY <2>1, <2>3
<1>6. Max(S) \in S /\ \A x \in S : Max(S) >= x
  BY <1>5 DEF Max
<1>7. Min(S) \in S /\ \A x \in S : Min(S) <= x
  BY <1>4 DEF Min
<1> QED BY <1>6, <1>7

\* Who is first in an order is one of those ordered.
LEMMA FirstIsOne ==
  ASSUME NEW S, NEW R, IsFiniteSet(S), StrictOrder(S, R), S # {}
  PROVE  InOrder(S, R)[1] \in S
<1>1. Cardinality(S) \in Nat \ {0}
  BY FS_CardinalityType, FS_EmptySet
<1> QED BY <1>1, InOrderRanks

----------------------------------------------------------------------------
(* What the orders compare *)

\* A sum of affinities is a natural: the recursion that it is defined by has a solution, and no
\* least set on which that is not a natural.
LEMMA JointAffinityTyped ==
  ASSUME NEW S, IsFiniteSet(S), NEW w, NEW q, \A r \in S : Affinity(w, q, r) \in Nat
  PROVE  JointAffinity(w, q, S) \in Nat
<1> DEFINE pick(s) == CHOOSE x \in s : TRUE
           Small(n) == {s \in SUBSET S : Cardinality(s) <= n}
           Next1(h, s) == IF s = {} THEN 0 ELSE Affinity(w, q, pick(s)) + h[s \ {pick(s)}]
           Solved(n) == \E h : h = [s \in Small(n) |-> Next1(h, s)]
<1>1. \A s \in SUBSET S : IsFiniteSet(s) /\ Cardinality(s) \in Nat
  BY FS_Subset, FS_CardinalityType
<1>2. \A s \in SUBSET S : s # {} =>
        /\ pick(s) \in s /\ s \ {pick(s)} \in SUBSET S
        /\ Cardinality(s \ {pick(s)}) = Cardinality(s) - 1
  <2> SUFFICES ASSUME NEW s \in SUBSET S, s # {}
               PROVE  /\ pick(s) \in s
                      /\ Cardinality(s \ {pick(s)}) = Cardinality(s) - 1
    OBVIOUS
  <2>1. pick(s) \in s
    OBVIOUS
  <2> QED BY <1>1, <2>1, FS_RemoveElement
<1> HIDE DEF pick
<1>3. \A s \in SUBSET S : Cardinality(s) = 0 <=> s = {}
  BY <1>1, FS_EmptySet
<1>4. Solved(0)
  <2> DEFINE h == [s \in Small(0) |-> 0]
  <2>1. \A s \in Small(0) : s = {}
    BY <1>1, <1>3
  <2>2. h = [s \in Small(0) |-> Next1(h, s)]
    BY <2>1
  <2> QED BY <2>2
<1>5. ASSUME NEW n \in Nat, Solved(n) PROVE Solved(n + 1)
  <2>1. PICK h : h = [s \in Small(n) |-> Next1(h, s)]
    BY <1>5
  <2> DEFINE g == [s \in Small(n + 1) |-> Next1(h, s)]
  <2>2. \A s \in Small(n) : s \in Small(n + 1) /\ g[s] = h[s]
    <3>1. \A s \in Small(n) : s \in Small(n + 1)
      BY <1>1
    <3>2. \A s \in Small(n) : h[s] = Next1(h, s)
      BY <2>1
    <3> QED BY <3>1, <3>2
  <2>3. \A s \in Small(n + 1) : s # {} => s \ {pick(s)} \in Small(n)
    BY <1>1, <1>2
  <2>4. \A s \in Small(n + 1) : Next1(g, s) = Next1(h, s)
    BY <2>2, <2>3
  <2>5. g = [s \in Small(n + 1) |-> Next1(g, s)]
    BY <2>4
  <2> QED BY <2>5
<1> HIDE DEF Solved
<1>6. \A n \in Nat : Solved(n)
  <2> DEFINE Bad == {n \in Nat : ~Solved(n)}
  <2> SUFFICES ASSUME Bad # {} PROVE FALSE
    OBVIOUS
  <2>1. PICK n \in Bad : \A m \in Bad : n <= m
    <3> HIDE DEF Bad
    <3>1. Bad \in SUBSET Nat
      BY DEF Bad
    <3> QED BY <3>1, LeastExists
  <2>2. n # 0 /\ n - 1 \in Nat /\ Solved(n - 1)
    BY <1>4, <2>1
  <2> QED BY <1>5, <2>1, <2>2
<1>7. \E h : h = [s \in SUBSET S |-> Next1(h, s)]
  <2>1. Cardinality(S) \in Nat
    BY <1>1
  <2>2. Small(Cardinality(S)) = SUBSET S
    BY FS_Subset
  <2>3. \E h : h = [s \in Small(Cardinality(S)) |-> Next1(h, s)]
    BY <1>6, <2>1 DEF Solved
  <2> QED BY <2>2, <2>3
<1> DEFINE iter == CHOOSE h : h = [s \in SUBSET S |-> Next1(h, s)]
<1>8. iter = [s \in SUBSET S |-> Next1(iter, s)]
  BY <1>7
<1> HIDE DEF iter
<1>9. \A s \in SUBSET S : iter[s] \in Nat
  <2> DEFINE Bad == {Cardinality(s) : s \in {t \in SUBSET S : iter[t] \notin Nat}}
  <2> SUFFICES ASSUME Bad # {} PROVE FALSE
    OBVIOUS
  <2>1. PICK n \in Bad : \A m \in Bad : n <= m
    <3>1. Bad \in SUBSET Nat
      BY <1>1
    <3> HIDE DEF Bad
    <3> QED BY <3>1, LeastExists
  <2>2. PICK s \in SUBSET S : iter[s] \notin Nat /\ Cardinality(s) = n
    BY <2>1
  <2>3. s # {}
    BY <1>8, <2>2
  <2>4. /\ pick(s) \in S /\ s \ {pick(s)} \in SUBSET S
        /\ Cardinality(s \ {pick(s)}) = Cardinality(s) - 1
    BY <1>2, <2>3
  <2>5. iter[s \ {pick(s)}] \in Nat
    <3>1. Cardinality(s \ {pick(s)}) \notin Bad
      BY <1>1, <2>1, <2>2, <2>4
    <3> QED BY <2>4, <3>1
  <2>6. iter[s] = Affinity(w, q, pick(s)) + iter[s \ {pick(s)}]
    BY <1>8, <2>3
  <2> QED BY <2>2, <2>4, <2>5, <2>6
<1>10. iter[S] \in Nat
  BY <1>9
<1>11. JointAffinity(w, q, S) = iter[S]
  BY DEF JointAffinity, MapThenSumSet, MapThenFoldSet, iter, pick
<1> QED BY <1>10, <1>11

\* The workspaces and messages of a turn
GoodTurn(w, q) == IsSpec(w) /\ IsRequest(w, q)

LEMMA AffinityTyped ==
  ASSUME NEW w, NEW q, GoodTurn(w, q), NEW r
  PROVE  Affinity(w, q, r) \in Nat
BY DEF GoodTurn, IsRequest, KnownRoles, Affinity

LEMMA AffinityOrder ==
  ASSUME NEW w, NEW q, GoodTurn(w, q), NEW ids \in SUBSET Ids
  PROVE  StrictOrder(ids, ByAffinity(w, q, ids))
<1> DEFINE A(r) == Affinity(w, q, r)
<1>1. \A r \in ids : A(r) \in Nat /\ r \in Nat
  BY AffinityTyped DEF Ids
<1>2. \A x, y \in ids : <<x, y>> \in ByAffinity(w, q, ids) <=>
                          A(x) > A(y) \/ (A(x) = A(y) /\ x < y)
  BY DEF ByAffinity
<1> HIDE DEF A
<1> QED BY <1>1, <1>2 DEF StrictOrder

LEMMA BestRoleFits ==
  ASSUME NEW w, NEW q, GoodTurn(w, q), NEW ids \in SUBSET Ids, IsFiniteSet(ids), ids # {}
  PROVE  BestRole(w, q, ids) \in ids
BY AffinityOrder, FirstIsOne DEF BestRole

\* The roles that a node names
LEMMA RoleIdsTyped ==
  ASSUME NEW w, NEW q, GoodTurn(w, q), w.workflow # None, NEW n \in DOMAIN w.workflow.nodes
  PROVE  /\ RoleIds(w.workflow.nodes[n]) \in SUBSET Ids
         /\ IsFiniteSet(RoleIds(w.workflow.nodes[n]))
         /\ w.workflow.nodes[n] \in NodeSpec /\ n \in Ids
<1> DEFINE node == w.workflow.nodes[n]
<1>1. node \in NodeSpec /\ IsFiniteSet(node.candidates) /\ n \in Ids
  BY DEF GoodTurn, IsSpec
<1>2. IsFiniteSet({node.role}) /\ IsFiniteSet({node.reviewer})
  BY FS_Singleton
<1>3. IsFiniteSet({node.role} \cup {node.reviewer})
  BY <1>2, FS_Union
<1>4. {node.role, node.reviewer} \ {None} \in SUBSET ({node.role} \cup {node.reviewer})
  OBVIOUS
<1>5. IsFiniteSet({node.role, node.reviewer} \ {None})
  BY <1>3, <1>4, FS_Subset
<1>6. IsFiniteSet(RoleIds(node))
  BY <1>1, <1>5, FS_Union DEF RoleIds
<1>7. RoleIds(node) \in SUBSET Ids
  BY <1>1 DEF RoleIds, NodeSpec, MaybeId, Maybe
<1> QED BY <1>1, <1>6, <1>7

LEMMA NodeScoreTyped ==
  ASSUME NEW w, NEW q, GoodTurn(w, q), w.workflow # None, NEW n \in DOMAIN w.workflow.nodes
  PROVE  NodeScore(w, q, n) \in Nat
<1> DEFINE node == w.workflow.nodes[n]
<1>1. JointAffinity(w, q, RoleIds(node)) \in Nat
  BY AffinityTyped, RoleIdsTyped, JointAffinityTyped
<1>2. NodePriority(node.type) \in Nat
  BY RoleIdsTyped DEF NodePriority, NodeSpec, NodeType
<1>3. q.tokens[n] \in Nat
  BY DEF GoodTurn, IsRequest
<1>4. NodeScore(w, q, n) = q.tokens[n] + JointAffinity(w, q, RoleIds(node)) + NodePriority(node.type)
  BY DEF NodeScore
<1> QED BY <1>1, <1>2, <1>3, <1>4

\* The nodes that a message may be about
LEMMA CandidatesTyped ==
  ASSUME NEW w, NEW q, GoodTurn(w, q), NEW nodes \in SUBSET WorkflowCandidates(w, q)
  PROVE  /\ IsFiniteSet(nodes) /\ StrictOrder(nodes, ByScore(w, q, nodes))
         /\ nodes # {} => w.workflow # None
         /\ \A n \in nodes : /\ n \in DOMAIN w.workflow.nodes /\ n \in Ids
                             /\ RoleIds(w.workflow.nodes[n]) # {}
<1>1. CASE nodes = {}
  BY <1>1, FS_EmptySet DEF StrictOrder
<1>2. CASE nodes # {}
  <2>1. w.workflow # None /\ nodes \in SUBSET DOMAIN w.workflow.nodes
        /\ \A n \in nodes : RoleIds(w.workflow.nodes[n]) # {}
    BY <1>2 DEF WorkflowCandidates
  <2>2. IsFiniteSet(nodes) /\ \A n \in nodes : n \in Ids
    BY <2>1, FS_Subset DEF GoodTurn, IsSpec
  <2> DEFINE V(n) == NodeScore(w, q, n)
  <2>3. \A n \in nodes : V(n) \in Nat /\ n \in Nat
    BY <2>1, <2>2, NodeScoreTyped DEF Ids
  <2>4. \A x, y \in nodes : <<x, y>> \in ByScore(w, q, nodes) <=>
                              V(x) > V(y) \/ (V(x) = V(y) /\ x < y)
    BY DEF ByScore
  <2> HIDE DEF V
  <2>5. StrictOrder(nodes, ByScore(w, q, nodes))
    BY <2>3, <2>4 DEF StrictOrder
  <2> QED BY <2>1, <2>2, <2>5
<1> QED BY <1>1, <1>2

LEMMA BestNodeFits ==
  ASSUME NEW w, NEW q, GoodTurn(w, q), NEW r
  PROVE  \/ BestNodeFor(w, q, r) = None
         \/ /\ BestNodeFor(w, q, r) \in Ids
            /\ w.workflow # None /\ BestNodeFor(w, q, r) \in DOMAIN w.workflow.nodes
            /\ r \in RoleIds(w.workflow.nodes[BestNodeFor(w, q, r)])
<1> DEFINE lanes == {n \in WorkflowCandidates(w, q) : r \in RoleIds(w.workflow.nodes[n])}
<1>1. CASE lanes = {}
  BY <1>1 DEF BestNodeFor
<1>2. CASE lanes # {}
  <2>1. lanes \in SUBSET WorkflowCandidates(w, q)
    OBVIOUS
  <2>2. /\ IsFiniteSet(lanes) /\ StrictOrder(lanes, ByScore(w, q, lanes))
        /\ \A n \in lanes : n \in Ids /\ w.workflow # None /\ n \in DOMAIN w.workflow.nodes
    BY <2>1, CandidatesTyped
  <2>3. BestNodeFor(w, q, r) = InOrder(lanes, ByScore(w, q, lanes))[1]
    BY <1>2 DEF BestNodeFor, RankedNodes
  <2>4. BestNodeFor(w, q, r) \in lanes
    <3> HIDE DEF lanes
    <3> QED BY <1>2, <2>2, <2>3, FirstIsOne
  <2> QED BY <2>2, <2>4
<1> QED BY <1>1, <1>2

----------------------------------------------------------------------------
(* Plans *)

\* The roles that the workspace or the message names
Named(w, q) ==
  KnownRoles(w) \cup ({w.coordinator, w.default, w.claim.fallback, q.prefer} \ {None})
    \cup {r \in Ids : w.workflow # None /\
                      \E n \in DOMAIN w.workflow.nodes : r \in RoleIds(w.workflow.nodes[n])}

\* Whoever is sent to a node is named by it.
PlanFits(w, q, p) ==
  \A i \in DOMAIN p :
    IF p[i].node = None THEN p[i].role \in Named(w, q)
    ELSE /\ w.workflow # None /\ p[i].node \in DOMAIN w.workflow.nodes
         /\ p[i].role \in RoleIds(w.workflow.nodes[p[i].node])

GoodPlan(w, q, p, max) ==
  /\ p \in Seq(Assignment) /\ Len(p) <= max
  /\ \A i, j \in DOMAIN p : p[i].role = p[j].role => i = j
  /\ PlanFits(w, q, p)

LEMMA NamedTyped ==
  ASSUME NEW w, NEW q, GoodTurn(w, q)
  PROVE  Named(w, q) \in SUBSET Ids
<1>1. KnownRoles(w) \in SUBSET Ids
  BY DEF GoodTurn, IsRequest, IsSpec, KnownRoles, Range
<1> QED BY <1>1 DEF Named, GoodTurn, IsSpec, IsRequest, MaybeId, Maybe

LEMMA DirectPlanGood ==
  ASSUME NEW w, NEW q, GoodTurn(w, q), NEW r \in Named(w, q), NEW max \in Nat \ {0}
  PROVE  /\ GoodPlan(w, q, DirectPlan(r), max) /\ DirectPlan(r) # <<>>
         /\ Workers(DirectPlan(r)) = {r}
<1> DEFINE a == [role |-> r, node |-> None]
           p == <<a>>
<1>1. a \in Assignment /\ a.role = r /\ a.node = None
  BY NamedTyped DEF Assignment, MaybeId, Maybe
<1> HIDE DEF a
<1>2. p \in Seq(Assignment) /\ Len(p) = 1 /\ DOMAIN p = {1} /\ p[1] = a
  BY <1>1
<1>3. DirectPlan(r) = p
  BY DEF DirectPlan, a
<1> HIDE DEF p
<1>4. GoodPlan(w, q, p, max)
  BY <1>1, <1>2 DEF GoodPlan, PlanFits
<1>5. p # <<>>
  BY <1>2
<1>6. Workers(p) = {r}
  <2>1. \A i \in DOMAIN p : p[i].role = r
    BY <1>1, <1>2
  <2> QED BY <1>2, <2>1 DEF Workers
<1> QED BY <1>3, <1>4, <1>5, <1>6

LEMMA FallbackTyped ==
  ASSUME NEW w, NEW q, GoodTurn(w, q)
  PROVE  /\ KnownRoles(w) \in SUBSET Ids /\ KnownRoles(w) # {} /\ IsFiniteSet(KnownRoles(w))
         /\ CoordinatorRole(w) \in Named(w, q) /\ FallbackRole(w) \in Named(w, q)
         /\ GuessFallbackRole(w, q) \in Named(w, q)
         /\ MaxAssignments(w, q) \in Nat \ {0}
<1>1. /\ w.roles \in Seq(Ids) /\ w.roles # <<>> /\ w.coordinator \in MaybeId
      /\ w.default \in MaybeId /\ w.claim.max \in MaybeId /\ w.claim.fallback \in MaybeId
  BY DEF GoodTurn, IsSpec
<1>2. Len(w.roles) \in Nat \ {0} /\ DOMAIN w.roles = 1..Len(w.roles) /\ w.roles[1] \in Ids
  BY <1>1
<1>3. KnownRoles(w) \in SUBSET Ids /\ w.roles[1] \in KnownRoles(w)
  BY <1>1, <1>2 DEF KnownRoles, Range
<1>4. IsFiniteSet(DOMAIN w.roles)
  BY <1>2, FS_Interval
<1>5. w.roles \in Surjection(DOMAIN w.roles, KnownRoles(w))
  BY <1>1 DEF KnownRoles, Range, Surjection
<1>6. IsFiniteSet(KnownRoles(w))
  BY <1>4, <1>5, FS_Surjection
<1>7. CoordinatorRole(w) \in Named(w, q) /\ FallbackRole(w) \in Named(w, q)
  BY <1>3 DEF CoordinatorRole, FallbackRole, OrElse, Named
<1>8. GuessFallbackRole(w, q) \in Named(w, q)
  <2> DEFINE score == [i \in DOMAIN w.roles |-> Affinity(w, q, w.roles[i])]
             best == Max(Range(score))
             at == {i \in DOMAIN score : score[i] = best}
  <2>1. /\ Range(score) = {score[i] : i \in DOMAIN score} /\ DOMAIN score = 1..Len(w.roles)
        /\ \A i \in DOMAIN score : score[i] \in Nat
    BY <1>2, AffinityTyped DEF Range
  <2>2. IsFiniteSet(Range(score)) /\ Range(score) \in SUBSET Int /\ Range(score) # {}
    <3> HIDE DEF score
    <3>1. score \in [DOMAIN score -> Range(score)]
      BY <2>1 DEF score
    <3>2. score \in Surjection(DOMAIN score, Range(score))
      BY <2>1, <3>1 DEF Surjection
    <3>3. IsFiniteSet(Range(score))
      BY <1>4, <2>1, <3>2, FS_Surjection DEF score
    <3>4. Range(score) \in SUBSET Int /\ score[1] \in Range(score)
      BY <1>2, <2>1
    <3> QED BY <3>3, <3>4
  <2> HIDE DEF score
  <2>3. best \in Range(score)
    BY <2>2, ExtremesExist
  <2>4. at # {} /\ at \in SUBSET (1..Len(w.roles))
    BY <2>1, <2>3
  <2>5. at \in SUBSET Int /\ IsFiniteSet(at)
    <3>1. IsFiniteSet(1..Len(w.roles)) /\ (1..Len(w.roles)) \in SUBSET Int
      BY <1>2, FS_Interval
    <3> HIDE DEF at
    <3> QED BY <2>4, <3>1, FS_Subset
  <2> HIDE DEF at
  <2>6. Min(at) \in at
    BY <2>4, <2>5, ExtremesExist
  <2>7. w.roles[Min(at)] \in Named(w, q)
    BY <1>2, <2>4, <2>6 DEF Named, KnownRoles, Range
  <2>8. GuessFallbackRole(w, q) = IF best = 0 THEN FallbackRole(w) ELSE w.roles[Min(at)]
    BY DEF GuessFallbackRole, best, at, score
  <2> QED BY <1>7, <2>7, <2>8
<1>9. MaxAssignments(w, q) \in Nat \ {0}
  <2>1. q.max \in MaybeId
    BY DEF GoodTurn, IsRequest
  <2>2. OrElse(OrElse(q.max, w.claim.max), 1) \in Nat
    BY <1>1, <2>1 DEF OrElse, MaybeId, Maybe, Ids
  <2> QED BY <2>2 DEF MaxAssignments, AtLeastOne
<1> QED BY <1>3, <1>6, <1>7, <1>8, <1>9

\* The nodes with the best roles: the best node of each role, of which there is one at least
LEMMA HeuristicPlanGood ==
  ASSUME NEW w, NEW q, GoodTurn(w, q), NEW max \in Nat \ {0}
  PROVE  GoodPlan(w, q, HeuristicPlan(w, q, max), max) /\ HeuristicPlan(w, q, max) # <<>>
<1> DEFINE nodes == WorkflowCandidates(w, q)
           Who(n) == BestRole(w, q, RoleIds(w.workflow.nodes[n]))
           ranked == RankedNodes(w, q, nodes)
           firsts == {ranked[i] : i \in {i \in DOMAIN ranked :
                        \A j \in 1..(i - 1) : Who(ranked[j]) # Who(ranked[i])}}
           perRole == FirstN(RankedNodes(w, q, firsts), max)
           suited == {r \in KnownRoles(w) : Affinity(w, q, r) > 0}
           byRole == FirstN(InOrder(suited, ByAffinity(w, q, suited)), max)
<1>1. CASE nodes # {}
  <2>1. \A n \in nodes :
          /\ n \in DOMAIN w.workflow.nodes /\ n \in Ids /\ w.workflow # None
          /\ Who(n) \in RoleIds(w.workflow.nodes[n]) /\ Who(n) \in Ids
    <3> SUFFICES ASSUME NEW n \in nodes
                 PROVE  /\ n \in DOMAIN w.workflow.nodes /\ n \in Ids /\ w.workflow # None
                        /\ Who(n) \in RoleIds(w.workflow.nodes[n]) /\ Who(n) \in Ids
      OBVIOUS
    <3>1. /\ n \in DOMAIN w.workflow.nodes /\ n \in Ids /\ w.workflow # None
          /\ RoleIds(w.workflow.nodes[n]) # {}
      BY CandidatesTyped
    <3>2. RoleIds(w.workflow.nodes[n]) \in SUBSET Ids /\ IsFiniteSet(RoleIds(w.workflow.nodes[n]))
      BY <3>1, RoleIdsTyped
    <3>3. Who(n) \in RoleIds(w.workflow.nodes[n])
      BY <3>1, <3>2, BestRoleFits
    <3> QED BY <3>1, <3>2, <3>3
  <2> HIDE DEF Who
  <2>2. IsFiniteSet(nodes) /\ StrictOrder(nodes, ByScore(w, q, nodes))
    BY CandidatesTyped
  <2>3. Cardinality(nodes) \in Nat \ {0}
    BY <1>1, <2>2, FS_CardinalityType, FS_EmptySet
  <2>4. /\ ranked \in [1..Cardinality(nodes) -> nodes]
        /\ \A n \in nodes : \E i \in 1..Cardinality(nodes) : ranked[i] = n
    BY <2>2, InOrderRanks DEF RankedNodes
  <2> HIDE DEF ranked
  <2>5. firsts \in SUBSET nodes
    BY <2>4
  <2>6. ranked[1] \in firsts
    BY <2>3, <2>4
  <2>7. \A m, n \in firsts : Who(m) = Who(n) => m = n
    <3> SUFFICES ASSUME NEW m \in firsts, NEW n \in firsts, Who(m) = Who(n)
                 PROVE  m = n
      OBVIOUS
    <3>1. PICK i \in 1..Cardinality(nodes) :
            ranked[i] = m /\ \A j \in 1..(i - 1) : Who(ranked[j]) # Who(ranked[i])
      BY <2>4
    <3>2. PICK k \in 1..Cardinality(nodes) :
            ranked[k] = n /\ \A j \in 1..(k - 1) : Who(ranked[j]) # Who(ranked[k])
      BY <2>4
    <3>3. ~(i < k) /\ ~(k < i)
      BY <2>3, <3>1, <3>2
    <3> QED BY <2>3, <3>1, <3>2, <3>3
  <2> HIDE DEF firsts
  <2>8. IsFiniteSet(firsts) /\ StrictOrder(firsts, ByScore(w, q, firsts))
    BY <2>5, CandidatesTyped
  <2>9. Cardinality(firsts) \in Nat \ {0}
    BY <2>6, <2>8, FS_CardinalityType, FS_EmptySet
  <2>10. /\ perRole \in Seq(firsts)
         /\ Len(perRole) = IF max < Cardinality(firsts) THEN max ELSE Cardinality(firsts)
         /\ \A i, j \in DOMAIN perRole : perRole[i] = perRole[j] => i = j
    BY <2>8, FirstNRanks DEF RankedNodes
  <2> HIDE DEF perRole
  <2> DEFINE p == [i \in DOMAIN perRole |-> [role |-> Who(perRole[i]), node |-> perRole[i]]]
  <2>11. Len(perRole) \in 1..max /\ DOMAIN perRole = 1..Len(perRole)
    BY <2>9, <2>10
  <2>12. \A i \in DOMAIN perRole : perRole[i] \in firsts /\ perRole[i] \in nodes
    BY <2>5, <2>10
  <2> HIDE DEF nodes
  <2>13. \A i \in DOMAIN p : p[i] \in Assignment /\ p[i].role = Who(perRole[i]) /\ p[i].node = perRole[i]
    BY <2>1, <2>12 DEF Assignment, MaybeId, Maybe
  <2>14. p \in Seq(Assignment) /\ Len(p) = Len(perRole) /\ DOMAIN p = DOMAIN perRole
    <3>1. p \in [1..Len(perRole) -> Assignment]
      BY <2>11, <2>13
    <3> HIDE DEF p
    <3> QED BY <2>11, <3>1
  <2>15. HeuristicPlan(w, q, max) = p
    BY <1>1 DEF HeuristicPlan, nodes, Who, ranked, firsts, perRole
  <2> HIDE DEF p
  <2>16. PlanFits(w, q, p)
    BY <2>1, <2>12, <2>13, <2>14, NoneIsNoNumber DEF PlanFits, Ids
  <2>17. \A i, j \in DOMAIN p : p[i].role = p[j].role => i = j
    BY <2>7, <2>10, <2>12, <2>13, <2>14
  <2> QED BY <2>11, <2>14, <2>15, <2>16, <2>17 DEF GoodPlan
<1>2. CASE nodes = {} /\ suited # {}
  <2>1. suited \in SUBSET Ids /\ IsFiniteSet(suited) /\ suited \in SUBSET Named(w, q)
    BY FallbackTyped, FS_Subset DEF Named
  <2>2. StrictOrder(suited, ByAffinity(w, q, suited))
    BY <2>1, AffinityOrder
  <2> HIDE DEF suited
  <2>3. Cardinality(suited) \in Nat \ {0}
    BY <1>2, <2>1, FS_CardinalityType, FS_EmptySet
  <2>4. /\ byRole \in Seq(suited)
        /\ Len(byRole) = IF max < Cardinality(suited) THEN max ELSE Cardinality(suited)
        /\ \A i, j \in DOMAIN byRole : byRole[i] = byRole[j] => i = j
    BY <2>1, <2>2, FirstNRanks
  <2> HIDE DEF byRole
  <2> DEFINE p == [i \in DOMAIN byRole |-> [role |-> byRole[i], node |-> None]]
  <2>5. Len(byRole) \in 1..max /\ DOMAIN byRole = 1..Len(byRole)
    BY <2>3, <2>4
  <2>6. \A i \in DOMAIN p : p[i] \in Assignment /\ p[i].role = byRole[i] /\ p[i].node = None
    BY <2>1, <2>4 DEF Assignment, MaybeId, Maybe
  <2>7. p \in Seq(Assignment) /\ Len(p) = Len(byRole) /\ DOMAIN p = DOMAIN byRole
    <3>1. p \in [1..Len(byRole) -> Assignment]
      BY <2>5, <2>6
    <3> HIDE DEF p
    <3> QED BY <2>5, <3>1
  <2>8. HeuristicPlan(w, q, max) = p
    BY <1>2 DEF HeuristicPlan, suited, byRole
  <2> HIDE DEF p
  <2> QED BY <2>1, <2>4, <2>5, <2>6, <2>7, <2>8 DEF GoodPlan, PlanFits
<1>3. CASE nodes = {} /\ suited = {}
  <2>1. HeuristicPlan(w, q, max) = DirectPlan(FallbackRole(w))
    BY <1>3 DEF HeuristicPlan
  <2> QED BY <2>1, FallbackTyped, DirectPlanGood
<1> QED BY <1>1, <1>2, <1>3

LEMMA PlanTurnGood ==
  ASSUME NEW w, NEW q, GoodTurn(w, q)
  PROVE  GoodPlan(w, q, PlanTurn(w, q), MaxAssignments(w, q)) /\ PlanTurn(w, q) # <<>>
<1>1. MaxAssignments(w, q) \in Nat \ {0}
  BY FallbackTyped
<1>2. q.prefer # None => q.prefer \in Named(w, q)
  BY DEF Named
<1> QED BY <1>1, <1>2, DirectPlanGood, HeuristicPlanGood DEF PlanTurn

\* The role that a node is resolved to is one that it names.
LEMMA ResolvedFits ==
  ASSUME NEW w, NEW q, GoodTurn(w, q), w.workflow # None, NEW n \in DOMAIN w.workflow.nodes
  PROVE  LET r == ResolveNodeRole(w, q, w.workflow.nodes[n])
         IN  r = None \/ (r \in Ids /\ r \in RoleIds(w.workflow.nodes[n]))
<1> DEFINE node == w.workflow.nodes[n]
<1>1. None \notin KnownRoles(w) /\ KnownRoles(w) \subseteq Ids
  BY FallbackTyped, NoneIsNoNumber DEF Ids
<1>2. /\ node.candidates \in SUBSET Ids /\ IsFiniteSet(node.candidates)
      /\ node.candidates \subseteq RoleIds(node)
  <2>1. node \in NodeSpec /\ IsFiniteSet(node.candidates)
    BY DEF GoodTurn, IsSpec
  <2> QED BY <2>1 DEF RoleIds, NodeSpec
<1>3. node.role \in KnownRoles(w) => node.role \in RoleIds(node)
  BY <1>1 DEF RoleIds
<1>4. node.reviewer \in KnownRoles(w) => node.reviewer \in RoleIds(node)
  BY <1>1 DEF RoleIds
<1>5. node.candidates # {} => BestRole(w, q, node.candidates) \in node.candidates
  BY <1>2, BestRoleFits
<1> HIDE DEF node
<1> QED BY <1>1, <1>2, <1>3, <1>4, <1>5 DEF ResolveNodeRole, node

LEMMA EntryPlanGood ==
  ASSUME NEW w, NEW q, GoodTurn(w, q)
  PROVE  GoodPlan(w, q, EntryPlan(w, q), MaxAssignments(w, q))
<1> DEFINE max == MaxAssignments(w, q)
           entry == w.workflow.entry
           r == ResolveNodeRole(w, q, w.workflow.nodes[entry])
<1>1. max \in Nat \ {0}
  BY FallbackTyped
<1>2. CASE w.workflow = None \/ entry \notin DOMAIN w.workflow.nodes
  BY <1>2, PlanTurnGood DEF EntryPlan
<1>3. CASE w.workflow # None /\ entry \in DOMAIN w.workflow.nodes
  <2>1. r = None \/ (r \in Ids /\ r \in RoleIds(w.workflow.nodes[entry]))
    BY <1>3, ResolvedFits
  <2>2. EntryPlan(w, q) = IF r = None THEN <<>> ELSE <<[role |-> r, node |-> entry]>>
    BY <1>3 DEF EntryPlan
  <2>3. entry \in Ids
    BY <1>3 DEF GoodTurn, IsSpec
  <2> HIDE DEF r, entry, max
  <2>4. CASE r = None
    <3>1. EntryPlan(w, q) = <<>>
      BY <2>2, <2>4
    <3> QED BY <1>1, <3>1 DEF GoodPlan, PlanFits, max
  <2>5. CASE r # None
    <3> DEFINE a == [role |-> r, node |-> entry]
               p == <<a>>
    <3>1. a \in Assignment /\ a.role = r /\ a.node = entry
      BY <2>1, <2>3, <2>5 DEF Assignment, MaybeId, Maybe
    <3>2. EntryPlan(w, q) = p
      BY <2>2, <2>5
    <3> HIDE DEF a
    <3>3. p \in Seq(Assignment) /\ Len(p) = 1 /\ DOMAIN p = {1} /\ p[1] = a
      BY <3>1
    <3> HIDE DEF p
    <3>4. PlanFits(w, q, p)
      BY <1>3, <2>1, <2>3, <2>5, <3>1, <3>3, NoneIsNoNumber DEF PlanFits, Ids, entry
    <3> QED BY <1>1, <3>2, <3>3, <3>4 DEF GoodPlan, max
  <2> QED BY <2>4, <2>5
<1> QED BY <1>2, <1>3

----------------------------------------------------------------------------
(* Claims *)

\* The members that have answered, each with one of the three words
GoodClaims(w, c) ==
  /\ DOMAIN c \in SUBSET KnownRoles(w)
  /\ \A r \in DOMAIN c : c[r] \in ClaimResponse

LEMMA ClaimScoreTyped ==
  ASSUME NEW w, NEW q, GoodTurn(w, q), NEW claim \in ClaimResponse, NEW r
  PROVE  ClaimScore(w, q, r, claim) \in Int
<1>1. claim.confidence \in Int
  BY DEF ClaimResponse
<1> QED BY <1>1, AffinityTyped DEF ClaimScore

LEMMA ClaimOrder ==
  ASSUME NEW w, NEW q, GoodTurn(w, q), NEW c, GoodClaims(w, c), NEW S \in SUBSET DOMAIN c
  PROVE  /\ IsFiniteSet(S) /\ S \in SUBSET Ids
         /\ StrictOrder(S, ByClaim(w, q, c, S))
<1>1. S \in SUBSET KnownRoles(w)
  BY DEF GoodClaims
<1>2. S \in SUBSET Ids /\ IsFiniteSet(S)
  BY <1>1, FallbackTyped, FS_Subset
<1> DEFINE V(r) == ClaimScore(w, q, r, c[r])
           C(r) == c[r].confidence
<1>3. \A r \in S : V(r) \in Int /\ C(r) \in Int /\ r \in Nat
  BY <1>2, ClaimScoreTyped DEF Ids, GoodClaims, ClaimResponse
<1>4. \A x, y \in S : <<x, y>> \in ByClaim(w, q, c, S) <=>
                        \/ V(x) > V(y)
                        \/ V(x) = V(y) /\ (C(x) > C(y) \/ (C(x) = C(y) /\ x < y))
  BY DEF ByClaim, Outranks
<1> HIDE DEF V, C
<1>5. StrictOrder(S, ByClaim(w, q, c, S))
  BY <1>3, <1>4 DEF StrictOrder
<1> QED BY <1>2, <1>5

Owners(c) == Responders(c, "claim")
Helpers(c) == Responders(c, "support")

\* How many claimers a plan takes
Least(m, n) == IF m < n THEN m ELSE n

\* A member is chosen by its rank: a claimer among the claimers, a supporter among the
\* supporters if any place is left.
LEMMA ChosenByRank ==
  ASSUME NEW w, NEW q, GoodTurn(w, q), NEW c, GoodClaims(w, c)
  PROVE  LET max  == MaxAssignments(w, q)
             left == max - Least(max, Cardinality(Owners(c)))
             RankIn(S, r) == Rank(S, ByClaim(w, q, c, S), r)
             s == Chosen(w, q, c)
         IN  /\ Cardinality(Owners(c)) \in Nat /\ Cardinality(Helpers(c)) \in Nat
             /\ s \in Seq(DOMAIN c) /\ Len(s) <= max
             /\ \A i, j \in DOMAIN s : s[i] = s[j] => i = j
             /\ Range(s) = {r \in Owners(c) : RankIn(Owners(c), r) < max}
                             \cup {r \in Helpers(c) : w.claim.supporting
                                                        /\ RankIn(Helpers(c), r) < left}
<1> DEFINE max == MaxAssignments(w, q)
           A == Owners(c)
           B == Helpers(c)
           left == max - Least(max, Cardinality(A))
           s == FirstN(InOrder(A, ByClaim(w, q, c, A)), max)
           t == FirstN(InOrder(B, ByClaim(w, q, c, B)), left)
           RA == {r \in A : Rank(A, ByClaim(w, q, c, A), r) < max}
           RB == {r \in B : Rank(B, ByClaim(w, q, c, B), r) < left}
<1>1. max \in Nat \ {0}
  BY FallbackTyped
<1>2. A \in SUBSET DOMAIN c /\ B \in SUBSET DOMAIN c /\ A \cap B = {}
  BY DEF Owners, Helpers, Responders
<1>3. /\ IsFiniteSet(A) /\ StrictOrder(A, ByClaim(w, q, c, A))
      /\ IsFiniteSet(B) /\ StrictOrder(B, ByClaim(w, q, c, B))
  BY <1>2, ClaimOrder
<1>4. Cardinality(A) \in Nat /\ Cardinality(B) \in Nat
  BY <1>3, FS_CardinalityType
<1>5. left \in Nat /\ Least(max, Cardinality(A)) \in Nat
  BY <1>1, <1>4 DEF Least
<1>6. /\ s \in Seq(A) /\ Len(s) = Least(max, Cardinality(A)) /\ Range(s) = RA
      /\ \A i, j \in DOMAIN s : s[i] = s[j] => i = j
  <2> DEFINE R == ByClaim(w, q, c, A)
  <2> HIDE DEF A, R, max
  <2>1. IsFiniteSet(A) /\ StrictOrder(A, R) /\ max \in Nat
    BY <1>1, <1>3 DEF R
  <2>2. /\ FirstN(InOrder(A, R), max) \in Seq(A)
        /\ Len(FirstN(InOrder(A, R), max)) = IF max < Cardinality(A) THEN max ELSE Cardinality(A)
        /\ Range(FirstN(InOrder(A, R), max)) = {x \in A : Rank(A, R, x) < max}
        /\ \A i, j \in DOMAIN FirstN(InOrder(A, R), max) :
             FirstN(InOrder(A, R), max)[i] = FirstN(InOrder(A, R), max)[j] => i = j
    BY <2>1, FirstNRanks
  <2> QED BY <2>2 DEF Least, R
<1>7. /\ t \in Seq(B) /\ Len(t) <= left /\ Range(t) = RB
      /\ \A i, j \in DOMAIN t : t[i] = t[j] => i = j
  <2> DEFINE R == ByClaim(w, q, c, B)
  <2> HIDE DEF B, R, left
  <2>1. IsFiniteSet(B) /\ StrictOrder(B, R) /\ left \in Nat /\ Cardinality(B) \in Nat
    BY <1>3, <1>4, <1>5 DEF R
  <2>2. /\ FirstN(InOrder(B, R), left) \in Seq(B)
        /\ Len(FirstN(InOrder(B, R), left)) = IF left < Cardinality(B) THEN left ELSE Cardinality(B)
        /\ Range(FirstN(InOrder(B, R), left)) = {x \in B : Rank(B, R, x) < left}
        /\ \A i, j \in DOMAIN FirstN(InOrder(B, R), left) :
             FirstN(InOrder(B, R), left)[i] = FirstN(InOrder(B, R), left)[j] => i = j
    BY <2>1, FirstNRanks
  <2> QED BY <2>1, <2>2 DEF R
<1>8. Chosen(w, q, c) = s \o IF w.claim.supporting THEN t ELSE <<>>
  BY <1>6 DEF Chosen, RankedMembers, Owners, Helpers
<1> HIDE DEF s, t, A, B, RA, RB, left, max
<1>9. s \in Seq(DOMAIN c) /\ t \in Seq(DOMAIN c) /\ Len(s) + Len(t) <= max /\ Len(s) <= max
  BY <1>1, <1>2, <1>4, <1>5, <1>6, <1>7 DEF left, Least
<1>10. CASE w.claim.supporting
  <2>1. Chosen(w, q, c) = s \o t
    BY <1>8, <1>10
  <2> DEFINE u == s \o t
  <2>2. /\ u \in Seq(DOMAIN c) /\ Len(u) = Len(s) + Len(t) /\ DOMAIN u = 1..(Len(s) + Len(t))
        /\ \A i \in 1..Len(s) : u[i] = s[i]
        /\ \A i \in (Len(s) + 1)..(Len(s) + Len(t)) : u[i] = t[i - Len(s)]
    BY <1>9
  <2>3. DOMAIN s = 1..Len(s) /\ DOMAIN t = 1..Len(t) /\ Len(s) \in Nat /\ Len(t) \in Nat
    BY <1>9
  <2> HIDE DEF u
  <2>4. Range(u) = RA \cup RB
    <3>1. ASSUME NEW x \in Range(u) PROVE x \in Range(s) \/ x \in Range(t)
      <4>1. PICK i \in 1..(Len(s) + Len(t)) : u[i] = x
        BY <2>2, <3>1 DEF Range
      <4>2. CASE i <= Len(s)
        BY <2>2, <2>3, <4>1, <4>2 DEF Range
      <4>3. CASE i > Len(s)
        <5>1. i - Len(s) \in DOMAIN t /\ t[i - Len(s)] = x
          BY <2>2, <2>3, <4>1, <4>3
        <5> QED BY <5>1 DEF Range
      <4> QED BY <2>3, <4>1, <4>2, <4>3
    <3>2. ASSUME NEW x \in Range(s) PROVE x \in Range(u)
      <4>1. PICK i \in 1..Len(s) : s[i] = x
        BY <2>3, <3>2 DEF Range
      <4>2. i \in DOMAIN u /\ u[i] = x
        BY <2>2, <2>3, <4>1
      <4> QED BY <4>2 DEF Range
    <3>3. ASSUME NEW x \in Range(t) PROVE x \in Range(u)
      <4>1. PICK i \in 1..Len(t) : t[i] = x
        BY <2>3, <3>3 DEF Range
      <4>2. Len(s) + i \in DOMAIN u /\ u[Len(s) + i] = t[i]
        BY <2>2, <2>3, <4>1
      <4> QED BY <4>1, <4>2 DEF Range
    <3> QED BY <1>6, <1>7, <3>1, <3>2, <3>3
  <2>5. ASSUME NEW i \in DOMAIN u, NEW j \in DOMAIN u, u[i] = u[j] PROVE i = j
    <3>1. i \in 1..(Len(s) + Len(t)) /\ j \in 1..(Len(s) + Len(t))
      BY <2>2
    <3>2. \A k \in 1..Len(s) : s[k] \in A
      BY <1>6, <2>3
    <3>3. \A k \in 1..Len(t) : t[k] \in B
      BY <1>7, <2>3
    <3>4. CASE i <= Len(s) /\ j <= Len(s)
      BY <1>6, <2>2, <2>3, <2>5, <3>1, <3>4
    <3>5. CASE i > Len(s) /\ j > Len(s)
      <4>1. i - Len(s) \in DOMAIN t /\ j - Len(s) \in DOMAIN t
        BY <2>3, <3>1, <3>5
      <4>2. t[i - Len(s)] = t[j - Len(s)]
        BY <2>2, <2>3, <2>5, <3>1, <3>5
      <4>3. i - Len(s) = j - Len(s)
        BY <1>7, <4>1, <4>2
      <4> QED BY <2>3, <3>1, <4>3
    <3>6. CASE i <= Len(s) /\ j > Len(s)
      <4>1. u[i] \in A
        BY <2>2, <2>3, <3>1, <3>2, <3>6
      <4>2. j - Len(s) \in 1..Len(t) /\ u[j] = t[j - Len(s)]
        BY <2>2, <2>3, <3>1, <3>6
      <4> QED BY <1>2, <2>5, <3>3, <4>1, <4>2
    <3>7. CASE j <= Len(s) /\ i > Len(s)
      <4>1. u[j] \in A
        BY <2>2, <2>3, <3>1, <3>2, <3>7
      <4>2. i - Len(s) \in 1..Len(t) /\ u[i] = t[i - Len(s)]
        BY <2>2, <2>3, <3>1, <3>7
      <4> QED BY <1>2, <2>5, <3>3, <4>1, <4>2
    <3> QED BY <2>3, <3>1, <3>4, <3>5, <3>6, <3>7
  <2>6. Len(u) <= max
    BY <1>9, <2>2
  <2>7. Range(u) = RA \cup {r \in B : w.claim.supporting /\ Rank(B, ByClaim(w, q, c, B), r) < left}
    BY <1>10, <2>4 DEF RB
  <2> QED BY <1>4, <2>1, <2>2, <2>5, <2>6, <2>7 DEF u, RA, A, B, max, left
<1>11. CASE ~w.claim.supporting
  <2>1. Chosen(w, q, c) = s
    BY <1>8, <1>9, <1>11
  <2>2. Range(s) = RA \cup {r \in B : w.claim.supporting /\ Rank(B, ByClaim(w, q, c, B), r) < left}
    BY <1>6, <1>11
  <2> QED BY <1>4, <1>6, <1>9, <2>1, <2>2 DEF RA, A, B, max, left
<1> QED BY <1>10, <1>11

LEMMA ClaimPlanGood ==
  ASSUME NEW w, NEW q, GoodTurn(w, q), NEW c, GoodClaims(w, c)
  PROVE  /\ GoodPlan(w, q, ClaimPlan(w, q, c), MaxAssignments(w, q))
         /\ ClaimPlan(w, q, c) # <<>>
         /\ IF Chosen(w, q, c) = <<>>
            THEN \E r : Workers(ClaimPlan(w, q, c)) = {r}
            ELSE Workers(ClaimPlan(w, q, c)) = Range(Chosen(w, q, c))
<1> DEFINE s == Chosen(w, q, c)
           max == MaxAssignments(w, q)
<1>1. /\ max \in Nat \ {0} /\ GuessFallbackRole(w, q) \in Named(w, q)
      /\ DOMAIN c \in SUBSET Ids /\ DOMAIN c \in SUBSET Named(w, q)
  BY FallbackTyped DEF GoodClaims, Named
<1>2. /\ s \in Seq(DOMAIN c) /\ Len(s) <= max
      /\ \A i, j \in DOMAIN s : s[i] = s[j] => i = j
  BY ChosenByRank
<1>3. CASE s = <<>>
  <2>1. ClaimPlan(w, q, c) = DirectPlan(GuessFallbackRole(w, q))
    BY <1>3 DEF ClaimPlan
  <2> DEFINE g == GuessFallbackRole(w, q)
  <2>2. GoodPlan(w, q, DirectPlan(g), max) /\ DirectPlan(g) # <<>> /\ Workers(DirectPlan(g)) = {g}
    <3> HIDE DEF g, max
    <3>1. g \in Named(w, q) /\ max \in Nat \ {0}
      BY <1>1 DEF g, max
    <3> QED BY <3>1, DirectPlanGood
  <2> QED BY <1>3, <2>1, <2>2
<1>4. CASE s # <<>>
  <2> DEFINE p == [i \in DOMAIN s |-> [role |-> s[i], node |-> BestNodeFor(w, q, s[i])]]
  <2>1. ClaimPlan(w, q, c) = p
    BY <1>4 DEF ClaimPlan
  <2> HIDE DEF s
  <2>2. /\ Len(s) \in Nat \ {0} /\ DOMAIN s = 1..Len(s)
        /\ \A i \in DOMAIN s : s[i] \in Ids /\ s[i] \in Named(w, q)
    BY <1>1, <1>2, <1>4
  <2>3. \A i \in DOMAIN s :
          /\ BestNodeFor(w, q, s[i]) \in MaybeId
          /\ \/ BestNodeFor(w, q, s[i]) = None
             \/ /\ w.workflow # None /\ BestNodeFor(w, q, s[i]) \in DOMAIN w.workflow.nodes
                /\ s[i] \in RoleIds(w.workflow.nodes[BestNodeFor(w, q, s[i])])
    BY BestNodeFits DEF MaybeId, Maybe
  <2>4. \A i \in DOMAIN p : /\ p[i] \in Assignment /\ p[i].role = s[i]
                            /\ p[i].node = BestNodeFor(w, q, s[i])
    BY <2>2, <2>3 DEF Assignment
  <2>5. p \in Seq(Assignment) /\ Len(p) = Len(s) /\ DOMAIN p = DOMAIN s
    BY <2>2, <2>4
  <2> HIDE DEF p
  <2>6. PlanFits(w, q, p)
    BY <2>2, <2>3, <2>4, <2>5 DEF PlanFits
  <2>7. GoodPlan(w, q, p, max)
    BY <1>2, <2>4, <2>5, <2>6 DEF GoodPlan
  <2>8. Workers(p) = Range(s)
    BY <2>4, <2>5 DEF Workers, Range
  <2>9. p # <<>>
    BY <2>2, <2>5
  <2> QED BY <1>4, <2>1, <2>7, <2>8, <2>9 DEF s, max
<1> QED BY <1>3, <1>4

LEMMA GroupPlanGood ==
  ASSUME NEW w, NEW q, GoodTurn(w, q), NEW c, GoodClaims(w, c)
  PROVE  /\ GoodPlan(w, q, GroupPlan(w, q, c), MaxAssignments(w, q))
         /\ GroupPlan(w, q, c) = <<>> => \A r \in DOMAIN c : c[r].decision = "decline"
<1>1. GoodPlan(w, q, <<>>, MaxAssignments(w, q))
  BY FallbackTyped DEF GoodPlan, PlanFits
<1> QED BY <1>1, ClaimPlanGood DEF GroupPlan

\* A stronger answer is one step up in rank at least, and brings a supporter a place among the
\* claimers when there was one left.
LEMMA StrongerKeeps ==
  ASSUME NEW w, NEW q, GoodTurn(w, q), NEW c, GoodClaims(w, c),
         NEW r \in Range(Chosen(w, q, c)), NEW claim \in ClaimResponse,
         claim.decision \in {"claim", c[r].decision},
         claim.confidence \in {c[r].confidence, 100}
  PROVE  r \in Range(Chosen(w, q, [c EXCEPT ![r] = claim]))
<1> DEFINE d == [c EXCEPT ![r] = claim]
           max == MaxAssignments(w, q)
           A == Owners(c)
           B == Helpers(c)
           P == Owners(d)
           Q == Helpers(d)
           RankC(S) == Rank(S, ByClaim(w, q, c, S), r)
           RankD(S) == Rank(S, ByClaim(w, q, d, S), r)
<1>1. max \in Nat \ {0}
  BY FallbackTyped
<1>2. DOMAIN d = DOMAIN c /\ \A x \in DOMAIN c : x # r => d[x] = c[x]
  OBVIOUS
<1>3. /\ Cardinality(A) \in Nat /\ Cardinality(B) \in Nat
      /\ Range(Chosen(w, q, c)) =
           {x \in A : Rank(A, ByClaim(w, q, c, A), x) < max}
             \cup {x \in B : w.claim.supporting /\ Rank(B, ByClaim(w, q, c, B), x)
                                                     < max - Least(max, Cardinality(A))}
  BY ChosenByRank
<1>4. r \in DOMAIN c /\ c[r] \in ClaimResponse
  BY <1>3 DEF Owners, Helpers, Responders, GoodClaims
<1>5. d[r] = claim /\ GoodClaims(w, d)
  BY <1>2, <1>4 DEF GoodClaims
<1> HIDE DEF d
<1>6. /\ Cardinality(P) \in Nat /\ Cardinality(Q) \in Nat
      /\ Range(Chosen(w, q, d)) =
           {x \in P : Rank(P, ByClaim(w, q, d, P), x) < max}
             \cup {x \in Q : w.claim.supporting /\ Rank(Q, ByClaim(w, q, d, Q), x)
                                                     < max - Least(max, Cardinality(P))}
  BY <1>5, ChosenByRank
<1>7. A \in SUBSET DOMAIN c /\ B \in SUBSET DOMAIN c /\ P \in SUBSET DOMAIN d /\ Q \in SUBSET DOMAIN d
  BY DEF Owners, Helpers, Responders
<1>8. IsFiniteSet(A) /\ IsFiniteSet(B) /\ IsFiniteSet(P) /\ IsFiniteSet(Q)
  BY <1>5, <1>7, ClaimOrder
\* The rank of r among the same members does not fall.
<1>9. ASSUME NEW S \in SUBSET DOMAIN c, r \in S
      PROVE  RankD(S) <= RankC(S) /\ RankD(S) \in Nat /\ RankC(S) \in Nat
  <2>1. StrictOrder(S, ByClaim(w, q, c, S)) /\ StrictOrder(S, ByClaim(w, q, d, S)) /\ IsFiniteSet(S)
    BY <1>2, <1>5, ClaimOrder
  <2>2. RankC(S) \in Nat /\ RankD(S) \in Nat
    BY <1>9, <2>1, RankTyped
  <2>3. /\ claim.confidence \in 0..100 /\ c[r].confidence \in 0..100
        /\ claim.confidence >= c[r].confidence
    BY <1>4 DEF ClaimResponse
  <2> DEFINE a == Affinity(w, q, r)
             bonus == IF a = 0 THEN 0 ELSE IF r = CoordinatorRole(w) THEN -3 ELSE 1
  <2>4. /\ ClaimScore(w, q, r, c[r]) = c[r].confidence + 10 * a + bonus
        /\ ClaimScore(w, q, r, d[r]) = claim.confidence + 10 * a + bonus
        /\ a \in Nat /\ bonus \in Int
    BY <1>5, AffinityTyped DEF ClaimScore
  <2> HIDE DEF a, bonus
  <2>5. ASSUME NEW x \in S, Outranks(w, q, d, x, r) PROVE Outranks(w, q, c, x, r)
    <3>1. CASE x = r
      <4>1. ~Outranks(w, q, d, x, r)
        <5>1. r \in Nat
          BY <1>4, FallbackTyped DEF GoodClaims, Ids
        <5> QED BY <1>5, <2>3, <2>4, <3>1, <5>1 DEF Outranks
      <4> QED BY <2>5, <4>1
    <3>2. CASE x # r
      <4>1. d[x] = c[x] /\ c[x].confidence \in Int /\ ClaimScore(w, q, x, c[x]) \in Int
        BY <1>2, <3>2, ClaimScoreTyped DEF GoodClaims, ClaimResponse
      <4> QED BY <1>5, <2>3, <2>4, <2>5, <4>1 DEF Outranks
    <3> QED BY <3>1, <3>2
  <2>6. Ahead(S, ByClaim(w, q, d, S), r) \in SUBSET Ahead(S, ByClaim(w, q, c, S), r)
    BY <1>9, <2>5 DEF Ahead, ByClaim
  <2>7. IsFiniteSet(Ahead(S, ByClaim(w, q, c, S), r))
    BY <2>1, FS_Subset DEF Ahead
  <2>8. RankD(S) <= RankC(S)
    BY <2>6, <2>7, FS_Subset DEF Rank
  <2> QED BY <2>2, <2>8
<1>10. CASE r \in A
  <2>1. P = A
    BY <1>2, <1>4, <1>5, <1>10 DEF Owners, Responders
  <2>2. r \notin B
    BY <1>10 DEF Owners, Helpers, Responders
  <2>3. RankC(A) < max
    BY <1>3, <1>10, <2>2
  <2>4. RankD(P) < max
    BY <1>1, <1>7, <1>9, <1>10, <2>1, <2>3
  <2> QED BY <1>6, <1>10, <2>1, <2>4 DEF d
<1>11. CASE r \in B
  <2>1. r \notin A
    BY <1>11 DEF Owners, Helpers, Responders
  <2>2. w.claim.supporting /\ RankC(B) < max - Least(max, Cardinality(A))
    BY <1>3, <1>11, <2>1
  <2>3. Cardinality(A) < max
    <3>1. RankC(B) \in Nat
      BY <1>7, <1>9, <1>11
    <3> QED BY <1>1, <1>3, <2>2, <3>1 DEF Least
  <2>4. CASE claim.decision = "claim"
    <3>1. P = A \cup {r}
      BY <1>2, <1>4, <1>5, <2>4 DEF Owners, Responders
    <3>2. Cardinality(P) = Cardinality(A) + 1
      BY <1>8, <2>1, <3>1, FS_AddElement
    <3>3. StrictOrder(P, ByClaim(w, q, d, P))
      BY <1>5, <1>7, ClaimOrder
    <3>4. RankD(P) \in 0..(Cardinality(P) - 1)
      BY <1>8, <3>1, <3>3, RankTyped
    <3>5. RankD(P) < max
      BY <1>1, <1>3, <2>3, <3>2, <3>4
    <3> QED BY <1>6, <3>1, <3>5 DEF d
  <2>5. CASE claim.decision # "claim"
    <3>1. claim.decision = "support"
      BY <1>11, <2>5 DEF Helpers, Responders
    <3>2. P = A
      BY <1>2, <1>4, <1>5, <1>11, <2>1, <2>5 DEF Owners, Responders
    <3>3. Q = B
      BY <1>2, <1>4, <1>5, <1>11, <3>1 DEF Helpers, Responders
    <3>4. RankD(Q) <= RankC(B) /\ RankD(Q) \in Nat /\ RankC(B) \in Nat
      BY <1>7, <1>9, <1>11, <3>3
    <3>5. Least(max, Cardinality(A)) \in Nat
      BY <1>1, <1>3 DEF Least
    <3>6. RankD(Q) < max - Least(max, Cardinality(P))
      BY <1>1, <2>2, <3>2, <3>4, <3>5
    <3> QED BY <1>6, <1>11, <2>2, <3>3, <3>6 DEF d
  <2> QED BY <2>4, <2>5
<1>12. r \in A \/ r \in B
  BY <1>3
<1> QED BY <1>10, <1>11, <1>12

\* Who declines is taken only as the fallback, and who supports only beside all who claim.
LEMMA DeclinersRest ==
  ASSUME NEW w, NEW q, GoodTurn(w, q), NEW c, GoodClaims(w, c)
  PROVE  LET workers == Workers(GroupPlan(w, q, c))
         IN  /\ workers \cap Responders(c, "decline") # {} =>
                  Owners(c) = {} /\ ~w.claim.supporting /\ Cardinality(workers) = 1
             /\ Owners(c) \subseteq workers \/ workers \subseteq Owners(c)
<1> DEFINE workers == Workers(GroupPlan(w, q, c))
           max == MaxAssignments(w, q)
           A == Owners(c)
           B == Helpers(c)
           left == max - Least(max, Cardinality(A))
           s == Chosen(w, q, c)
           RankIn(S, r) == Rank(S, ByClaim(w, q, c, S), r)
<1>1. max \in Nat \ {0}
  BY FallbackTyped
<1>2. A \in SUBSET DOMAIN c /\ B \in SUBSET DOMAIN c
  BY DEF Owners, Helpers, Responders
<1>3. /\ Cardinality(A) \in Nat /\ Cardinality(B) \in Nat /\ s \in Seq(DOMAIN c)
      /\ Range(s) = {r \in A : RankIn(A, r) < max}
                      \cup {r \in B : w.claim.supporting /\ RankIn(B, r) < left}
  BY ChosenByRank
<1>4. ASSUME NEW S, S = A \/ S = B
      PROVE  /\ \A r \in S : RankIn(S, r) \in 0..(Cardinality(S) - 1)
             /\ S # {} => \E r \in S : RankIn(S, r) = 0
  <2>1. IsFiniteSet(S) /\ StrictOrder(S, ByClaim(w, q, c, S)) /\ Cardinality(S) \in Nat
    BY <1>2, <1>3, <1>4, ClaimOrder
  <2>2. S # {} => 0 \in 0..(Cardinality(S) - 1)
    BY <2>1, FS_EmptySet
  <2> QED BY <2>1, <2>2, RankTyped, RankOnto
<1>5. CASE \A r \in DOMAIN c : c[r].decision = "decline"
  <2>1. GroupPlan(w, q, c) = <<>> /\ A = {}
    BY <1>5 DEF GroupPlan, Owners, Responders
  <2>2. workers = {}
    BY <2>1 DEF Workers
  <2> QED BY <2>1, <2>2
<1>6. CASE \E r \in DOMAIN c : c[r].decision # "decline"
  <2>1. GroupPlan(w, q, c) = ClaimPlan(w, q, c)
    BY <1>6 DEF GroupPlan
  <2>2. IF s = <<>> THEN \E r : workers = {r} ELSE workers = Range(s)
    BY <2>1, ClaimPlanGood
  <2>3. CASE s = <<>>
    <3>1. Range(s) = {}
      BY <2>3 DEF Range
    <3>2. A = {}
      <4> SUFFICES ASSUME A # {} PROVE FALSE
        OBVIOUS
      <4>1. PICK r \in A : RankIn(A, r) = 0
        BY <1>4
      <4>2. RankIn(A, r) < max
        BY <1>1, <4>1
      <4> QED BY <1>3, <3>1, <4>2
    <3>3. left = max
      <4>1. Cardinality(A) = 0
        BY <3>2, FS_EmptySet
      <4> HIDE DEF A, max
      <4> QED BY <1>1, <4>1 DEF Least
    <3>4. ~w.claim.supporting
      <4> SUFFICES ASSUME w.claim.supporting PROVE FALSE
        OBVIOUS
      <4>1. B # {}
        BY <1>6, <3>2 DEF GoodClaims, ClaimResponse, ClaimDecision, Owners, Helpers, Responders
      <4>2. PICK r \in B : RankIn(B, r) = 0
        BY <1>4, <4>1
      <4>3. RankIn(B, r) < left
        BY <1>1, <3>3, <4>2
      <4> QED BY <1>3, <3>1, <4>3
    <3>5. Cardinality(workers) = 1
      BY <2>2, <2>3, FS_Singleton
    <3> QED BY <3>2, <3>4, <3>5
  <2>4. CASE s # <<>>
    <3>1. workers = Range(s)
      BY <2>2, <2>4
    <3>2. workers \cap Responders(c, "decline") = {}
      BY <1>3, <3>1 DEF Owners, Helpers, Responders
    <3>3. CASE Cardinality(A) <= max
      <4>1. \A r \in A : RankIn(A, r) < max
        <5> SUFFICES ASSUME NEW r \in A PROVE RankIn(A, r) < max
          OBVIOUS
        <5>1. RankIn(A, r) \in 0..(Cardinality(A) - 1)
          BY <1>4
        <5> QED BY <1>1, <1>3, <3>3, <5>1
      <4>2. A \subseteq workers
        BY <1>3, <3>1, <4>1
      <4> QED BY <3>2, <4>2
    <3>4. CASE Cardinality(A) > max
      <4>1. left = 0
        <5> HIDE DEF A, max
        <5> QED BY <1>1, <1>3, <3>4 DEF Least
      <4>2. \A r \in B : ~(RankIn(B, r) < left)
        <5> SUFFICES ASSUME NEW r \in B PROVE ~(RankIn(B, r) < 0)
          BY <4>1
        <5>1. RankIn(B, r) \in 0..(Cardinality(B) - 1)
          BY <1>4
        <5> QED BY <5>1
      <4>3. workers \subseteq A
        BY <1>3, <3>1, <4>2
      <4> QED BY <3>2, <4>3
    <3> QED BY <1>1, <1>3, <3>3, <3>4
  <2> QED BY <2>3, <2>4
<1> QED BY <1>5, <1>6

LEMMA PairFinite ==
  ASSUME NEW x, NEW y
  PROVE  IsFiniteSet({x, y})
<1>1. IsFiniteSet({x}) /\ IsFiniteSet({y})
  BY FS_Singleton
<1>2. IsFiniteSet({x} \cup {y})
  BY <1>1, FS_Union
<1>3. {x, y} = {x} \cup {y}
  OBVIOUS
<1> QED BY <1>2, <1>3

\* What the parser makes of an answer
LEMMA ParsedClaimTyped ==
  ASSUME NEW w, NEW q, NEW r, NEW answer, answer.confidence \in Int \cup {None}
  PROVE  ParsedClaim(w, q, r, answer) \in ClaimResponse
<1> DEFINE d == NormalizedClaim(w, q, r, answer.decision)
           x == NormalizedConfidence(answer.confidence, d)
<1>1. d \in ClaimDecision
  BY DEF NormalizedClaim, ClaimDecision
<1>2. x \in 0..100
  <2>1. CASE answer.confidence = None
    BY <2>1 DEF NormalizedConfidence
  <2>2. CASE answer.confidence # None
    <3> DEFINE a == answer.confidence
               least == Min({a, 100})
    <3>1. a \in Int
      BY <2>2
    <3>2. IsFiniteSet({a, 100}) /\ {a, 100} \in SUBSET Int /\ {a, 100} # {}
      <4> HIDE DEF a
      <4>1. IsFiniteSet({a, 100})
        BY PairFinite
      <4>2. {a, 100} \in SUBSET Int /\ {a, 100} # {}
        BY <3>1
      <4> QED BY <4>1, <4>2
    <3>3. least \in {a, 100} /\ least <= 100
      BY <3>2, ExtremesExist
    <3> HIDE DEF least
    <3>4. IsFiniteSet({0, least}) /\ {0, least} \in SUBSET Int /\ {0, least} # {}
      <4>1. IsFiniteSet({0, least})
        BY PairFinite
      <4>2. {0, least} \in SUBSET Int /\ {0, least} # {}
        BY <3>1, <3>3
      <4> QED BY <4>1, <4>2
    <3>5. Max({0, least}) \in {0, least} /\ 0 <= Max({0, least})
      BY <3>4, ExtremesExist
    <3>6. Max({0, least}) \in 0..100
      BY <3>1, <3>3, <3>5
    <3>7. x = Max({0, least})
      BY <2>2 DEF NormalizedConfidence, least
    <3> QED BY <3>6, <3>7
  <2> QED BY <2>1, <2>2
<1> HIDE DEF x, d
<1>3. ParsedClaim(w, q, r, answer) = [decision |-> d, confidence |-> x]
  BY DEF ParsedClaim, d, x
<1> QED BY <1>1, <1>2, <1>3 DEF ClaimResponse

----------------------------------------------------------------------------
(* The coordinator and the vote *)

LEMMA DecisionTyped ==
  ASSUME NEW w, NEW q, GoodTurn(w, q), NEW answer
  PROVE  LET d == CoordinatorDecision(w, q, answer)
         IN  /\ d.kind \in DecisionKind /\ d.target \in MaybeId
             /\ d.kind = "delegate" => d.target \in Named(w, q)
<1>1. KnownRoles(w) \in SUBSET Ids /\ KnownRoles(w) \in SUBSET Named(w, q)
  BY FallbackTyped DEF Named
<1> QED BY <1>1 DEF CoordinatorDecision, ParsedDecision, Decision, DecisionKind, MaybeId, Maybe

LEMMA LoneDecisionTyped ==
  ASSUME NEW w, NEW q, GoodTurn(w, q)
  PROVE  LET d == DecideCoordinator(w, q)
         IN  /\ d.kind \in DecisionKind /\ d.target \in MaybeId
             /\ IF ShouldPropose(w, q) THEN d.kind = "propose_workflow"
                ELSE d.kind = "delegate" /\ d.target \in Named(w, q)
<1> DEFINE p == HeuristicPlan(w, q, 1)
<1>1. p \in Seq(Assignment) /\ p # <<>> /\ PlanFits(w, q, p)
  BY HeuristicPlanGood DEF GoodPlan
<1>2. p[1].role \in Named(w, q)
  <2> HIDE DEF p
  <2>1. p[1] \in Assignment /\ 1 \in DOMAIN p
    BY <1>1
  <2> QED BY <1>1, <2>1 DEF Assignment, PlanFits, Named
<1>3. OrElse(q.prefer, p[1].role) \in Named(w, q) /\ Named(w, q) \in SUBSET Ids
  BY <1>2, NamedTyped DEF Named, OrElse
<1> QED BY <1>3 DEF DecideCoordinator, Decision, DecisionKind, MaybeId, Maybe

LEMMA VoteCandidatesTyped ==
  ASSUME NEW w, NEW q, GoodTurn(w, q)
  PROVE  VoteCandidates(w) \in Seq(Ids)
<1> DEFINE named == IF w.vote.candidates = None THEN <<>> ELSE w.vote.candidates
           valid == {i \in DOMAIN named : named[i] \in KnownRoles(w)}
           R == {p \in valid \X valid : p[1] < p[2]}
           kept == InOrder(valid, R)
<1>1. named \in Seq(Ids) /\ w.roles \in Seq(Ids)
  BY DEF GoodTurn, IsSpec
<1> HIDE DEF named
<1>2. Len(named) \in Nat /\ DOMAIN named = 1..Len(named)
  BY <1>1
<1>3. IsFiniteSet(valid) /\ valid \in SUBSET Int
  <2>1. IsFiniteSet(1..Len(named)) /\ (1..Len(named)) \in SUBSET Int
    BY <1>2, FS_Interval
  <2>2. valid \in SUBSET (1..Len(named))
    BY <1>2
  <2> HIDE DEF valid
  <2> QED BY <2>1, <2>2, FS_Subset
<1>4. StrictOrder(valid, R)
  <2> HIDE DEF valid
  <2> QED BY <1>3 DEF StrictOrder
<1> HIDE DEF R
<1>5. kept \in Seq(valid)
  BY <1>3, <1>4, InOrderRanks
<1> HIDE DEF kept
<1>6. [k \in DOMAIN kept |-> named[kept[k]]] \in Seq(Ids)
  BY <1>1, <1>5
<1> QED BY <1>1, <1>6 DEF VoteCandidates, named, valid, kept, R

LEMMA VoteTyped ==
  ASSUME NEW w, NEW q, NEW kind, NEW r, NEW vote
  PROVE  NormalizedVote(w, q, kind, r, vote) \in VoteDecision
BY DEF NormalizedVote, VoteDecision

Backers(w) ==
  {i \in DOMAIN VoteCandidates(w) :
     \/ Participates(w, VoteCandidates(w)[i])
     \/ VoteCandidates(w)[i] = OrElse(w.coordinator, w.default)}

\* In a synthesized vote on a proposal the backers approve and nobody rejects, so that only the
\* minimum can be missed.
LEMMA LoneVote ==
  ASSUME NEW w, NEW q, GoodTurn(w, q), ShouldPropose(w, q),
         ~Approves(w, SynthesizedVotes(w, q, "propose_workflow"))
  PROVE  Cardinality(Backers(w)) < AtLeastOne(OrElse(w.vote.minimum, 1))
<1> DEFINE votes1 == SynthesizedVotes(w, q, "propose_workflow")
           n == Cardinality(Backers(w))
           least == AtLeastOne(OrElse(w.vote.minimum, 1))
           ratio == AtLeastOne(OrElse(w.vote.ratio, 1))
<1>1. \A r : NormalizedVote(w, q, "propose_workflow", r, "abstain") =
               IF r = OrElse(w.coordinator, w.default) \/ Participates(w, r)
               THEN "approve" ELSE "abstain"
  BY DEF NormalizedVote, Participates, WorkflowCandidates
<1>2. VotesFor(votes1, "approve") = Backers(w) /\ VotesFor(votes1, "reject") = {}
  BY <1>1 DEF VotesFor, SynthesizedVotes, Backers
<1>3. n \in Nat
  <2>1. VoteCandidates(w) \in Seq(Ids)
    BY VoteCandidatesTyped
  <2>2. IsFiniteSet(DOMAIN VoteCandidates(w))
    BY <2>1, FS_Interval
  <2>3. Backers(w) \in SUBSET DOMAIN VoteCandidates(w)
    BY DEF Backers
  <2> QED BY <2>2, <2>3, FS_Subset, FS_CardinalityType
<1>4. least \in Nat /\ ratio \in Nat \ {0}
  BY DEF GoodTurn, IsRequest, IsSpec, OrElse, AtLeastOne, MaybeId, Maybe, Ids
<1>5. Cardinality(VotesFor(votes1, "reject")) = 0
  BY <1>2, FS_EmptySet
<1>6. ~(n >= least /\ n * ratio >= n + 0)
  BY <1>2, <1>5 DEF Approves
<1> HIDE DEF n, least, ratio
<1>7. n * ratio >= n + 0
  <2>1. PICK k \in Nat : ratio = k + 1
    <3>1. ratio - 1 \in Nat /\ ratio = (ratio - 1) + 1
      BY <1>4
    <3> QED BY <3>1
  <2>2. n * k \in Nat /\ n * ratio = n * k + n
    BY <1>3, <2>1
  <2> QED BY <1>3, <2>2
<1>8. n < least
  BY <1>3, <1>4, <1>6, <1>7
<1> QED BY <1>8 DEF n, least

LEMMA EmptyPlanGood ==
  ASSUME NEW w, NEW q, GoodTurn(w, q)
  PROVE  GoodPlan(w, q, <<>>, MaxAssignments(w, q))
BY FallbackTyped DEF GoodPlan, PlanFits

\* Nobody declined for want of anybody: when all decline, all are some.
LEMMA AllDecline ==
  ASSUME NEW w, NEW q, GoodTurn(w, q), NEW c, GoodClaims(w, c), DOMAIN c = KnownRoles(w),
         GroupPlan(w, q, c) = <<>>
  PROVE  c # <<>> /\ \A r \in KnownRoles(w) : c[r].decision = "decline"
<1>1. \A r \in DOMAIN c : c[r].decision = "decline"
  BY GroupPlanGood
<1>2. DOMAIN c # {}
  BY FallbackTyped
<1>3. c # <<>>
  BY <1>2
<1> QED BY <1>1, <1>3
=============================================================================
