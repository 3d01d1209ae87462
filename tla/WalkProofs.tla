------------------------------ MODULE WalkProofs ------------------------------
(***************************************************************************)
(* Facts about Walks for any finite graph, on which the proofs about the   *)
(* search and about the plan handler rest: what a sum is and how it grows, *)
(* that the enumerated walks are connected and repeat no edge, and what an *)
(* answer of a search says of its walk.                                    *)
(***************************************************************************)
EXTENDS Walks, FiniteSetTheorems, SequenceTheorems, WellFoundedInduction, TLAPS

-----------------------------------------------------------------------------
(* Induction over the naturals, for a set.                                 *)

LEMMA LeastNumber ==
  ASSUME NEW T \in SUBSET Nat, T # {}
  PROVE  \E n \in T : \A m \in T : n <= m
<1>1. IsWellFoundedOn(OpToRel(<, Nat), Nat)
  BY NatLessThanWellFounded
<1>2. PICK n \in T : \A m \in Nat : <<m, n>> \in OpToRel(<, Nat) => m \notin T
  BY <1>1, WFMin
<1>3. \A m \in T : ~(m < n)
  BY <1>2 DEF OpToRel
<1> QED  BY <1>3

LEMMA Induct ==
  ASSUME NEW T \in SUBSET Nat, 0 \in T, \A n \in T : n + 1 \in T
  PROVE  T = Nat
<1> SUFFICES ASSUME T # Nat PROVE FALSE
  OBVIOUS
<1>1. PICK n \in Nat \ T : \A m \in Nat \ T : n <= m
  BY LeastNumber
<1>2. n # 0 /\ n - 1 \in Nat
  BY <1>1
<1>3. n - 1 \in T
  BY <1>1, <1>2
<1> QED  BY <1>1, <1>3

-----------------------------------------------------------------------------
(* Sums.                                                                   *)

LEMMA SumExists ==
  ASSUME NEW s, NEW n \in Nat
  PROVE  \E g : g = [i \in 0 .. n |-> IF i = 0 THEN 0 ELSE g[i - 1] + s[i]]
<1> DEFINE T == {k \in Nat : \E g : g = [i \in 0 .. k |-> IF i = 0 THEN 0 ELSE g[i - 1] + s[i]]}
<1>1. 0 \in T
  <2>1. [i \in 0 .. 0 |-> 0]
          = [i \in 0 .. 0 |-> IF i = 0 THEN 0 ELSE [j \in 0 .. 0 |-> 0][i - 1] + s[i]]
    OBVIOUS
  <2> QED  BY <2>1
<1>2. ASSUME NEW k \in T PROVE k + 1 \in T
  <2>1. PICK g : g = [i \in 0 .. k |-> IF i = 0 THEN 0 ELSE g[i - 1] + s[i]]
    BY <1>2
  <2> DEFINE h == [i \in 0 .. k + 1 |-> IF i <= k THEN g[i] ELSE g[k] + s[k + 1]]
  <2>2. ASSUME NEW i \in 0 .. k + 1
        PROVE  h[i] = IF i = 0 THEN 0 ELSE h[i - 1] + s[i]
    <3>1. CASE i = 0  BY <2>1, <3>1
    <3>2. CASE i \in 1 .. k  BY <2>1, <3>2
    <3>3. CASE i = k + 1  BY <3>3
    <3> QED  BY <3>1, <3>2, <3>3
  <2>3. h = [i \in 0 .. k + 1 |-> IF i = 0 THEN 0 ELSE h[i - 1] + s[i]]
    BY <2>2
  <2> HIDE DEF h
  <2> QED  BY <2>3
<1> HIDE DEF T
<1>3. T = Nat  BY <1>1, <1>2, Induct DEF T
<1> QED  BY <1>3 DEF T

LEMMA SumUnfolds ==
  ASSUME NEW s, Len(s) \in Nat
  PROVE  \E g : /\ DOMAIN g = 0 .. Len(s) /\ g[0] = 0
                /\ \A i \in 1 .. Len(s) : g[i] = g[i - 1] + s[i]
                /\ SumUp(s) = g[Len(s)]
<1> DEFINE g == CHOOSE h : h = [i \in 0 .. Len(s) |-> IF i = 0 THEN 0 ELSE h[i - 1] + s[i]]
<1>1. g = [i \in 0 .. Len(s) |-> IF i = 0 THEN 0 ELSE g[i - 1] + s[i]]
  BY SumExists
<1>2. SumUp(s) = g[Len(s)]
  BY DEF SumUp
<1> HIDE DEF g
<1> QED  BY <1>1, <1>2

\* Two sums that begin alike agree as far as they do.
LEMMA SumEmpty ==
  ASSUME NEW s, Len(s) = 0
  PROVE  SumUp(s) = 0
BY SumUnfolds

LEMMA SumAppend ==
  ASSUME NEW s, NEW t, Len(s) \in Nat, Len(t) = Len(s) + 1,
         \A i \in 1 .. Len(s) : t[i] = s[i]
  PROVE  SumUp(t) = SumUp(s) + t[Len(t)]
<1>1. PICK g : /\ g[0] = 0 /\ \A i \in 1 .. Len(s) : g[i] = g[i - 1] + s[i]
               /\ SumUp(s) = g[Len(s)]
  BY SumUnfolds
<1>2. PICK h : /\ h[0] = 0 /\ \A i \in 1 .. Len(t) : h[i] = h[i - 1] + t[i]
               /\ SumUp(t) = h[Len(t)]
  <2>1. Len(t) \in Nat  OBVIOUS
  <2> QED  BY <2>1, SumUnfolds
<1> DEFINE T == {i \in Nat : i <= Len(s) => h[i] = g[i]}
<1>3. 0 \in T  BY <1>1, <1>2
<1>4. ASSUME NEW i \in T PROVE i + 1 \in T
  <2> SUFFICES ASSUME i + 1 <= Len(s) PROVE h[i + 1] = g[i + 1]
    OBVIOUS
  <2>1. i + 1 \in 1 .. Len(s) /\ i + 1 \in 1 .. Len(t) /\ (i + 1) - 1 = i
    OBVIOUS
  <2>2. h[i] = g[i]  BY <2>1
  <2>3. h[i + 1] = h[(i + 1) - 1] + t[i + 1]  BY <1>2, <2>1
  <2>4. g[i + 1] = g[(i + 1) - 1] + s[i + 1]  BY <1>1, <2>1
  <2> QED  BY <2>1, <2>2, <2>3, <2>4
<1> HIDE DEF T
<1>5. T = Nat  BY <1>3, <1>4, Induct DEF T
<1>6. h[Len(s)] = g[Len(s)]  BY <1>5 DEF T
<1>7. Len(t) \in 1 .. Len(t) /\ Len(t) - 1 = Len(s)  OBVIOUS
<1>8. h[Len(t)] = h[Len(t) - 1] + t[Len(t)]  BY <1>2, <1>7
<1> QED  BY <1>1, <1>2, <1>6, <1>7, <1>8

LEMMA SumOne == ASSUME NEW s, Len(s) = 1, s[1] \in Int PROVE SumUp(s) = s[1]
<1>1. SumUp(<<>>) = 0 /\ Len(<<>>) = 0
  BY SumEmpty
<1>2. SumUp(s) = SumUp(<<>>) + s[1]
  <2>1. Len(<<>>) \in Nat /\ Len(s) = Len(<<>>) + 1 /\ \A i \in 1 .. Len(<<>>) : s[i] = <<>>[i]
    BY <1>1
  <2>2. SumUp(s) = SumUp(<<>>) + s[Len(s)]
    BY <2>1, SumAppend
  <2> QED  BY <2>2
<1> QED  BY <1>1, <1>2

\* What holds of the empty sum and of each next term holds of the sum.
LEMMA SumNat ==
  ASSUME NEW s, Len(s) \in Nat, \A i \in 1 .. Len(s) : s[i] \in Nat
  PROVE  SumUp(s) \in Nat
<1>1. PICK g : /\ g[0] = 0 /\ \A i \in 1 .. Len(s) : g[i] = g[i - 1] + s[i]
               /\ SumUp(s) = g[Len(s)]
  BY SumUnfolds
<1> DEFINE T == {i \in Nat : i <= Len(s) => g[i] \in Nat}
<1>2. 0 \in T  BY <1>1
<1>3. ASSUME NEW i \in T PROVE i + 1 \in T
  <2> SUFFICES ASSUME i + 1 <= Len(s) PROVE g[i + 1] \in Nat
    OBVIOUS
  <2>1. i + 1 \in 1 .. Len(s) /\ (i + 1) - 1 = i  OBVIOUS
  <2>2. g[i + 1] = g[(i + 1) - 1] + s[i + 1]  BY <1>1, <2>1
  <2> QED  BY <2>1, <2>2
<1> HIDE DEF T
<1>4. T = Nat  BY <1>2, <1>3, Induct DEF T
<1> QED  BY <1>1, <1>4 DEF T

LEMMA SumMonotone ==
  ASSUME NEW s, NEW t, Len(s) \in Nat, Len(t) = Len(s),
         \A i \in 1 .. Len(s) : s[i] \in Nat /\ t[i] \in Nat /\ s[i] <= t[i]
  PROVE  SumUp(s) <= SumUp(t)
<1>1. PICK g : /\ g[0] = 0 /\ \A i \in 1 .. Len(s) : g[i] = g[i - 1] + s[i]
               /\ SumUp(s) = g[Len(s)]
  BY SumUnfolds
<1>2. PICK h : /\ h[0] = 0 /\ \A i \in 1 .. Len(t) : h[i] = h[i - 1] + t[i]
               /\ SumUp(t) = h[Len(t)]
  <2>1. Len(t) \in Nat  OBVIOUS
  <2> QED  BY <2>1, SumUnfolds
<1> DEFINE T == {i \in Nat : i <= Len(s) => g[i] \in Nat /\ h[i] \in Nat /\ g[i] <= h[i]}
<1>3. 0 \in T  BY <1>1, <1>2
<1>4. ASSUME NEW i \in T PROVE i + 1 \in T
  <2> SUFFICES ASSUME i + 1 <= Len(s)
               PROVE  g[i + 1] \in Nat /\ h[i + 1] \in Nat /\ g[i + 1] <= h[i + 1]
    OBVIOUS
  <2>1. i + 1 \in 1 .. Len(s) /\ (i + 1) - 1 = i  OBVIOUS
  <2>2. g[i + 1] = g[(i + 1) - 1] + s[i + 1]  BY <1>1, <2>1
  <2>3. h[i + 1] = h[(i + 1) - 1] + t[i + 1]  BY <1>2, <2>1
  <2> QED  BY <2>1, <2>2, <2>3
<1> HIDE DEF T
<1>5. T = Nat  BY <1>3, <1>4, Induct DEF T
<1> QED  BY <1>1, <1>2, <1>5 DEF T

LEMMA SumPlus ==
  ASSUME NEW s, NEW t, NEW u, Len(s) \in Nat, Len(t) = Len(s), Len(u) = Len(s),
         \A i \in 1 .. Len(s) : s[i] \in Nat /\ t[i] \in Nat /\ u[i] = s[i] + t[i]
  PROVE  SumUp(u) = SumUp(s) + SumUp(t)
<1>1. PICK g : /\ g[0] = 0 /\ \A i \in 1 .. Len(s) : g[i] = g[i - 1] + s[i]
               /\ SumUp(s) = g[Len(s)]
  BY SumUnfolds
<1>2. PICK h : /\ h[0] = 0 /\ \A i \in 1 .. Len(t) : h[i] = h[i - 1] + t[i]
               /\ SumUp(t) = h[Len(t)]
  <2>1. Len(t) \in Nat  OBVIOUS
  <2> QED  BY <2>1, SumUnfolds
<1>3. PICK k : /\ k[0] = 0 /\ \A i \in 1 .. Len(u) : k[i] = k[i - 1] + u[i]
               /\ SumUp(u) = k[Len(u)]
  <2>1. Len(u) \in Nat  OBVIOUS
  <2> QED  BY <2>1, SumUnfolds
<1> DEFINE T == {i \in Nat : i <= Len(s) =>
                   g[i] \in Nat /\ h[i] \in Nat /\ k[i] = g[i] + h[i]}
<1>4. 0 \in T  BY <1>1, <1>2, <1>3
<1>5. ASSUME NEW i \in T PROVE i + 1 \in T
  <2> SUFFICES ASSUME i + 1 <= Len(s)
               PROVE  g[i + 1] \in Nat /\ h[i + 1] \in Nat /\ k[i + 1] = g[i + 1] + h[i + 1]
    OBVIOUS
  <2>1. i + 1 \in 1 .. Len(s) /\ (i + 1) - 1 = i  OBVIOUS
  <2>2. g[i + 1] = g[(i + 1) - 1] + s[i + 1]  BY <1>1, <2>1
  <2>3. h[i + 1] = h[(i + 1) - 1] + t[i + 1]  BY <1>2, <2>1
  <2>4. k[i + 1] = k[(i + 1) - 1] + u[i + 1]  BY <1>3, <2>1
  <2>5. g[i] \in Nat /\ h[i] \in Nat /\ k[i] = g[i] + h[i]  BY <2>1
  <2>6. s[i + 1] \in Nat /\ t[i + 1] \in Nat /\ u[i + 1] = s[i + 1] + t[i + 1]  BY <2>1
  <2> QED  BY <2>1, <2>2, <2>3, <2>4, <2>5, <2>6
<1> HIDE DEF T
<1>6. T = Nat  BY <1>4, <1>5, Induct DEF T
<1> QED  BY <1>1, <1>2, <1>3, <1>6 DEF T

LEMMA SumZero ==
  ASSUME NEW s, Len(s) \in Nat, \A i \in 1 .. Len(s) : s[i] = 0
  PROVE  SumUp(s) = 0
<1>1. SumUp(s) \in Nat  BY SumNat
<1>2. SumUp(s) = SumUp(s) + SumUp(s)  BY SumPlus
<1> QED  BY <1>1, <1>2

-----------------------------------------------------------------------------
(* The walks that Walks enumerates.                                        *)

EdgeCount == Cardinality(Edges)

LEMMA WalksUnfold ==
  \A n \in 1 .. EdgeCount :
    WalksOfLength[n] = IF n = 1 THEN {<<e>> : e \in Edges} ELSE Longer(WalksOfLength[n - 1])
<1> DEFINE T == {k \in Nat : \E g : g =
                   [n \in 1 .. k |-> IF n = 1 THEN {<<e>> : e \in Edges} ELSE Longer(g[n - 1])]}
<1>1. 0 \in T
  <2> DEFINE h == [n \in 1 .. 0 |-> 0]
  <2>1. h = [n \in 1 .. 0 |-> IF n = 1 THEN {<<e>> : e \in Edges} ELSE Longer(h[n - 1])]
    OBVIOUS
  <2> HIDE DEF h
  <2> QED  BY <2>1
<1>2. ASSUME NEW k \in T PROVE k + 1 \in T
  <2>1. PICK g : g = [n \in 1 .. k |-> IF n = 1 THEN {<<e>> : e \in Edges}
                                       ELSE Longer(g[n - 1])]
    BY <1>2
  <2> DEFINE h == [n \in 1 .. k + 1 |-> IF n <= k THEN g[n]
                                        ELSE IF n = 1 THEN {<<e>> : e \in Edges}
                                        ELSE Longer(g[n - 1])]
  <2>2. ASSUME NEW n \in 1 .. k + 1
        PROVE  h[n] = IF n = 1 THEN {<<e>> : e \in Edges} ELSE Longer(h[n - 1])
    <3>1. CASE n = 1  BY <2>1, <3>1
    <3>2. CASE n # 1
      <4>1. n - 1 \in 1 .. k /\ n - 1 \in 1 .. k + 1  BY <3>2
      <4>2. h[n - 1] = g[n - 1]  BY <4>1
      <4>3. CASE n <= k
        <5>1. n \in 1 .. k  BY <4>3
        <5>2. g[n] = Longer(g[n - 1])  BY <2>1, <3>2, <5>1
        <5> QED  BY <3>2, <4>2, <4>3, <5>2
      <4>4. CASE ~(n <= k)  BY <3>2, <4>2, <4>4
      <4> QED  BY <4>3, <4>4
    <3> QED  BY <3>1, <3>2
  <2>3. h = [n \in 1 .. k + 1 |-> h[n]]  OBVIOUS
  <2>4. h = [n \in 1 .. k + 1 |-> IF n = 1 THEN {<<e>> : e \in Edges} ELSE Longer(h[n - 1])]
    BY <2>2, <2>3
  <2> HIDE DEF h
  <2> QED  BY <2>4
<1> HIDE DEF T
<1>3. T = Nat  BY <1>1, <1>2, Induct DEF T
<1>4. EdgeCount \in Nat
  BY FiniteAssumption, FS_CardinalityType DEF EdgeCount
<1>5. \E g : g = [n \in 1 .. EdgeCount |-> IF n = 1 THEN {<<e>> : e \in Edges}
                                           ELSE Longer(g[n - 1])]
  BY <1>3, <1>4 DEF T
<1>6. WalksOfLength = [n \in 1 .. EdgeCount |-> IF n = 1 THEN {<<e>> : e \in Edges}
                                                ELSE Longer(WalksOfLength[n - 1])]
  BY <1>5 DEF WalksOfLength, EdgeCount
<1> QED  BY <1>6

\* A walk of n edges that repeats none.
SimpleWalk(w, n) ==
  /\ w \in [1 .. n -> Edges]
  /\ \A i \in 1 .. n - 1 : To[w[i]] = From[w[i + 1]]
  /\ \A i, j \in 1 .. n : w[i] = w[j] => i = j

LEMMA LongerWalks ==
  ASSUME NEW n \in Nat \ {0}, NEW walks, \A w \in walks : SimpleWalk(w, n)
  PROVE  \A v \in Longer(walks) : SimpleWalk(v, n + 1)
<1> SUFFICES ASSUME NEW v \in Longer(walks)
             PROVE  SimpleWalk(v, n + 1)
  OBVIOUS
<1>a. PICK w \in walks : v \in {Append(w, e) : e \in OutEdges(To[Last(w)]) \ Range(w)}
  BY DEF Longer
<1>b. PICK e \in OutEdges(To[Last(w)]) \ Range(w) : v = Append(w, e)
  BY <1>a
<1>1. w \in [1 .. n -> Edges] /\ w \in Seq(Edges) /\ Len(w) = n /\ e \in Edges
  BY DEF SimpleWalk, OutEdges
<1>2. /\ v \in [1 .. n + 1 -> Edges]
      /\ \A i \in 1 .. n : v[i] = w[i]
      /\ v[n + 1] = e
  <2>1. /\ v \in Seq(Edges) /\ Len(v) = n + 1
        /\ \A i \in 1 .. n : v[i] = w[i]
        /\ v[n + 1] = e
    BY <1>1, <1>b, AppendProperties
  <2> QED  BY <2>1
<1>3. From[e] = To[w[n]]
  BY <1>1 DEF OutEdges, Last
<1>4. \A i \in 1 .. n : w[i] # e
  BY <1>1 DEF Range
<1>5. ASSUME NEW i \in 1 .. n PROVE To[v[i]] = From[v[i + 1]]
  <2>1. CASE i = n  BY <1>2, <1>3, <2>1
  <2>2. CASE i # n  BY <1>2, <2>2 DEF SimpleWalk
  <2> QED  BY <2>1, <2>2
<1>6. ASSUME NEW i \in 1 .. n + 1, NEW j \in 1 .. n + 1, v[i] = v[j] PROVE i = j
  <2>1. CASE i = n + 1 \/ j = n + 1  BY <1>2, <1>4, <1>6, <2>1
  <2>2. CASE i \in 1 .. n /\ j \in 1 .. n  BY <1>2, <1>6, <2>2 DEF SimpleWalk
  <2> QED  BY <2>1, <2>2
<1> QED
  BY <1>2, <1>5, <1>6 DEF SimpleWalk

LEMMA WalkFacts ==
  ASSUME NEW w \in Walks
  PROVE  Len(w) \in Nat \ {0} /\ w \in Seq(Edges) /\ SimpleWalk(w, Len(w))
<1> DEFINE T == {k \in Nat : k + 1 <= EdgeCount =>
                   \A v \in WalksOfLength[k + 1] : SimpleWalk(v, k + 1)}
<1>0. EdgeCount \in Nat
  BY FiniteAssumption, FS_CardinalityType DEF EdgeCount
<1>1. 0 \in T
  <2> SUFFICES ASSUME 1 <= EdgeCount, NEW v \in WalksOfLength[1]
               PROVE  SimpleWalk(v, 1)
    OBVIOUS
  <2>1. v \in {<<e>> : e \in Edges}
    <3>1. 1 \in 1 .. EdgeCount  BY <1>0
    <3>2. WalksOfLength[1] = IF 1 = 1 THEN {<<e>> : e \in Edges}
                             ELSE Longer(WalksOfLength[1 - 1])
      BY <3>1, WalksUnfold
    <3> QED  BY <3>2
  <2> QED  BY <2>1 DEF SimpleWalk
<1>2. ASSUME NEW k \in T PROVE k + 1 \in T
  <2> SUFFICES ASSUME (k + 1) + 1 <= EdgeCount, NEW v \in WalksOfLength[(k + 1) + 1]
               PROVE  SimpleWalk(v, (k + 1) + 1)
    OBVIOUS
  <2>1. \A u \in WalksOfLength[k + 1] : SimpleWalk(u, k + 1)  BY <1>0, <1>2
  <2>2. v \in Longer(WalksOfLength[k + 1])
    <3>1. (k + 1) + 1 \in 1 .. EdgeCount /\ (k + 1) + 1 # 1 /\ ((k + 1) + 1) - 1 = k + 1
      BY <1>0
    <3> QED  BY <3>1, WalksUnfold
  <2> QED  BY <2>1, <2>2, LongerWalks
<1> HIDE DEF T
<1>3. T = Nat  BY <1>1, <1>2, Induct DEF T
<1>4. PICK n \in 1 .. EdgeCount : w \in WalksOfLength[n]
  BY DEF Walks, EdgeCount
<1>5. SimpleWalk(w, n)
  <2>1. n - 1 \in T /\ (n - 1) + 1 = n  BY <1>0, <1>3
  <2> QED  BY <1>0, <1>4, <2>1 DEF T
<1>6. Len(w) = n /\ w \in Seq(Edges)
  BY <1>0, <1>5 DEF SimpleWalk
<1> QED  BY <1>0, <1>5, <1>6

-----------------------------------------------------------------------------
(* What an answer of a search says.                                        *)

\* The callbacks of a request that costs and spends nothing negative.
Sensible(r) ==
  /\ r.edgeCost \in [Edges -> Nat]
  /\ r.turnCost \in [Edges \X Edges -> Nat]
  /\ r.allow \subseteq Edges

LEMMA CandidateFacts ==
  ASSUME NEW r, NEW w \in Candidates(r)
  PROVE  /\ w \in Walks /\ Len(w) \in Nat \ {0} /\ w \in Seq(Edges) /\ SimpleWalk(w, Len(w))
         /\ From[w[1]] = r.start /\ To[Last(w)] = r.goal
         /\ Range(w) \subseteq r.allow
<1>1. {r.start, r.goal} \subseteq Nodes
  BY DEF Candidates
<1>2. w \in WalksBetween[<<r.start, r.goal>>] /\ Rideable(r, w)
  BY <1>1 DEF Candidates
<1>3. <<r.start, r.goal>> \in Nodes \X Nodes
  BY <1>1
<1>4. w \in Walks
  BY <1>2, <1>3 DEF WalksBetween
<1> QED  BY <1>2, <1>4, WalkFacts DEF Rideable, Connects

\* Whatever may be ridden can be ridden where more is allowed.
LEMMA CandidateThere ==
  ASSUME NEW r, NEW w \in Candidates(r), NEW q,
         q.start = r.start, q.goal = r.goal, Range(w) \subseteq q.allow
  PROVE  w \in Candidates(q)
BY DEF Candidates, Rideable, Connects

LEMMA AnswerFacts ==
  ASSUME NEW r, NEW a \in Answers(r)
  PROVE  \/ r.start = r.goal /\ a = Bare("path")
         \/ /\ r.start # r.goal
            /\ \E w \in Candidates(r) :
                 /\ a = AnswerOf(r, w)
                 /\ a.edges = w /\ a.cost = WalkCost(r, w) /\ a.lengthM = WalkLength(w)
                 /\ a.usedM = WalkUsed(r, w) /\ a.usedM <= r.budgetM
                 /\ \A c \in ComfortableCosts(r) : a.cost <= c
<1>1. CASE r.start = r.goal
  BY <1>1 DEF Answers
<1>2. CASE r.start # r.goal
  <2>1. /\ a \in {AnswerOf(r, w) : w \in Candidates(r)}
        /\ a.usedM <= r.budgetM
        /\ \A c \in ComfortableCosts(r) : a.cost <= c
    BY <1>2 DEF Answers
  <2>2. PICK w \in Candidates(r) : a = AnswerOf(r, w)
    BY <2>1
  <2>3. /\ a.edges = w /\ a.cost = WalkCost(r, w) /\ a.lengthM = WalkLength(w)
        /\ a.usedM = WalkUsed(r, w)
    BY <2>2 DEF AnswerOf
  <2> QED  BY <1>2, <2>1, <2>2, <2>3
<1> QED  BY <1>1, <1>2

LEMMA WalkTotals ==
  ASSUME NEW w \in Seq(Edges)
  PROVE  /\ WalkLength(w) \in Nat
         /\ \A r : WalkUsed(r, w) \in Nat
         /\ \A r : Sensible(r) => WalkCost(r, w) \in Nat
<1>1. Len(w) \in Nat /\ \A i \in 1 .. Len(w) : w[i] \in Edges
  OBVIOUS
<1>2. \A e \in Edges : LengthM[e] \in Nat
  BY GraphAssumption
<1>3. WalkLength(w) \in Nat
  <2> DEFINE s == [i \in 1 .. Len(w) |-> LengthM[w[i]]]
  <2>1. Len(s) \in Nat /\ \A i \in 1 .. Len(s) : s[i] \in Nat
    BY <1>1, <1>2
  <2> HIDE DEF s
  <2>2. SumUp(s) \in Nat  BY <2>1, SumNat
  <2> QED  BY <2>2 DEF s, WalkLength
<1>4. ASSUME NEW r PROVE WalkUsed(r, w) \in Nat
  <2> DEFINE s == [i \in 1 .. Len(w) |-> Spend(r, w[i], 0)]
  <2>1. Len(s) \in Nat /\ \A i \in 1 .. Len(s) : s[i] \in Nat
    BY <1>1, <1>2 DEF Spend
  <2> HIDE DEF s
  <2>2. SumUp(s) \in Nat  BY <2>1, SumNat
  <2> QED  BY <2>2 DEF s, WalkUsed
<1>5. ASSUME NEW r, Sensible(r) PROVE WalkCost(r, w) \in Nat
  <2> DEFINE s == [i \in 1 .. Len(w) |-> r.edgeCost[w[i]]]
             t == [i \in 1 .. Len(w) - 1 |-> r.turnCost[<<w[i], w[i + 1]>>]]
  <2>1. Len(s) \in Nat /\ \A i \in 1 .. Len(s) : s[i] \in Nat
    BY <1>1, <1>5 DEF Sensible
  <2>2. SumUp(t) \in Nat
    <3>1. CASE Len(w) = 0
      <4>1. Len(t) = 0 /\ t \in Seq(Nat)  BY <3>1
      <4>2. t = <<>>  BY <4>1
      <4> HIDE DEF t
      <4>3. SumUp(t) = 0  BY <4>2, SumEmpty
      <4> QED  BY <4>3
    <3>2. CASE Len(w) # 0
      <4>1. Len(t) = Len(w) - 1  BY <1>1, <3>2
      <4>2. \A i \in 1 .. Len(w) - 1 : w[i] \in Edges /\ w[i + 1] \in Edges
        BY <1>1
      <4>3. \A i \in 1 .. Len(t) : t[i] \in Nat
        BY <1>5, <4>1, <4>2 DEF Sensible
      <4>4. Len(t) \in Nat  BY <1>1, <3>2, <4>1
      <4> HIDE DEF t
      <4> QED  BY <4>3, <4>4, SumNat
    <3> QED  BY <3>1, <3>2
  <2> HIDE DEF s, t
  <2>3. SumUp(s) \in Nat  BY <2>1, SumNat
  <2>4. SumUp(s) + SumUp(t) \in Nat  BY <2>2, <2>3
  <2> QED  BY <2>4 DEF s, t, WalkCost
<1> QED  BY <1>3, <1>4, <1>5

\* The cost of a walk, edge by edge.
LEMMA CostSoFar ==
  ASSUME NEW r, Sensible(r), NEW w \in Seq(Edges), Len(w) \in Nat \ {0}
  PROVE  \E c : /\ c[1] = r.edgeCost[w[1]]
                /\ \A i \in 1 .. Len(w) : c[i] \in Nat
                /\ \A i \in 1 .. Len(w) - 1 :
                     c[i + 1] = c[i] + r.edgeCost[w[i + 1]] + r.turnCost[<<w[i], w[i + 1]>>]
                /\ c[Len(w)] = WalkCost(r, w)
<1> DEFINE n == Len(w)
           s == [i \in 1 .. n |-> r.edgeCost[w[i]]]
           t == [i \in 1 .. n - 1 |-> r.turnCost[<<w[i], w[i + 1]>>]]
<1>1. /\ \A i \in 1 .. n : w[i] \in Edges /\ r.edgeCost[w[i]] \in Nat
      /\ \A i \in 1 .. n - 1 : r.turnCost[<<w[i], w[i + 1]>>] \in Nat
  <2>1. \A i \in 1 .. n : w[i] \in Edges
    OBVIOUS
  <2>2. \A i \in 1 .. n - 1 : w[i] \in Edges /\ w[i + 1] \in Edges
    BY <2>1
  <2> QED  BY <2>1, <2>2 DEF Sensible
<1>2. Len(s) = n /\ \A i \in 1 .. n : s[i] = r.edgeCost[w[i]]
  OBVIOUS
<1>3. Len(t) = n - 1 /\ \A i \in 1 .. n - 1 : t[i] = r.turnCost[<<w[i], w[i + 1]>>]
  OBVIOUS
<1>4. WalkCost(r, w) = SumUp(s) + SumUp(t)
  BY DEF WalkCost
<1> HIDE DEF s, t
<1>5. PICK g : /\ g[0] = 0 /\ \A i \in 1 .. n : g[i] = g[i - 1] + s[i]
               /\ SumUp(s) = g[n]
  BY <1>2, SumUnfolds
<1>6. PICK h : /\ h[0] = 0 /\ \A i \in 1 .. n - 1 : h[i] = h[i - 1] + t[i]
               /\ SumUp(t) = h[n - 1]
  <2>1. Len(t) \in Nat  BY <1>3
  <2> QED  BY <1>3, <2>1, SumUnfolds
<1> DEFINE c == [i \in 1 .. n |-> g[i] + h[i - 1]]
           T == {k \in Nat : k + 1 <= n => g[k] \in Nat /\ g[k + 1] \in Nat /\ h[k] \in Nat}
<1>7. 0 \in T
  <2>1. 1 \in 1 .. n /\ 1 - 1 = 0  OBVIOUS
  <2>2. g[1] = g[1 - 1] + s[1]  BY <1>5, <2>1
  <2> QED  BY <1>1, <1>2, <1>5, <1>6, <2>1, <2>2
<1>8. ASSUME NEW k \in T PROVE k + 1 \in T
  <2> SUFFICES ASSUME (k + 1) + 1 <= n
               PROVE  g[k + 1] \in Nat /\ g[(k + 1) + 1] \in Nat /\ h[k + 1] \in Nat
    OBVIOUS
  <2>1. /\ (k + 1) + 1 \in 1 .. n /\ ((k + 1) + 1) - 1 = k + 1
        /\ k + 1 \in 1 .. n - 1 /\ (k + 1) - 1 = k
    OBVIOUS
  <2>2. g[(k + 1) + 1] = g[((k + 1) + 1) - 1] + s[(k + 1) + 1]  BY <1>5, <2>1
  <2>3. h[k + 1] = h[(k + 1) - 1] + t[k + 1]  BY <1>6, <2>1
  <2>4. g[k + 1] \in Nat /\ h[k] \in Nat  BY <2>1
  <2>5. s[(k + 1) + 1] \in Nat /\ t[k + 1] \in Nat  BY <1>1, <1>2, <1>3, <2>1
  <2> QED  BY <2>1, <2>2, <2>3, <2>4, <2>5
<1> HIDE DEF T
<1>9. T = Nat  BY <1>7, <1>8, Induct DEF T
<1>10. \A i \in 1 .. n : g[i] \in Nat /\ h[i - 1] \in Nat
  <2> TAKE i \in 1 .. n
  <2>1. i - 1 \in T /\ (i - 1) + 1 = i /\ (i - 1) + 1 <= n  BY <1>9
  <2> QED  BY <2>1 DEF T
<1>11. c[1] = r.edgeCost[w[1]]
  <2>1. 1 \in 1 .. n /\ 1 - 1 = 0  OBVIOUS
  <2>2. g[1] = g[1 - 1] + s[1]  BY <1>5, <2>1
  <2> QED  BY <1>1, <1>2, <1>5, <1>6, <2>1, <2>2
<1>12. \A i \in 1 .. n : c[i] \in Nat
  BY <1>10
<1>13. ASSUME NEW i \in 1 .. n - 1
       PROVE  c[i + 1] = c[i] + r.edgeCost[w[i + 1]] + r.turnCost[<<w[i], w[i + 1]>>]
  <2>1. i \in 1 .. n /\ i + 1 \in 1 .. n /\ (i + 1) - 1 = i  OBVIOUS
  <2>2. c[i + 1] = g[i + 1] + h[i] /\ c[i] = g[i] + h[i - 1]  BY <2>1
  <2>3. g[i + 1] = g[(i + 1) - 1] + s[i + 1] /\ h[i] = h[i - 1] + t[i]
    BY <1>5, <1>6, <2>1
  <2>4. /\ g[i] \in Nat /\ h[i - 1] \in Nat
        /\ s[i + 1] = r.edgeCost[w[i + 1]] /\ r.edgeCost[w[i + 1]] \in Nat
        /\ t[i] = r.turnCost[<<w[i], w[i + 1]>>] /\ r.turnCost[<<w[i], w[i + 1]>>] \in Nat
    BY <1>1, <1>2, <1>3, <1>10, <2>1
  <2> HIDE DEF c
  <2> QED  BY <2>1, <2>2, <2>3, <2>4
<1>14. c[n] = WalkCost(r, w)
  BY <1>4, <1>5, <1>6
<1> HIDE DEF c
<1> QED  BY <1>11, <1>12, <1>13, <1>14

\* Nothing adds up to nothing but nothing.
LEMMA NothingSpent ==
  ASSUME NEW s, Len(s) \in Nat, \A i \in 1 .. Len(s) : s[i] \in Nat, SumUp(s) = 0
  PROVE  \A i \in 1 .. Len(s) : s[i] = 0
<1>1. PICK g : /\ g[0] = 0 /\ \A i \in 1 .. Len(s) : g[i] = g[i - 1] + s[i]
               /\ SumUp(s) = g[Len(s)]
  BY SumUnfolds
<1> DEFINE T == {k \in Nat : k <= Len(s) => g[k] \in Nat}
           U == {k \in Nat : k <= Len(s) => g[Len(s) - k] = 0}
<1>2. T = Nat
  <2>1. 0 \in T  BY <1>1
  <2>2. ASSUME NEW k \in T PROVE k + 1 \in T
    <3> SUFFICES ASSUME k + 1 <= Len(s) PROVE g[k + 1] \in Nat
      OBVIOUS
    <3>1. k + 1 \in 1 .. Len(s) /\ (k + 1) - 1 = k  OBVIOUS
    <3>2. g[k + 1] = g[(k + 1) - 1] + s[k + 1]  BY <1>1, <3>1
    <3> QED  BY <3>1, <3>2
  <2> HIDE DEF T
  <2> QED  BY <2>1, <2>2, Induct DEF T
<1>3. \A k \in 0 .. Len(s) : g[k] \in Nat
  BY <1>2
<1>4. U = Nat
  <2>1. 0 \in U  BY <1>1
  <2>2. ASSUME NEW k \in U PROVE k + 1 \in U
    <3> SUFFICES ASSUME k + 1 <= Len(s) PROVE g[Len(s) - (k + 1)] = 0
      OBVIOUS
    <3>1. /\ Len(s) - k \in 1 .. Len(s) /\ (Len(s) - k) - 1 = Len(s) - (k + 1)
          /\ Len(s) - (k + 1) \in 0 .. Len(s)
      OBVIOUS
    <3>2. g[Len(s) - k] = g[(Len(s) - k) - 1] + s[Len(s) - k]  BY <1>1, <3>1
    <3>3. g[Len(s) - k] = 0  BY <3>1
    <3>4. g[Len(s) - (k + 1)] \in Nat /\ s[Len(s) - k] \in Nat  BY <1>3, <3>1
    <3> QED  BY <3>1, <3>2, <3>3, <3>4
  <2> HIDE DEF U
  <2> QED  BY <2>1, <2>2, Induct DEF U
<1>5. ASSUME NEW k \in 0 .. Len(s) PROVE g[k] = 0
  <2>1. Len(s) - k \in Nat /\ Len(s) - k <= Len(s) /\ Len(s) - (Len(s) - k) = k
    OBVIOUS
  <2> HIDE DEF T
  <2> QED  BY <1>4, <2>1
<1> HIDE DEF T, U
<1> SUFFICES ASSUME NEW i \in 1 .. Len(s) PROVE s[i] = 0
  OBVIOUS
<1>6. i \in 0 .. Len(s) /\ i - 1 \in 0 .. Len(s)  OBVIOUS
<1>7. g[i] = 0 /\ g[i - 1] = 0 /\ g[i] = g[i - 1] + s[i]  BY <1>1, <1>5, <1>6
<1> QED  BY <1>7

-----------------------------------------------------------------------------
(* One edge more.                                                          *)

LEMMA OneEdge ==
  ASSUME NEW r, Sensible(r), NEW e \in Edges
  PROVE  /\ WalkLength(<<e>>) = LengthM[e]
         /\ WalkUsed(r, <<e>>) = Spend(r, e, 0)
         /\ WalkCost(r, <<e>>) = r.edgeCost[e]
<1> DEFINE w == <<e>>
           s == [i \in 1 .. Len(w) |-> LengthM[w[i]]]
           t == [i \in 1 .. Len(w) |-> Spend(r, w[i], 0)]
           u == [i \in 1 .. Len(w) |-> r.edgeCost[w[i]]]
           v == [i \in 1 .. Len(w) - 1 |-> r.turnCost[<<w[i], w[i + 1]>>]]
<1>1. Len(w) = 1 /\ w[1] = e
  OBVIOUS
<1>2. LengthM[e] \in Nat /\ Spend(r, e, 0) \in Nat /\ r.edgeCost[e] \in Nat
  BY GraphAssumption DEF Spend, Sensible
<1>3. Len(s) = 1 /\ s[1] = LengthM[e]
  BY <1>1
<1>4. Len(t) = 1 /\ t[1] = Spend(r, e, 0)
  BY <1>1
<1>5. Len(u) = 1 /\ u[1] = r.edgeCost[e]
  BY <1>1
<1>6. Len(v) = 0
  BY <1>1
<1>7. /\ WalkLength(w) = SumUp(s) /\ WalkUsed(r, w) = SumUp(t)
      /\ WalkCost(r, w) = SumUp(u) + SumUp(v)
  BY DEF WalkLength, WalkUsed, WalkCost
<1> HIDE DEF w, s, t, u, v
<1>8. /\ SumUp(s) = LengthM[e] /\ SumUp(t) = Spend(r, e, 0)
      /\ SumUp(u) = r.edgeCost[e] /\ SumUp(v) = 0
  BY <1>2, <1>3, <1>4, <1>5, <1>6, SumOne, SumEmpty
<1> QED  BY <1>2, <1>7, <1>8 DEF w

LEMMA EdgeMore ==
  ASSUME NEW r, Sensible(r), NEW w \in Seq(Edges), Len(w) # 0, NEW e \in Edges
  PROVE  LET v == Append(w, e)
         IN  /\ WalkLength(v) = WalkLength(w) + LengthM[e]
             /\ WalkUsed(r, v) = WalkUsed(r, w) + Spend(r, e, 0)
             /\ WalkCost(r, v)
                  = WalkCost(r, w) + r.edgeCost[e] + r.turnCost[<<w[Len(w)], e>>]
<1> DEFINE n == Len(w)
           v == Append(w, e)
           s1 == [i \in 1 .. Len(w) |-> LengthM[w[i]]]
           s2 == [i \in 1 .. Len(v) |-> LengthM[v[i]]]
           t1 == [i \in 1 .. Len(w) |-> Spend(r, w[i], 0)]
           t2 == [i \in 1 .. Len(v) |-> Spend(r, v[i], 0)]
           u1 == [i \in 1 .. Len(w) |-> r.edgeCost[w[i]]]
           u2 == [i \in 1 .. Len(v) |-> r.edgeCost[v[i]]]
           x1 == [i \in 1 .. Len(w) - 1 |-> r.turnCost[<<w[i], w[i + 1]>>]]
           x2 == [i \in 1 .. Len(v) - 1 |-> r.turnCost[<<v[i], v[i + 1]>>]]
<1>1. /\ n \in Nat \ {0} /\ v \in Seq(Edges) /\ Len(v) = n + 1 /\ v[n + 1] = e
      /\ \A i \in 1 .. n : v[i] = w[i] /\ w[i] \in Edges
  BY AppendProperties
<1> HIDE DEF v, n
<1>2. Len(w) = n
  BY DEF n
<1>3. /\ WalkLength(w) = SumUp(s1) /\ WalkLength(v) = SumUp(s2)
      /\ WalkUsed(r, w) = SumUp(t1) /\ WalkUsed(r, v) = SumUp(t2)
      /\ WalkCost(r, w) = SumUp(u1) + SumUp(x1)
      /\ WalkCost(r, v) = SumUp(u2) + SumUp(x2)
  BY DEF WalkLength, WalkUsed, WalkCost
<1>4. SumUp(s2) = SumUp(s1) + LengthM[e]
  <2>1. /\ Len(s1) = n /\ Len(s2) = n + 1 /\ s2[n + 1] = LengthM[e]
        /\ \A i \in 1 .. n : s2[i] = s1[i]
    BY <1>1, <1>2
  <2> HIDE DEF s1, s2
  <2> QED  BY <1>1, <2>1, SumAppend
<1>5. SumUp(t2) = SumUp(t1) + Spend(r, e, 0)
  <2>1. /\ Len(t1) = n /\ Len(t2) = n + 1 /\ t2[n + 1] = Spend(r, e, 0)
        /\ \A i \in 1 .. n : t2[i] = t1[i]
    BY <1>1, <1>2
  <2> HIDE DEF t1, t2
  <2> QED  BY <1>1, <2>1, SumAppend
<1>6. SumUp(u2) = SumUp(u1) + r.edgeCost[e]
  <2>1. /\ Len(u1) = n /\ Len(u2) = n + 1 /\ u2[n + 1] = r.edgeCost[e]
        /\ \A i \in 1 .. n : u2[i] = u1[i]
    BY <1>1, <1>2
  <2> HIDE DEF u1, u2
  <2> QED  BY <1>1, <2>1, SumAppend
<1>7. SumUp(x2) = SumUp(x1) + r.turnCost[<<w[n], e>>]
  <2>1. /\ n - 1 \in Nat /\ (n - 1) + 1 = n /\ Len(v) - 1 = n /\ Len(w) - 1 = n - 1
        /\ n \in 1 .. n
    BY <1>1, <1>2
  <2>2. Len(x1) = n - 1 /\ Len(x2) = n
    BY <2>1
  <2>3. x2[n] = r.turnCost[<<w[n], e>>]
    BY <1>1, <2>1
  <2>4. \A i \in 1 .. n - 1 : x2[i] = x1[i]
    <3> TAKE i \in 1 .. n - 1
    <3>1. i \in 1 .. n /\ i + 1 \in 1 .. n  BY <2>1
    <3> QED  BY <1>1, <2>1, <3>1
  <2> HIDE DEF x1, x2
  <2> QED  BY <2>1, <2>2, <2>3, <2>4, SumAppend
<1>8. /\ SumUp(u1) \in Nat /\ SumUp(x1) \in Nat
      /\ r.edgeCost[e] \in Nat /\ r.turnCost[<<w[n], e>>] \in Nat
  <2>1. Len(u1) = n /\ \A i \in 1 .. n : u1[i] \in Nat
    BY <1>1, <1>2 DEF Sensible
  <2>2. Len(x1) = n - 1 /\ n - 1 \in Nat /\ \A i \in 1 .. n - 1 : x1[i] \in Nat
    <3>1. n - 1 \in Nat /\ Len(x1) = n - 1  BY <1>1, <1>2
    <3>2. \A i \in 1 .. n - 1 : w[i] \in Edges /\ w[i + 1] \in Edges
      BY <1>1
    <3> QED  BY <1>2, <3>1, <3>2 DEF Sensible
  <2>3. r.edgeCost[e] \in Nat /\ r.turnCost[<<w[n], e>>] \in Nat
    BY <1>1 DEF Sensible
  <2> HIDE DEF u1, x1
  <2> QED  BY <1>1, <2>1, <2>2, <2>3, SumNat
<1> HIDE DEF s1, s2, t1, t2, u1, u2, x1, x2
<1>9. WalkCost(r, v) = WalkCost(r, w) + r.edgeCost[e] + r.turnCost[<<w[n], e>>]
  BY <1>3, <1>6, <1>7, <1>8
<1> QED  BY <1>2, <1>3, <1>4, <1>5, <1>9 DEF v

\* Every walk that repeats no edge is enumerated.
LEMMA SimpleWalkThere ==
  ASSUME NEW n \in Nat \ {0}, NEW w, SimpleWalk(w, n)
  PROVE  w \in Walks
<1> DEFINE T == {k \in Nat : k + 1 <= EdgeCount =>
                   \A v : SimpleWalk(v, k + 1) => v \in WalksOfLength[k + 1]}
<1>0. EdgeCount \in Nat
  BY FiniteAssumption, FS_CardinalityType DEF EdgeCount
<1>1. 0 \in T
  <2> SUFFICES ASSUME 1 <= EdgeCount, NEW v, SimpleWalk(v, 1)
               PROVE  v \in WalksOfLength[1]
    OBVIOUS
  <2>1. v[1] \in Edges /\ v = <<v[1]>>
    BY DEF SimpleWalk
  <2>2. WalksOfLength[1] = IF 1 = 1 THEN {<<e>> : e \in Edges}
                           ELSE Longer(WalksOfLength[1 - 1])
    <3>1. 1 \in 1 .. EdgeCount  BY <1>0
    <3> QED  BY <3>1, WalksUnfold
  <2> QED  BY <2>1, <2>2
<1>2. ASSUME NEW k \in T PROVE k + 1 \in T
  <2> SUFFICES ASSUME (k + 1) + 1 <= EdgeCount, NEW v, SimpleWalk(v, (k + 1) + 1)
               PROVE  v \in WalksOfLength[(k + 1) + 1]
    OBVIOUS
  <2> DEFINE m == k + 1
             u == [i \in 1 .. m |-> v[i]]
             e == v[m + 1]
  <2>1. \A x : SimpleWalk(x, m) => x \in WalksOfLength[m]
    BY <1>0, <1>2
  <2>2. m \in Nat \ {0} /\ m + 1 \in 1 .. m + 1 /\ \A i \in 1 .. m : i \in 1 .. m + 1
    OBVIOUS
  <2>3. /\ v \in [1 .. m + 1 -> Edges]
        /\ \A i \in 1 .. m : To[v[i]] = From[v[i + 1]]
        /\ \A i, j \in 1 .. m + 1 : v[i] = v[j] => i = j
    BY DEF SimpleWalk
  <2> HIDE DEF m, T
  <2>4. SimpleWalk(u, m)
    <3>1. u \in [1 .. m -> Edges]  BY <2>2, <2>3
    <3>2. ASSUME NEW i \in 1 .. m - 1 PROVE To[u[i]] = From[u[i + 1]]
      <4>1. i \in 1 .. m /\ i + 1 \in 1 .. m  BY <2>2
      <4> QED  BY <2>3, <4>1
    <3>3. \A i, j \in 1 .. m : u[i] = u[j] => i = j  BY <2>2, <2>3
    <3> QED  BY <3>1, <3>2, <3>3 DEF SimpleWalk
  <2>5. u \in Seq(Edges) /\ Len(u) = m /\ e \in Edges
    BY <2>2, <2>3
  <2>a. \A i \in 1 .. m : u[i] = v[i]
    OBVIOUS
  <2>6. v = Append(u, e)
    <3> DEFINE z == Append(u, e)
    <3> HIDE DEF u
    <3>1. /\ z \in Seq(Edges) /\ Len(z) = m + 1 /\ z[m + 1] = e
          /\ \A i \in 1 .. m : z[i] = u[i]
      BY <2>2, <2>5, AppendProperties
    <3> HIDE DEF z
    <3>2. \A i \in 1 .. m + 1 : v[i] = z[i]
      <4> TAKE i \in 1 .. m + 1
      <4>1. i \in 1 .. m \/ i = m + 1  BY <2>2
      <4> QED  BY <2>a, <3>1, <4>1
    <3>3. z \in [1 .. m + 1 -> Edges]
      BY <3>1
    <3>4. v = z
      <4>1. v \in [1 .. m + 1 -> Edges]  BY <2>3
      <4>2. v = [i \in 1 .. m + 1 |-> v[i]] /\ z = [i \in 1 .. m + 1 |-> z[i]]
        BY <3>3, <4>1
      <4> QED  BY <3>2, <4>2
    <3> QED  BY <3>4 DEF z
  <2>7. e \in OutEdges(To[Last(u)]) \ Range(u)
    <3>1. m \in 1 .. m  BY <2>2
    <3>2. Last(u) = v[m] /\ From[e] = To[v[m]]
      BY <2>3, <2>5, <3>1 DEF Last
    <3>3. \A i \in 1 .. m : u[i] # e
      <4> TAKE i \in 1 .. m
      <4>1. i # m + 1 /\ i \in 1 .. m + 1  BY <2>2
      <4> QED  BY <2>2, <2>3, <4>1
    <3>4. e \notin Range(u)
      BY <3>3 DEF Range
    <3> QED  BY <2>5, <3>2, <3>4 DEF OutEdges
  <2> HIDE DEF u, e
  <2>8. u \in WalksOfLength[m]
    BY <2>1, <2>4
  <2>9. v \in Longer(WalksOfLength[m])
    BY <2>6, <2>7, <2>8 DEF Longer
  <2>10. WalksOfLength[m + 1] = Longer(WalksOfLength[m])
    <3>1. m + 1 \in 1 .. EdgeCount /\ m + 1 # 1 /\ (m + 1) - 1 = m
      BY <1>0, <2>2 DEF m
    <3> QED  BY <3>1, WalksUnfold
  <2> QED  BY <2>9, <2>10 DEF m
<1> HIDE DEF T
<1>3. T = Nat  BY <1>1, <1>2, Induct DEF T
<1>4. n <= EdgeCount
  <2>1. w \in Injection(1 .. n, Edges)
    BY DEF SimpleWalk, Injection, IsInjective
  <2>2. Cardinality(1 .. n) <= EdgeCount
    BY <2>1, FiniteAssumption, FS_Injection DEF EdgeCount
  <2>3. Cardinality(1 .. n) = n
    BY FS_Interval
  <2> QED  BY <2>2, <2>3
<1>5. w \in WalksOfLength[n]
  <2>1. n - 1 \in T /\ (n - 1) + 1 = n /\ (n - 1) + 1 <= EdgeCount
    BY <1>3, <1>4
  <2> QED  BY <2>1 DEF T
<1>6. n \in 1 .. EdgeCount
  BY <1>0, <1>4
<1> QED  BY <1>5, <1>6 DEF Walks, EdgeCount

===============================================================================
