---------------------------- MODULE Rows_proofs -----------------------------
(***************************************************************************)
(* Proofs about the way of a message to its row, for every set of letters, *)
(* filters and topics: match is MQTT's rule, Parse does not panic for      *)
(* plain filters, and what the expression finds for the wildcards.         *)
(*                                                                         *)
(* A level is known by its place in the string (LevelShape, LevelEdges),   *)
(* so that two strings with equal levels have equal beginnings.  match is  *)
(* compared with a closed form of its recursion; Parse's slices and the    *)
(* matcher's states are followed step by step from the start.  Induction   *)
(* goes over the places of a string, as a least number that does not exist *)
(* (Least, UpTo).                                                          *)
(***************************************************************************)
EXTENDS Rows, WellFoundedInduction, FiniteSetTheorems, SequenceTheorems, TLAPS

-----------------------------------------------------------------------------
(* Numbers: least and greatest elements, induction, recursion.             *)

\* A set of natural numbers has a least element.
LEMMA Least == ASSUME NEW T, T \subseteq Nat, T # {} PROVE \E x \in T : \A y \in T : x <= y
<1> DEFINE R == OpToRel(<, Nat)
<1>1. IsWellFoundedOn(R, Nat)
  BY NatLessThanWellFounded
<1>2. \A x, y \in Nat : x < y => <<x, y>> \in R
  BY DEF OpToRel
<1> HIDE DEF R
<1>3. PICK x \in T : \A y \in T : ~(<<y, x>> \in R)
  BY <1>1, WFMin
<1>4. ASSUME NEW y \in T PROVE x <= y
  <2>1. x \in Nat /\ y \in Nat /\ ~(<<y, x>> \in R)
    BY <1>3
  <2> QED  BY <1>2, <2>1
<1> QED  BY <1>4

\* What Min chooses.
LEMMA MinIs == ASSUME NEW T, T \subseteq Nat, T # {} PROVE Min(T) \in T /\ \A y \in T : Min(T) <= y
<1>1. PICK x \in T : \A y \in T : x <= y
  BY Least
<1> QED  BY <1>1 DEF Min

\* The same for a bounded set and its greatest element.
LEMMA MaxIs ==
  ASSUME NEW n \in Nat, NEW T, T \subseteq 0..n, T # {}
  PROVE  Max(T) \in T /\ \A y \in T : y <= Max(T)
<1> DEFINE U == {n - x : x \in T}
<1>1. U \subseteq Nat /\ U # {}
  OBVIOUS
<1>2. PICK u \in U : \A y \in U : u <= y
  BY <1>1, Least
<1>3. PICK x \in T : u = n - x
  OBVIOUS
<1>4. \A y \in T : y <= x
  <2> SUFFICES ASSUME NEW y \in T PROVE y <= x
    OBVIOUS
  <2>1. n - y \in U /\ x \in 0..n /\ y \in 0..n
    OBVIOUS
  <2>2. u <= n - y
    BY <1>2, <2>1
  <2> QED  BY <1>3, <2>1, <2>2
<1>5. \E z \in T : \A y \in T : z >= y
  BY <1>3, <1>4
<1> QED  BY <1>5 DEF Max

\* Induction on a bounded number, for a set instead of a predicate.
LEMMA UpTo ==
  ASSUME NEW n \in Nat, NEW S, 0 \in S, \A k \in 0..n-1 : k \in S => k + 1 \in S
  PROVE  \A k \in 0..n : k \in S
<1> DEFINE T == {k \in 0..n : k \notin S}
<1> SUFFICES ASSUME T # {} PROVE FALSE
  OBVIOUS
<1>1. PICK x \in T : \A y \in T : x <= y
  <2>1. T \subseteq Nat
    OBVIOUS
  <2> HIDE DEF T
  <2> QED  BY <2>1, Least
<1>2. x # 0 /\ x \in 0..n
  OBVIOUS
<1>3. x - 1 \in 0..n-1 /\ x - 1 \notin T
  BY <1>1, <1>2
<1>4. x - 1 \in S
  BY <1>3
<1> QED  BY <1>2, <1>3, <1>4

\* The functions on 0..n that start with v and take the step D[k] at k.
Runs(n, V, v, D) == {g \in [0..n -> V] : g[0] = v /\ \A k \in 1..n : g[k] = D[k][g[k - 1]]}

\* There is such a function.
LEMMA Recursion ==
  ASSUME NEW n \in Nat, NEW V, NEW v \in V, NEW D \in [1..n -> [V -> V]]
  PROVE  Runs(n, V, v, D) # {}
<1> DEFINE Good(m, g) == g \in [0..m -> V] /\ g[0] = v /\ \A k \in 1..m : g[k] = D[k][g[k - 1]]
           S == {m \in 0..n : \E g : Good(m, g)}
<1>1. 0 \in S
  <2>1. 0..0 = {0} /\ 1..0 = {} /\ 0 \in 0..n
    OBVIOUS
  <2> DEFINE g == [k \in 0..0 |-> v]
  <2>2. g \in [0..0 -> V] /\ g[0] = v /\ \A k \in 1..0 : g[k] = D[k][g[k - 1]]
    BY <2>1
  <2> HIDE DEF g
  <2>3. Good(0, g)
    BY <2>2
  <2> QED  BY <2>1, <2>3
<1>2. ASSUME NEW m \in 0..n-1, m \in S PROVE m + 1 \in S
  <2>1. PICK g : Good(m, g)
    BY <1>2
  <2> DEFINE h == [k \in 0..m+1 |-> IF k = m + 1 THEN D[m + 1][g[m]] ELSE g[k]]
  <2>2. D[m + 1][g[m]] \in V
    <3>1. m + 1 \in 1..n /\ g[m] \in V
      BY <2>1
    <3> QED  BY <3>1
  <2>3. h \in [0..m+1 -> V]
    BY <2>1, <2>2
  <2>4. h[0] = v
    BY <2>1
  <2>5. ASSUME NEW k \in 1..m+1 PROVE h[k] = D[k][h[k - 1]]
    <3>1. k - 1 \in 0..m /\ h[k - 1] = g[k - 1]
      OBVIOUS
    <3>2. CASE k = m + 1
      BY <3>1, <3>2
    <3>3. CASE k # m + 1
      <4>1. k \in 1..m /\ h[k] = g[k]
        BY <3>3
      <4> QED  BY <2>1, <3>1, <4>1
    <3> QED  BY <3>2, <3>3
  <2> HIDE DEF h
  <2>6. Good(m + 1, h)
    BY <2>3, <2>4, <2>5
  <2> QED  BY <2>6
<1>3. \A m \in 0..n-1 : m \in S => m + 1 \in S
  BY <1>2
<1> HIDE DEF S
<1>4. n \in S
  <2>1. \A m \in 0..n : m \in S
    BY <1>1, <1>3, UpTo
  <2>2. n \in 0..n
    OBVIOUS
  <2> QED  BY <2>1, <2>2
<1>5. PICK g : Good(n, g)
  BY <1>4 DEF S
<1> QED  BY <1>5 DEF Runs

-----------------------------------------------------------------------------
(* Levels, by the separators in front of a place.                          *)

\* How the count of separators grows.
LEMMA SlashCount ==
  ASSUME NEW s, Len(s) \in Nat, NEW n \in 0..Len(s)
  PROVE  /\ slashes(s, n) \in 0..n
         /\ slashes(s, 0) = 0
         /\ \A m \in 0..n : slashes(s, m) <= slashes(s, n)
         /\ n < Len(s) => slashes(s, n + 1) = IF s[n + 1] = "/" THEN slashes(s, n) + 1 ELSE slashes(s, n)
<1> DEFINE C(m) == {i \in 1..m : s[i] = "/"}
<1>1. IsFiniteSet(1..n) /\ Cardinality(1..n) = n
  BY FS_Interval
<1>2. IsFiniteSet(C(n)) /\ Cardinality(C(n)) \in 0..n
  <2>1. C(n) \subseteq 1..n
    OBVIOUS
  <2>2. IsFiniteSet(C(n)) /\ Cardinality(C(n)) <= Cardinality(1..n)
    BY <1>1, <2>1, FS_Subset
  <2> QED  BY <1>1, <2>2, FS_CardinalityType
<1>3. Cardinality(C(0)) = 0
  <2>1. C(0) = {}
    OBVIOUS
  <2> QED  BY <2>1, FS_EmptySet
<1>4. n < Len(s) => Cardinality(C(n + 1)) = IF s[n + 1] = "/" THEN Cardinality(C(n)) + 1 ELSE Cardinality(C(n))
  <2>1. 1..n+1 = 1..n \cup {n+1} /\ n + 1 \notin C(n)
    OBVIOUS
  <2>2. CASE s[n + 1] = "/"
    <3>1. C(n + 1) = C(n) \cup {n + 1}
      BY <2>1, <2>2
    <3> QED  BY <1>2, <2>1, <2>2, <3>1, FS_AddElement
  <2>3. CASE s[n + 1] # "/"
    <3>1. C(n + 1) = C(n)
      BY <2>1, <2>3
    <3> QED  BY <2>3, <3>1
  <2> QED  BY <2>2, <2>3
<1>5. ASSUME NEW m \in 0..n PROVE Cardinality(C(m)) <= Cardinality(C(n))
  <2>1. C(m) \subseteq C(n)
    OBVIOUS
  <2> QED  BY <1>2, <2>1, FS_Subset
<1> QED  BY <1>2, <1>3, <1>4, <1>5 DEF slashes

\* Level k has the places with k - 1 separators in front.
LEMMA LevelShape ==
  ASSUME NEW s, Len(s) \in Nat, NEW k \in 1..slashes(s, Len(s)) + 1
  PROVE  /\ from(s, k) \in 0..Len(s) /\ to(s, k) \in from(s, k)..Len(s)
         /\ \A n \in 0..Len(s) : n \in from(s, k)..to(s, k) <=> slashes(s, n) = k - 1
<1> DEFINE at == {n \in 0..Len(s) : slashes(s, n) = k - 1}
           far == {n \in 0..Len(s) : slashes(s, n) >= k - 1}
<1>1. slashes(s, Len(s)) \in Nat /\ slashes(s, 0) = 0
  <2>1. Len(s) \in 0..Len(s) /\ 0 \in 0..Len(s)
    OBVIOUS
  <2> QED  BY <2>1, SlashCount
<1>2. at # {}
  <2>1. Len(s) \in far /\ far \subseteq Nat
    BY <1>1
  <2>2. PICK n \in far : \A m \in far : n <= m
    <3> HIDE DEF far
    <3> QED  BY <2>1, Least
  <2>3. CASE n = 0
    BY <1>1, <2>2, <2>3
  <2>4. CASE n # 0
    <3>1. n - 1 \in 0..Len(s) /\ n - 1 \notin far /\ n - 1 < Len(s)
      BY <2>2, <2>4
    <3>2. slashes(s, n - 1) \in Nat /\ slashes(s, n) \in Nat /\ slashes(s, n) <= slashes(s, n - 1) + 1
      <4>1. (n - 1) + 1 = n /\ n \in 0..Len(s)
        BY <2>4
      <4> HIDE DEF far
      <4>2. slashes(s, n - 1) \in Nat /\ slashes(s, n) \in Nat
        BY <3>1, <4>1, SlashCount
      <4>3. slashes(s, (n - 1) + 1) = IF s[n] = "/" THEN slashes(s, n - 1) + 1 ELSE slashes(s, n - 1)
        BY <3>1, <4>1, SlashCount
      <4> QED  BY <4>1, <4>2, <4>3
    <3>3. slashes(s, n) = k - 1
      BY <1>1, <2>2, <3>1, <3>2
    <3> QED  BY <3>3
  <2> QED  BY <2>3, <2>4
<1>3. at \subseteq Nat /\ at \subseteq 0..Len(s)
  OBVIOUS
<1> HIDE DEF at
<1>4. Min(at) \in at /\ \A n \in at : Min(at) <= n
  BY <1>2, <1>3, MinIs
<1>5. Max(at) \in at /\ \A n \in at : n <= Max(at)
  BY <1>2, <1>3, MaxIs
<1>6. from(s, k) = Min(at) /\ to(s, k) = Max(at)
  BY DEF from, to, at
<1>7. ASSUME NEW n \in 0..Len(s), n \in Min(at)..Max(at) PROVE slashes(s, n) = k - 1
  <2>1. slashes(s, Min(at)) = k - 1 /\ slashes(s, Max(at)) = k - 1 /\ Max(at) \in 0..Len(s) /\ Min(at) \in 0..Len(s)
    BY <1>4, <1>5 DEF at
  <2>2. slashes(s, Min(at)) <= slashes(s, n) /\ slashes(s, n) <= slashes(s, Max(at)) /\ slashes(s, n) \in Nat
    BY <1>7, <2>1, SlashCount
  <2>3. slashes(s, n) <= k - 1 /\ k - 1 <= slashes(s, n) /\ k \in Nat
    BY <1>1, <2>1, <2>2
  <2> QED  BY <2>2, <2>3
<1>8. \A n \in 0..Len(s) : slashes(s, n) = k - 1 => n \in Min(at)..Max(at)
  BY <1>4, <1>5, <1>3 DEF at
<1>9. Min(at) \in 0..Len(s) /\ Max(at) \in Min(at)..Len(s)
  <2>1. Min(at) <= Max(at) /\ Min(at) \in 0..Len(s) /\ Max(at) \in 0..Len(s)
    BY <1>3, <1>4, <1>5
  <2> QED  BY <2>1
<1> QED  BY <1>6, <1>7, <1>8, <1>9

\* What stands at the ends of a level, and where the next one begins.
LEMMA LevelEdges ==
  ASSUME NEW s, Len(s) \in Nat, NEW k \in 1..slashes(s, Len(s)) + 1
  PROVE  /\ \A n \in from(s, k) + 1..to(s, k) : s[n] # "/"
         /\ k = 1 => from(s, k) = 0
         /\ k > 1 => from(s, k) > 0 /\ s[from(s, k)] = "/" /\ from(s, k) = to(s, k - 1) + 1
         /\ k <= slashes(s, Len(s)) => to(s, k) < Len(s) /\ s[to(s, k) + 1] = "/"
         /\ k = slashes(s, Len(s)) + 1 => to(s, k) = Len(s)
<1>1. slashes(s, Len(s)) \in Nat /\ slashes(s, 0) = 0
  <2>1. Len(s) \in 0..Len(s) /\ 0 \in 0..Len(s)
    OBVIOUS
  <2> QED  BY <2>1, SlashCount
<1>2. /\ from(s, k) \in 0..Len(s) /\ to(s, k) \in from(s, k)..Len(s)
      /\ \A n \in 0..Len(s) : n \in from(s, k)..to(s, k) <=> slashes(s, n) = k - 1
  BY LevelShape
<1>3. ASSUME NEW n \in from(s, k) + 1..to(s, k) PROVE s[n] # "/"
  <2>1. n - 1 \in 0..Len(s) /\ n \in 0..Len(s) /\ (n - 1) + 1 = n /\ n - 1 < Len(s)
    BY <1>2
  <2>2. slashes(s, n) = k - 1 /\ slashes(s, n - 1) = k - 1
    BY <1>2, <2>1
  <2> QED  BY <2>1, <2>2, SlashCount
<1>4. k = 1 => from(s, k) = 0
  BY <1>1, <1>2
<1>5. ASSUME k > 1 PROVE from(s, k) > 0 /\ s[from(s, k)] = "/" /\ from(s, k) = to(s, k - 1) + 1
  <2>1. from(s, k) > 0 /\ slashes(s, from(s, k)) = k - 1
    BY <1>1, <1>2, <1>5
  <2>2. from(s, k) - 1 \in 0..Len(s) /\ (from(s, k) - 1) + 1 = from(s, k) /\ from(s, k) - 1 < Len(s)
    BY <1>2, <2>1
  <2>3. slashes(s, from(s, k) - 1) # k - 1
    BY <1>2, <2>2
  <2>4. s[from(s, k)] = "/" /\ slashes(s, from(s, k) - 1) = k - 2
    <3>1. slashes(s, from(s, k) - 1) \in Nat
      BY <2>2, SlashCount
    <3>2. slashes(s, from(s, k)) = IF s[from(s, k)] = "/" THEN slashes(s, from(s, k) - 1) + 1 ELSE slashes(s, from(s, k) - 1)
      BY <2>2, SlashCount
    <3> QED  BY <2>1, <2>3, <3>1, <3>2
  <2>5. k - 1 \in 1..slashes(s, Len(s)) + 1
    BY <1>1, <1>5
  <2>6. /\ to(s, k - 1) \in 0..Len(s) /\ from(s, k - 1) \in 0..Len(s) /\ from(s, k - 1) <= to(s, k - 1)
        /\ \A n \in 0..Len(s) : n \in from(s, k - 1)..to(s, k - 1) <=> slashes(s, n) = (k - 1) - 1
    BY <2>5, LevelShape
  <2>7. from(s, k) - 1 <= to(s, k - 1)
    BY <2>2, <2>4, <2>6
  <2>8. to(s, k - 1) < from(s, k)
    <3>1. slashes(s, to(s, k - 1)) = k - 2
      BY <2>6
    <3>2. CASE from(s, k) <= to(s, k - 1)
      <4>1. slashes(s, from(s, k)) <= slashes(s, to(s, k - 1))
        BY <1>2, <2>6, <3>2, SlashCount
      <4> QED  BY <2>1, <3>1, <4>1
    <3> QED  BY <1>2, <2>6, <3>2
  <2> QED  BY <1>2, <2>1, <2>4, <2>6, <2>7, <2>8
<1>6. ASSUME k <= slashes(s, Len(s)) PROVE to(s, k) < Len(s) /\ s[to(s, k) + 1] = "/"
  <2>1. slashes(s, to(s, k)) = k - 1 /\ to(s, k) # Len(s)
    BY <1>1, <1>2, <1>6
  <2>2. to(s, k) + 1 \in 0..Len(s) /\ to(s, k) < Len(s) /\ to(s, k) \in 0..Len(s)
    BY <1>2, <2>1
  <2>3. slashes(s, to(s, k) + 1) # k - 1
    BY <1>2, <2>2
  <2> QED  BY <2>1, <2>2, <2>3, SlashCount
<1>7. k = slashes(s, Len(s)) + 1 => to(s, k) = Len(s)
  BY <1>1, <1>2
<1> QED  BY <1>3, <1>4, <1>5, <1>6, <1>7

\* Split, level by level.
LEMMA SplitType ==
  ASSUME NEW C, NEW s \in Seq(C)
  PROVE  /\ Split(s) \in Seq(Seq(C)) /\ Len(Split(s)) = slashes(s, Len(s)) + 1
         /\ Len(Split(s)) \in Nat \ {0}
         /\ \A k \in 1..Len(Split(s)) : /\ Split(s)[k] = SubSeq(s, from(s, k) + 1, to(s, k))
                                        /\ Len(Split(s)[k]) = to(s, k) - from(s, k)
                                        /\ \A j \in 1..Len(Split(s)[k]) : Split(s)[k][j] = s[from(s, k) + j]
<1>1. slashes(s, Len(s)) \in Nat
  <2>1. Len(s) \in 0..Len(s)
    OBVIOUS
  <2> QED  BY <2>1, SlashCount
<1> DEFINE n == slashes(s, Len(s)) + 1
<1>2. ASSUME NEW k \in 1..n
      PROVE  /\ SubSeq(s, from(s, k) + 1, to(s, k)) \in Seq(C)
             /\ Len(SubSeq(s, from(s, k) + 1, to(s, k))) = to(s, k) - from(s, k)
             /\ \A j \in 1..to(s, k) - from(s, k) : SubSeq(s, from(s, k) + 1, to(s, k))[j] = s[from(s, k) + j]
  <2>1. from(s, k) \in 0..Len(s) /\ to(s, k) \in from(s, k)..Len(s)
    BY LevelShape
  <2> QED  BY <2>1
<1>3. Split(s) = [k \in 1..n |-> SubSeq(s, from(s, k) + 1, to(s, k))]
  BY DEF Split
<1> HIDE DEF n
<1>4. n \in Nat \ {0}
  BY <1>1 DEF n
<1>5. Split(s) \in Seq(Seq(C)) /\ Len(Split(s)) = n
  <2>1. Split(s) \in [1..n -> Seq(C)]
    BY <1>2, <1>3
  <2> QED  BY <1>4, <2>1
<1>6. ASSUME NEW k \in 1..n
      PROVE  /\ Split(s)[k] = SubSeq(s, from(s, k) + 1, to(s, k))
             /\ Len(Split(s)[k]) = to(s, k) - from(s, k)
             /\ \A j \in 1..Len(Split(s)[k]) : Split(s)[k][j] = s[from(s, k) + j]
  BY <1>2, <1>3
<1> QED  BY <1>4, <1>5, <1>6 DEF n

-----------------------------------------------------------------------------
(* match.                                                                  *)

\* What the loop of levels says: every level is named or left open.
Open(route, topic, i, j) == \A k \in i..j : route[k] \in {Plus, topic[k]}

\* MQTT's rule for the levels from i.
CoversFrom(route, topic, i) ==
  \/ i > Len(route) /\ i > Len(topic)
  \/ i <= Len(route) /\ i > Len(topic) /\ route[i] = Hash
  \/ /\ i <= Len(route) /\ i <= Len(topic)
     /\ \/ Len(route) = Len(topic) /\ Open(route, topic, i, Len(route))
        \/ /\ route[Len(route)] = Hash /\ Len(route) - 1 <= Len(topic)
           /\ Open(route, topic, i, Len(route) - 1)

\* CoversFrom obeys the recursion of match.
LEMMA CoversStep ==
  ASSUME NEW C, NEW route \in Seq(C), NEW topic \in Seq(C), Plus # Hash,
         \A i \in 1..Len(route) : route[i] = Hash => i = Len(route),
         NEW i \in 1..Len(route) + 1
  PROVE  CoversFrom(route, topic, i) =
          CASE i > Len(route) -> i > Len(topic)
            [] i <= Len(route) /\ i > Len(topic) -> route[i] = Hash
            [] OTHER -> route[i] = Hash \/ (route[i] \in {Plus, topic[i]} /\ CoversFrom(route, topic, i + 1))
<1>1. CASE i > Len(route) \/ i > Len(topic)
  <2>1. CASE i > Len(route)
    <3>1. CoversFrom(route, topic, i) \in BOOLEAN /\ (CoversFrom(route, topic, i) <=> i > Len(topic))
      BY <2>1 DEF CoversFrom
    <3> QED  BY <2>1, <3>1
  <2>2. CASE i <= Len(route) /\ i > Len(topic)
    <3>1. CoversFrom(route, topic, i) \in BOOLEAN /\ (CoversFrom(route, topic, i) <=> route[i] = Hash)
      BY <2>2 DEF CoversFrom
    <3> QED  BY <2>2, <3>1
  <2> QED  BY <1>1, <2>1, <2>2
<1>2. CASE i <= Len(route) /\ i <= Len(topic)
  <2>0. CoversFrom(route, topic, i) \in BOOLEAN /\ CoversFrom(route, topic, i + 1) \in BOOLEAN
    BY DEF CoversFrom, Open
  <2>1. CoversFrom(route, topic, i) <=>
           \/ Len(route) = Len(topic) /\ Open(route, topic, i, Len(route))
           \/ /\ route[Len(route)] = Hash /\ Len(route) - 1 <= Len(topic)
              /\ Open(route, topic, i, Len(route) - 1)
    BY <1>2 DEF CoversFrom
  <2>2. CASE route[i] = Hash
    <3>1. i = Len(route) /\ Len(route) - 1 <= Len(topic)
      BY <1>2, <2>2
    <3>2. Open(route, topic, i, Len(route) - 1)
      BY <3>1 DEF Open
    <3> QED  BY <1>2, <2>0, <2>1, <2>2, <3>1, <3>2
  <2>3. CASE route[i] # Hash
    <3>1. Open(route, topic, i, Len(route)) <=> route[i] \in {Plus, topic[i]} /\ Open(route, topic, i + 1, Len(route))
      BY <1>2 DEF Open
    <3>2. i < Len(route) => (Open(route, topic, i, Len(route) - 1) <=> route[i] \in {Plus, topic[i]} /\ Open(route, topic, i + 1, Len(route) - 1))
      BY <1>2 DEF Open
    <3>3. CASE i = Len(route)
      <4>1. CoversFrom(route, topic, i + 1) <=> i + 1 > Len(topic)
        BY <3>3 DEF CoversFrom
      <4>2. Open(route, topic, i + 1, Len(route))
        BY <3>3 DEF Open
      <4> QED  BY <1>2, <2>0, <2>1, <2>3, <3>1, <3>3, <4>1, <4>2
    <3>4. CASE i < Len(route) /\ i = Len(topic)
      <4>1. CoversFrom(route, topic, i + 1) <=> route[i + 1] = Hash
        BY <3>4 DEF CoversFrom
      <4>2. Len(route) - 1 <= Len(topic) <=> i + 1 = Len(route)
        BY <3>4
      <4>3. i + 1 = Len(route) => Open(route, topic, i + 1, Len(route) - 1)
        BY <3>4 DEF Open
      <4> QED  BY <1>2, <2>0, <2>1, <2>3, <3>2, <3>4, <4>1, <4>2, <4>3
    <3>5. CASE i < Len(route) /\ i < Len(topic)
      <4>1. CoversFrom(route, topic, i + 1) <=>
           \/ Len(route) = Len(topic) /\ Open(route, topic, i + 1, Len(route))
           \/ /\ route[Len(route)] = Hash /\ Len(route) - 1 <= Len(topic)
              /\ Open(route, topic, i + 1, Len(route) - 1)
        BY <3>5 DEF CoversFrom
      <4> QED  BY <1>2, <2>0, <2>1, <2>3, <3>1, <3>2, <3>5, <4>1
    <3> QED  BY <1>2, <3>3, <3>4, <3>5
  <2> QED  BY <2>2, <2>3
<1> QED  BY <1>1, <1>2

\* So match is CoversFrom: there is one function that does, from the end backwards.
LEMMA MatchIs ==
  ASSUME NEW C, NEW route \in Seq(C), NEW topic \in Seq(C), Plus # Hash,
         \A i \in 1..Len(route) : route[i] = Hash => i = Len(route)
  PROVE  match(route, topic) = CoversFrom(route, topic, 1)
<1> DEFINE n == Len(route) + 1
           F(m) == [i \in 1..n |->
                      CASE i > Len(route) -> i > Len(topic)
                        [] i <= Len(route) /\ i > Len(topic) -> route[i] = Hash
                        [] OTHER -> route[i] = Hash \/ (route[i] \in {Plus, topic[i]} /\ m[i + 1])]
           g == [i \in 1..n |-> CoversFrom(route, topic, i)]
           f == CHOOSE m : m = F(m)
<1>0. Len(route) \in Nat /\ Len(topic) \in Nat
  OBVIOUS
<1>1. match(route, topic) = f[1]
  BY DEF match
<1>2. g = F(g)
  <2>1. ASSUME NEW i \in 1..n PROVE g[i] = F(g)[i]
    <3>1. CASE i = n
      BY <3>1, CoversStep
    <3>2. CASE i # n
      <4>1. i + 1 \in 1..n
        BY <3>2
      <4>2. g[i + 1] = CoversFrom(route, topic, i + 1)
        BY <4>1
      <4> QED  BY <4>2, CoversStep
    <3> QED  BY <3>1, <3>2
  <2> QED  BY <2>1
<1>3. f = F(f)
  <2> HIDE DEF F, g
  <2> QED  BY <1>2
<1>4. \A d \in 0..Len(route) : f[n - d] = g[n - d]
  <2> DEFINE S == {d \in 0..Len(route) : f[n - d] = g[n - d]}
  <2>1. 0 \in S
    <3>1. n > Len(route) /\ n \in 1..n /\ n - 0 = n /\ 0 \in 0..Len(route)
      OBVIOUS
    <3>2. F(f)[n] = F(g)[n]
      BY <3>1
    <3> HIDE DEF F, f, g, n
    <3> QED  BY <1>2, <1>3, <3>1, <3>2
  <2>2. ASSUME NEW d \in 0..Len(route) - 1, d \in S PROVE d + 1 \in S
    <3>1. n - (d + 1) \in 1..n /\ (n - (d + 1)) + 1 = n - d
      OBVIOUS
    <3>2. F(f)[n - (d + 1)] = F(g)[n - (d + 1)]
      <4>1. f[n - d] = g[n - d]
        BY <2>2
      <4> HIDE DEF f, g, n
      <4> QED  BY <3>1, <4>1
    <3> HIDE DEF F, f, g, n
    <3> QED  BY <1>2, <1>3, <3>2
  <2> HIDE DEF S
  <2>3. \A d \in 0..Len(route) - 1 : d \in S => d + 1 \in S
    BY <2>2
  <2>4. \A d \in 0..Len(route) : d \in S
    BY <1>0, <2>1, <2>3, UpTo
  <2> QED  BY <2>4 DEF S
<1>5. f[1] = g[1] /\ 1 \in 1..n
  <2>1. Len(route) \in 0..Len(route) /\ n - Len(route) = 1 /\ 1 \in 1..n
    OBVIOUS
  <2> HIDE DEF f, g, n
  <2> QED  BY <1>4, <2>1
<1> QED  BY <1>1, <1>5

-----------------------------------------------------------------------------
(* The inductive invariant: what is stored, shown or panicked over is what *)
(* match, Parse and unmarshal say of the message.                          *)

RowTypeOK ==
  /\ filter \in WatchFilters
  /\ arrived \in [topic : RowTopics, payload : Payloads, dup : BOOLEAN]
  /\ outcome \in {"none", "subscribed", "stuck", "shown", "panic", "stored"}

RowInv ==
  /\ RowTypeOK
  /\ outcome \notin {"none", "stuck"} => validTopic(filter)
  /\ outcome \in {"stored", "panic"} => routeMatches(filter, arrived.topic)
  /\ outcome = "shown" /\ ~arrived.dup => ~routeMatches(filter, arrived.topic)
  /\ outcome = "stored" =>
       /\ ~parsePanics(filter) /\ unmarshal(arrived.payload) # "error"
       /\ row = [topic |-> arrived.topic, params |-> Params(filter, arrived.topic),
                 value |-> unmarshal(arrived.payload)]
  /\ outcome = "panic" => parsePanics(filter) \/ unmarshal(arrived.payload) = "error"

\* It holds at first.
LEMMA RowInvInit == RowInit => RowInv
  BY DEF RowInit, RowInv, RowTypeOK

\* A step keeps it.
LEMMA RowInvStep == RowInv /\ [RowNext]_rowVars => RowInv'
<1> SUFFICES ASSUME RowInv, [RowNext]_rowVars PROVE RowInv'
  OBVIOUS
<1>1. CASE Watch
  BY <1>1 DEF RowInv, RowTypeOK, Watch
<1>2. CASE Unwatched
  BY <1>2 DEF RowInv, RowTypeOK, Unwatched
<1>3. CASE Watched
  <2>1. CASE arrived.dup
    BY <1>3, <2>1 DEF RowInv, RowTypeOK, Watched
  <2>2. CASE ~arrived.dup /\ (parsePanics(filter) \/ unmarshal(arrived.payload) = "error")
    BY <1>3, <2>2 DEF RowInv, RowTypeOK, Watched
  <2>3. CASE ~arrived.dup /\ ~(parsePanics(filter) \/ unmarshal(arrived.payload) = "error")
    BY <1>3, <2>3 DEF RowInv, RowTypeOK, Watched
  <2> QED  BY <2>1, <2>2, <2>3
<1>4. CASE UNCHANGED rowVars
  BY <1>4 DEF RowInv, RowTypeOK, rowVars
<1> QED  BY <1>1, <1>2, <1>3, <1>4 DEF RowNext

\* So it holds always.
LEMMA RowInvariance == RowSpec => []RowInv
  BY RowInvInit, RowInvStep, PTL DEF RowSpec

\* The route of a valid filter takes the topics that the filter covers.
LEMMA MatchCovers ==
  ASSUME NEW f \in Seq(Character), NEW t \in Seq(Character), validTopic(f)
  PROVE  routeMatches(f, t) <=> Covers(f, t)
<1> DEFINE fs == Split(f)
           ts == Split(t)
<1>1. fs \in Seq(Seq(Character)) /\ ts \in Seq(Seq(Character)) /\ Len(fs) \in Nat \ {0} /\ Len(ts) \in Nat \ {0}
  BY SplitType
<1>2. \A i \in 1..Len(fs) : fs[i] = Hash => i = Len(fs)
  BY <1>1 DEF validTopic
<1>3. Plus # Hash
  BY DEF Plus, Hash
<1> HIDE DEF fs, ts
<1>4. match(fs, ts) = CoversFrom(fs, ts, 1)
  BY <1>1, <1>2, <1>3, MatchIs
<1>5. Last(fs) = fs[Len(fs)]
  BY DEF Last
<1>6. CoversFrom(fs, ts, 1) <=>
        \/ Len(fs) = Len(ts) /\ \A i \in 1..Len(fs) : fs[i] \in {Plus, ts[i]}
        \/ Last(fs) = Hash /\ Len(fs) - 1 <= Len(ts) /\ \A i \in 1..Len(fs) - 1 : fs[i] \in {Plus, ts[i]}
  <2>1. 1 <= Len(fs) /\ 1 <= Len(ts)
    BY <1>1
  <2>2. \A n \in Nat : Open(fs, ts, 1, n) <=> \A i \in 1..n : fs[i] \in {Plus, ts[i]}
    BY DEF Open
  <2>3. CoversFrom(fs, ts, 1) <=>
           \/ Len(fs) = Len(ts) /\ Open(fs, ts, 1, Len(fs))
           \/ fs[Len(fs)] = Hash /\ Len(fs) - 1 <= Len(ts) /\ Open(fs, ts, 1, Len(fs) - 1)
    BY <1>1, <2>1 DEF CoversFrom
  <2>4. Len(fs) \in Nat /\ Len(fs) - 1 \in Nat
    BY <1>1
  <2> QED  BY <1>5, <2>2, <2>3, <2>4
<1>7. Covers(f, t) <=> CoversFrom(fs, ts, 1)
  BY <1>6 DEF Covers, fs, ts
<1>8. f = t => CoversFrom(fs, ts, 1)
  <2> SUFFICES ASSUME f = t PROVE CoversFrom(fs, ts, 1)
    OBVIOUS
  <2>1. fs = ts
    BY DEF fs, ts
  <2> QED  BY <2>1, <1>6
<1>9. routeMatches(f, t) <=> f = t \/ CoversFrom(fs, ts, 1)
  BY <1>4 DEF routeMatches, fs, ts
<1> QED  BY <1>7, <1>8, <1>9

\* The recursive match of the router takes exactly the topics that MQTT says the watched
\* filter covers: nothing else is stored, and nothing covered is only shown.
THEOREM MatchIsMqtt == RowSpec => []WatchedIsCovered
<1>1. RowInv => WatchedIsCovered
  <2> SUFFICES ASSUME RowInv PROVE WatchedIsCovered
    OBVIOUS
  <2>1. filter \in Seq(Character) /\ arrived.topic \in Seq(Character)
    <3>1. filter \in WatchFilters /\ arrived.topic \in RowTopics
      BY DEF RowInv, RowTypeOK
    <3> QED  BY <3>1, RowsAssumption
  <2>2. CASE outcome \in {"stored", "panic"}
    BY <2>1, <2>2, MatchCovers DEF RowInv, WatchedIsCovered
  <2>3. CASE outcome = "shown" /\ ~arrived.dup
    BY <2>1, <2>3, MatchCovers DEF RowInv, WatchedIsCovered
  <2> QED  BY <2>2, <2>3 DEF WatchedIsCovered
<1> QED  BY <1>1, RowInvariance, PTL

-----------------------------------------------------------------------------
(* Parse: tokens, bytes and slices.                                        *)

\* Without wide characters the offsets in bytes are places.
LEMMA BytesPlain ==
  ASSUME NEW s, NEW n \in Nat, \A i \in 1..n : s[i] # "wide"
  PROVE  bytes(s, n) = n
<1>1. {i \in 1..n : s[i] = "wide"} = {}
  OBVIOUS
<1> QED  BY <1>1, FS_EmptySet DEF bytes

\* A piece of a sequence, character by character.
LEMMA PieceIs ==
  ASSUME NEW C, NEW s \in Seq(C), NEW t \in Seq(C), NEW d \in Nat, d + Len(t) <= Len(s),
         \A j \in 1..Len(t) : t[j] = s[d + j]
  PROVE  SubSeq(s, d + 1, d + Len(t)) = t
<1> DEFINE u == SubSeq(s, d + 1, d + Len(t))
<1>1. Len(t) \in Nat /\ Len(s) \in Nat
  OBVIOUS
<1>2. u \in Seq(C) /\ Len(u) = Len(t) /\ \A j \in 1..Len(t) : u[j] = s[d + j]
  BY <1>1
<1>3. u = t
  <2> HIDE DEF u
  <2> QED  BY <1>2
<1> QED  BY <1>3

\* One slice of Parse's: the token is found, at the latest where its level is.
LEMMA SliceFinds ==
  ASSUME NEW s \in Seq(Character), \A i \in 1..Len(s) : s[i] # "wide",
         NEW k \in 1..Len(Split(s)), NEW p \in 0..from(s, k)
  PROVE  index(SubSeq(s, p + 1, Len(s)), Split(s)[k]) \in 0..from(s, k) - p
<1>1. /\ Split(s)[k] = SubSeq(s, from(s, k) + 1, to(s, k))
      /\ Len(Split(s)[k]) = to(s, k) - from(s, k)
      /\ \A j \in 1..Len(Split(s)[k]) : Split(s)[k][j] = s[from(s, k) + j]
      /\ k \in 1..slashes(s, Len(s)) + 1 /\ Split(s)[k] \in Seq(Character)
  BY SplitType
<1>2. from(s, k) \in 0..Len(s) /\ to(s, k) \in from(s, k)..Len(s)
  BY <1>1, LevelShape
<1> DEFINE sub == SubSeq(s, p + 1, Len(s))
           token == Split(s)[k]
           found == {i \in 0..Len(sub) - Len(token) : SubSeq(sub, i + 1, i + Len(token)) = token}
           d == from(s, k) - p
<1>3. sub \in Seq(Character) /\ Len(sub) = Len(s) - p /\ \A j \in 1..Len(sub) : sub[j] = s[p + j]
  BY <1>2
<1> HIDE DEF sub
<1>4. d \in Nat /\ d + Len(token) <= Len(sub) /\ Len(token) \in Nat /\ Len(sub) \in Nat /\ token \in Seq(Character)
  <2>1. /\ Len(s) \in Nat /\ from(s, k) \in Nat /\ to(s, k) \in Nat /\ p \in Nat
        /\ p <= from(s, k) /\ from(s, k) <= to(s, k) /\ to(s, k) <= Len(s)
    BY <1>2
  <2>2. Len(token) = to(s, k) - from(s, k) /\ Len(sub) = Len(s) - p /\ token \in Seq(Character)
    BY <1>1, <1>3
  <2> HIDE DEF token
  <2> QED  BY <2>1, <2>2
<1>5. \A j \in 1..Len(token) : token[j] = sub[d + j]
  <2>1. ASSUME NEW j \in 1..Len(token) PROVE d + j \in 1..Len(sub) /\ p + (d + j) = from(s, k) + j
    <3>1. from(s, k) \in Nat /\ p \in Nat
      BY <1>2
    <3> HIDE DEF token
    <3> QED  BY <1>4, <3>1
  <2> QED  BY <1>1, <1>3, <2>1
<1> HIDE DEF token
<1>6. SubSeq(sub, d + 1, d + Len(token)) = token
  <2> HIDE DEF d
  <2> QED  BY <1>3, <1>4, <1>5, PieceIs
<1>7. d \in found /\ found \subseteq 0..Len(sub)
  <2>1. d \in 0..Len(sub) - Len(token)
    BY <1>4
  <2>2. 0..Len(sub) - Len(token) \subseteq 0..Len(sub)
    BY <1>4
  <2> HIDE DEF d
  <2> QED  BY <1>6, <2>1, <2>2
<1>8. index(sub, token) = IF found = {} THEN -1 ELSE bytes(sub, Min(found))
  BY DEF index
<1> HIDE DEF found
<1>9. Min(found) \in 0..Len(sub) /\ Min(found) <= d
  <2>1. found \subseteq Nat /\ found # {}
    BY <1>4, <1>7
  <2> HIDE DEF d
  <2> QED  BY <1>7, <2>1, MinIs
<1>10. bytes(sub, Min(found)) = Min(found)
  <2>1. ASSUME NEW j \in 1..Min(found) PROVE sub[j] # "wide"
    <3>1. j \in 1..Len(sub) /\ p + j \in 1..Len(s)
      BY <1>2, <1>3, <1>9
    <3> QED  BY <1>3, <3>1
  <2> QED  BY <1>9, <2>1, BytesPlain
<1>11. index(sub, token) \in 0..d
  <2> HIDE DEF d
  <2> QED  BY <1>4, <1>7, <1>8, <1>9, <1>10
<1> QED  BY <1>11 DEF sub, token

\* Parse of a filter without wide characters never slices out of range: what is found
\* is never behind the level it is looked for.
LEMMA SliceStays ==
  ASSUME NEW s \in Seq(Character), \A i \in 1..Len(s) : s[i] # "wide"
  PROVE  slice(s) \in Nat
<1> DEFINE n == Len(Split(s))
           V == -1..Len(s)
           found(k, r) == index(SubSeq(s, r + 1, Len(s)), Split(s)[k])
           after(k, r) == IF r = -1 \/ found(k, r) \notin 0..Len(s) - r THEN -1 ELSE r + found(k, r)
           F(m) == [k \in 0..n |-> IF k = 0 THEN 0 ELSE after(k, m[k - 1])]
           D == [k \in 1..n |-> [r \in V |-> after(k, r)]]
           f == CHOOSE m : m = F(m)
<1>1. n \in Nat \ {0} /\ n = slashes(s, Len(s)) + 1 /\ Len(s) \in Nat
  BY SplitType
<1>2. slice(s) = f[n]
  BY DEF slice
<1>3. \A k \in 1..n : \A r \in V : after(k, r) \in V
  <2> SUFFICES ASSUME NEW k \in 1..n, NEW r \in V PROVE after(k, r) \in V
    OBVIOUS
  <2>1. CASE r = -1 \/ found(k, r) \notin 0..Len(s) - r
    BY <1>1, <2>1
  <2>2. CASE ~(r = -1 \/ found(k, r) \notin 0..Len(s) - r)
    <3>1. r \in 0..Len(s) /\ found(k, r) \in 0..Len(s) - r
      BY <2>2
    <3> DEFINE i == found(k, r)
    <3>2. after(k, r) = r + i
      BY <2>2
    <3> HIDE DEF found, after, i
    <3>3. i \in 0..Len(s) - r
      BY <3>1 DEF i
    <3> QED  BY <1>1, <3>1, <3>2, <3>3
  <2> QED  BY <2>1, <2>2
<1> HIDE DEF found, after
<1>4. f = F(f)
  <2>1. D \in [1..n -> [V -> V]] /\ 0 \in V
    BY <1>1, <1>3
  <2>2. \A k \in 1..n : \A r \in V : D[k][r] = after(k, r)
    OBVIOUS
  <2> HIDE DEF D, V
  <2>3. PICK g \in [0..n -> V] : g[0] = 0 /\ \A k \in 1..n : g[k] = D[k][g[k - 1]]
    <3>1. n \in Nat
      BY <1>1
    <3> HIDE DEF n
    <3>2. Runs(n, V, 0, D) # {}
      BY <2>1, <3>1, Recursion
    <3> QED  BY <3>2 DEF Runs
  <2>4. g = F(g)
    <3>1. \A k \in 1..n : g[k] = after(k, g[k - 1])
      <4>1. \A k \in 1..n : k - 1 \in 0..n
        BY <1>1
      <4> QED  BY <2>2, <2>3, <4>1
    <3>2. \A k \in 0..n : k # 0 => k \in 1..n
      BY <1>1
    <3> HIDE DEF n
    <3>3. \A k \in 0..n : g[k] = IF k = 0 THEN 0 ELSE after(k, g[k - 1])
      BY <2>3, <3>1, <3>2
    <3> QED  BY <2>3, <3>3
  <2> HIDE DEF F
  <2> QED  BY <2>4
<1>5. f[0] = 0 /\ \A k \in 1..n : f[k] = after(k, f[k - 1])
  <2>1. 0 \in 0..n /\ \A k \in 1..n : k \in 0..n /\ k # 0
    BY <1>1
  <2>2. F(f)[0] = 0 /\ \A k \in 1..n : F(f)[k] = after(k, f[k - 1])
    <3> HIDE DEF f, n
    <3> QED  BY <2>1
  <2> HIDE DEF F, f
  <2> QED  BY <1>4, <2>2
<1> HIDE DEF f, F
\* The next level is still to come, where the last token was found.
<1>6. ASSUME NEW k \in 1..n, f[k - 1] \in 0..from(s, k) PROVE f[k] \in 0..from(s, k)
  <2> DEFINE p == f[k - 1]
             i == found(k, p)
  <2>1. i \in 0..from(s, k) - p
    BY <1>6, SliceFinds DEF found
  <2>2. from(s, k) \in 0..Len(s)
    BY <1>1, LevelShape
  <2>3. f[k] = IF p = -1 \/ i \notin 0..Len(s) - p THEN -1 ELSE p + i
    BY <1>5 DEF after
  <2>4. p \in 0..from(s, k)
    BY <1>6
  <2> HIDE DEF p, i
  <2> QED  BY <1>1, <2>1, <2>2, <2>3, <2>4
<1>7. ASSUME NEW k \in 1..n-1 PROVE from(s, k) \in Nat /\ from(s, k + 1) \in Nat /\ from(s, k) <= from(s, k + 1)
  <2>1. k \in 1..slashes(s, Len(s)) + 1 /\ k + 1 \in 1..slashes(s, Len(s)) + 1 /\ k + 1 > 1 /\ (k + 1) - 1 = k
    BY <1>1
  <2>2. from(s, k + 1) = to(s, (k + 1) - 1) + 1
    BY <2>1, LevelEdges
  <2>3. from(s, k) \in 0..Len(s) /\ to(s, k) \in from(s, k)..Len(s)
    BY <2>1, LevelShape
  <2>4. from(s, k + 1) = to(s, k) + 1
    BY <2>1, <2>2
  <2> QED  BY <1>1, <2>3, <2>4
<1>8. f[n - 1] \in 0..from(s, n)
  <2> DEFINE S == {k \in 0..n-1 : f[k] \in 0..from(s, k + 1)}
  <2>1. 0 \in S
    <3>1. from(s, 1) = 0
      BY <1>1, LevelEdges
    <3> QED  BY <1>1, <1>5, <3>1
  <2>2. ASSUME NEW k \in 0..(n-1)-1, k \in S PROVE k + 1 \in S
    <3>1. k + 1 \in 1..n-1 /\ k + 1 \in 1..n /\ (k + 1) - 1 = k /\ k + 1 \in 0..n-1
      BY <1>1
    <3>2. f[k] \in 0..from(s, k + 1)
      BY <2>2
    <3>3. f[k + 1] \in 0..from(s, k + 1)
      BY <1>6, <3>1, <3>2
    <3>4. f[k + 1] \in 0..from(s, (k + 1) + 1)
      BY <1>7, <3>1, <3>3
    <3> QED  BY <3>1, <3>4
  <2>3. \A k \in 0..(n-1)-1 : k \in S => k + 1 \in S
    BY <2>2
  <2> HIDE DEF S, n
  <2>4. n - 1 \in Nat /\ n - 1 \in 0..n-1 /\ (n - 1) + 1 = n
    BY <1>1
  <2>5. n - 1 \in S
    <3>1. \A k \in 0..n-1 : k \in S
      BY <2>1, <2>3, <2>4, UpTo
    <3> QED  BY <2>4, <3>1
  <2> QED  BY <2>4, <2>5 DEF S
<1>9. f[n] \in 0..from(s, n)
  BY <1>1, <1>6, <1>8
<1>10. from(s, n) \in Nat
  BY <1>1, LevelShape
<1> QED  BY <1>2, <1>9, <1>10

\* A payload is stored as what it is, and the handler panics for the named payloads and
\* filters only.
THEOREM PayloadsStored == RowSpec => []PayloadsKept
<1>1. RowInv => PayloadsKept
  <2> SUFFICES ASSUME RowInv PROVE PayloadsKept
    OBVIOUS
  <2>0. filter \in Seq(Character) /\ arrived.payload \in Payloads
    <3>1. filter \in WatchFilters /\ arrived \in [topic : RowTopics, payload : Payloads, dup : BOOLEAN]
      BY DEF RowInv, RowTypeOK
    <3> QED  BY <3>1, RowsAssumption
  <2>1. CASE outcome = "stored"
    <3>1. /\ unmarshal(arrived.payload) # "error"
          /\ row.topic = arrived.topic /\ row.value = unmarshal(arrived.payload)
      BY <2>1 DEF RowInv
    <3> HIDE DEF RowInv
    <3> QED  BY <2>0, <2>1, <3>1 DEF PayloadsKept, Payloads, unmarshal, parse
  <2>2. CASE outcome = "panic"
    <3>1. parsePanics(filter) \/ unmarshal(arrived.payload) = "error"
      BY <2>2 DEF RowInv
    <3>2. unmarshal(arrived.payload) = "error" => arrived.payload \in {"quoted", "pretty", "version", "braces"}
      BY <2>0 DEF Payloads, unmarshal, parse
    <3>3. parsePanics(filter) => Contains(filter, "wide") \/ Contains(filter, "(")
      <4> SUFFICES ASSUME ~Contains(filter, "wide"), parsePanics(filter) PROVE Contains(filter, "(")
        OBVIOUS
      <4>1. \A i \in 1..Len(filter) : filter[i] # "wide"
        BY DEF Contains
      <4>2. slice(filter) \in Nat
        BY <2>0, <4>1, SliceStays
      <4> QED  BY <4>2 DEF parsePanics
    <3> QED  BY <2>2, <3>1, <3>2, <3>3 DEF PayloadsKept
  <2>3. CASE outcome \notin {"stored", "panic"}
    BY <2>3 DEF PayloadsKept
  <2> QED  BY <2>1, <2>2, <2>3
<1> QED  BY <1>1, RowInvariance, PTL

-----------------------------------------------------------------------------
(* Equal levels are equal strings.                                         *)

\* If two strings are the same up to a level and have the same level, they are the same
\* up to its end.
LEMMA LevelAlong ==
  ASSUME NEW f \in Seq(Character), NEW t \in Seq(Character),
         NEW k \in 1..Len(Split(f)), k \in 1..Len(Split(t)),
         from(f, k) = from(t, k), \A j \in 1..from(f, k) : f[j] = t[j], Split(f)[k] = Split(t)[k]
  PROVE  to(f, k) = to(t, k) /\ \A j \in 1..to(f, k) : f[j] = t[j]
<1> DEFINE P == from(f, k)
           level == Split(f)[k]
<1>1. /\ P \in Nat /\ to(f, k) \in Nat /\ to(t, k) \in Nat /\ P <= to(f, k)
      /\ Len(level) = to(f, k) - P /\ Len(level) = to(t, k) - P
      /\ \A j \in 1..Len(level) : level[j] = f[P + j] /\ level[j] = t[P + j]
  <2>1. k \in 1..slashes(f, Len(f)) + 1 /\ k \in 1..slashes(t, Len(t)) + 1
    BY SplitType
  <2>2. from(f, k) \in 0..Len(f) /\ to(f, k) \in from(f, k)..Len(f) /\ to(t, k) \in from(t, k)..Len(t) /\ from(t, k) \in 0..Len(t)
    BY <2>1, LevelShape
  <2>3. /\ Len(Split(f)[k]) = to(f, k) - from(f, k)
        /\ \A j \in 1..Len(Split(f)[k]) : Split(f)[k][j] = f[from(f, k) + j]
    BY SplitType
  <2>4. /\ Len(Split(t)[k]) = to(t, k) - from(t, k)
        /\ \A j \in 1..Len(Split(t)[k]) : Split(t)[k][j] = t[from(t, k) + j]
    BY SplitType
  <2> QED  BY <2>2, <2>3, <2>4
<1> HIDE DEF level
<1>2. to(f, k) = to(t, k)
  BY <1>1
<1>3. ASSUME NEW j \in 1..to(f, k) PROVE f[j] = t[j]
  <2>1. CASE j <= P
    BY <2>1, <1>1
  <2>2. CASE j > P
    <3>1. j - P \in 1..Len(level) /\ P + (j - P) = j
      BY <1>1, <2>2
    <3> QED  BY <1>1, <3>1
  <2> QED  BY <1>1, <2>1, <2>2
<1> QED  BY <1>2, <1>3

\* Strings with the same first n levels are the same up to level n + 1.
LEMMA SamePrefix ==
  ASSUME NEW f \in Seq(Character), NEW t \in Seq(Character), NEW n \in Nat,
         n < Len(Split(f)), n < Len(Split(t)), \A k \in 1..n : Split(f)[k] = Split(t)[k]
  PROVE  from(f, n + 1) = from(t, n + 1) /\ \A j \in 1..from(f, n + 1) : f[j] = t[j]
<1> DEFINE Same(k) == from(f, k + 1) = from(t, k + 1) /\ \A j \in 1..from(f, k + 1) : f[j] = t[j]
           S == {k \in 0..n : Same(k)}
<1>0. /\ Len(Split(f)) = slashes(f, Len(f)) + 1 /\ Len(Split(t)) = slashes(t, Len(t)) + 1
      /\ Len(Split(f)) \in Nat \ {0} /\ Len(Split(t)) \in Nat \ {0}
      /\ Len(f) \in Nat /\ Len(t) \in Nat
  BY SplitType
<1>1. 0 \in S
  <2>1. 1 \in 1..slashes(f, Len(f)) + 1 /\ 1 \in 1..slashes(t, Len(t)) + 1
    BY <1>0
  <2>2. from(f, 1) = 0 /\ from(t, 1) = 0
    BY <1>0, <2>1, LevelEdges
  <2> QED  BY <2>2
<1>2. ASSUME NEW k \in 0..n-1, k \in S PROVE k + 1 \in S
  <2> DEFINE i == k + 1
  <2>1. i \in 1..Len(Split(f)) /\ i \in 1..Len(Split(t)) /\ i \in 1..n
    BY <1>0
  <2>2. from(f, i) = from(t, i) /\ \A j \in 1..from(f, i) : f[j] = t[j]
    BY <1>2
  <2>3. i + 1 \in 1..slashes(f, Len(f)) + 1 /\ i + 1 \in 1..slashes(t, Len(t)) + 1 /\ i + 1 > 1 /\ (i + 1) - 1 = i
    BY <1>0, <2>1
  <2> HIDE DEF i
  <2>4. to(f, i) = to(t, i) /\ \A j \in 1..to(f, i) : f[j] = t[j]
    BY <2>1, <2>2, LevelAlong
  <2>5. from(f, i + 1) = to(f, (i + 1) - 1) + 1 /\ f[from(f, i + 1)] = "/"
    BY <1>0, <2>3, LevelEdges
  <2>6. from(t, i + 1) = to(t, (i + 1) - 1) + 1 /\ t[from(t, i + 1)] = "/"
    BY <1>0, <2>3, LevelEdges
  <2>7. to(f, i) \in Nat
    <3>1. i \in 1..slashes(f, Len(f)) + 1
      BY <1>0, <2>1
    <3> QED  BY <1>0, <3>1, LevelShape
  <2>8. from(f, i + 1) = to(f, i) + 1 /\ from(t, i + 1) = to(f, i) + 1
    BY <2>3, <2>4, <2>5, <2>6
  <2>9. ASSUME NEW j \in 1..from(f, i + 1) PROVE f[j] = t[j]
    <3>1. j \in 1..to(f, i) \/ j = from(f, i + 1)
      BY <2>7, <2>8
    <3> QED  BY <2>4, <2>5, <2>6, <2>8, <3>1
  <2>10. i \in 0..n
    BY <2>1
  <2> QED  BY <2>8, <2>9, <2>10 DEF i
<1>3. \A k \in 0..n-1 : k \in S => k + 1 \in S
  BY <1>2
<1> HIDE DEF S
<1>4. \A k \in 0..n : k \in S
  BY <1>1, <1>3, UpTo
<1>5. n \in S
  <2>1. n \in 0..n
    OBVIOUS
  <2> QED  BY <1>4, <2>1
<1> QED  BY <1>5 DEF S

\* A level of one character: the character, and what follows it.
LEMMA WildLevel ==
  ASSUME NEW f \in Seq(Character), NEW c, NEW k \in 1..Len(Split(f)), Split(f)[k] = <<c>>
  PROVE  /\ from(f, k) + 1 \in 1..Len(f) /\ f[from(f, k) + 1] = c /\ isLevel(f, from(f, k) + 1)
         /\ k < Len(Split(f)) => from(f, k) + 2 \in 1..Len(f) /\ f[from(f, k) + 2] = "/"
         /\ k = Len(Split(f)) => from(f, k) + 1 = Len(f)
<1> DEFINE P == from(f, k)
<1>0. k \in 1..slashes(f, Len(f)) + 1 /\ Len(Split(f)) = slashes(f, Len(f)) + 1 /\ Len(f) \in Nat /\ Len(Split(f)) \in Nat
  BY SplitType
<1>1. P \in 0..Len(f) /\ to(f, k) \in P..Len(f)
  BY <1>0, LevelShape
<1>2. to(f, k) = P + 1 /\ f[P + 1] = c
  <2>1. /\ Len(Split(f)[k]) = to(f, k) - from(f, k)
        /\ \A j \in 1..Len(Split(f)[k]) : Split(f)[k][j] = f[from(f, k) + j]
    <3>1. \A i \in 1..Len(Split(f)) :
            /\ Len(Split(f)[i]) = to(f, i) - from(f, i)
            /\ \A j \in 1..Len(Split(f)[i]) : Split(f)[i][j] = f[from(f, i) + j]
      BY SplitType
    <3> QED  BY <3>1
  <2>2. Len(<<c>>) = 1 /\ <<c>>[1] = c /\ 1 \in 1..1
    OBVIOUS
  <2>3. to(f, k) - P = 1 /\ f[P + 1] = c
    BY <2>1, <2>2
  <2> QED  BY <1>1, <2>3
<1>3. /\ k = 1 => P = 0
      /\ k > 1 => P > 0 /\ f[P] = "/"
      /\ k <= slashes(f, Len(f)) => to(f, k) < Len(f) /\ f[to(f, k) + 1] = "/"
      /\ k = slashes(f, Len(f)) + 1 => to(f, k) = Len(f)
  BY <1>0, LevelEdges
<1> HIDE DEF P
<1>4. P + 1 \in 1..Len(f) /\ (P + 1) - 1 = P /\ (P + 1) + 1 = P + 2
  BY <1>0, <1>1, <1>2
<1>5. k < Len(Split(f)) => P + 2 \in 1..Len(f) /\ f[P + 2] = "/"
  <2> SUFFICES ASSUME k < Len(Split(f)) PROVE P + 2 \in 1..Len(f) /\ f[P + 2] = "/"
    OBVIOUS
  <2>1. k <= slashes(f, Len(f))
    <3>1. Len(f) \in 0..Len(f)
      BY <1>0
    <3>2. slashes(f, Len(f)) \in Nat
      BY <1>0, <3>1, SlashCount
    <3> QED  BY <1>0, <3>2
  <2>2. P + 1 < Len(f) /\ f[(P + 1) + 1] = "/"
    BY <1>2, <1>3, <2>1
  <2>3. P + 2 \in 1..Len(f)
    BY <1>0, <1>1, <2>2
  <2> QED  BY <1>4, <2>2, <2>3
<1>6. k = Len(Split(f)) => P + 1 = Len(f)
  BY <1>0, <1>2, <1>3
<1>7. P + 1 = 1 \/ f[(P + 1) - 1] = "/"
  BY <1>0, <1>3, <1>4
<1>8. P + 1 = Len(f) \/ f[(P + 1) + 1] = "/"
  BY <1>0, <1>4, <1>5, <1>6
<1>9. isLevel(f, P + 1)
  BY <1>7, <1>8 DEF isLevel
<1> QED  BY <1>2, <1>4, <1>5, <1>6, <1>9 DEF P

\* The levels of a plain topic take at least one place.
LEMMA LevelNotEmpty ==
  ASSUME NEW t \in Seq(Character), PlainTopic(t), NEW i \in 1..Len(Split(t))
  PROVE  /\ from(t, i) \in Nat /\ to(t, i) \in Nat /\ from(t, i) < to(t, i) /\ to(t, i) <= Len(t)
         /\ i \in 1..slashes(t, Len(t)) + 1
<1>0. Len(t) \in Nat /\ i \in 1..slashes(t, Len(t)) + 1
  BY SplitType
<1>1. from(t, i) \in 0..Len(t) /\ to(t, i) \in from(t, i)..Len(t)
  BY <1>0, LevelShape
<1>2. Len(Split(t)[i]) = to(t, i) - from(t, i) /\ Split(t)[i] \in Seq(Character)
  BY <1>0, SplitType
<1>3. Split(t)[i] # <<>>
  <2>1. i \in DOMAIN Split(t)
    <3>1. Split(t) \in Seq(Seq(Character))
      BY SplitType
    <3> QED  BY <3>1
  <2> QED  BY <2>1 DEF PlainTopic
<1>4. Len(Split(t)[i]) # 0
  BY <1>2, <1>3
<1> QED  BY <1>0, <1>1, <1>2, <1>4

\* No level is empty: a separator stands between two other characters.
LEMMA PlainSlashes ==
  ASSUME NEW t \in Seq(Character), PlainTopic(t), NEW j \in 1..Len(t), t[j] = "/"
  PROVE  j > 1 /\ j < Len(t) /\ t[j - 1] # "/"
<1> DEFINE k == slashes(t, j)
           N == slashes(t, Len(t))
<1>0. Len(t) \in Nat /\ Len(Split(t)) = N + 1
  BY SplitType
<1>1. k \in 1..N /\ slashes(t, j - 1) = k - 1
  <2>1. j \in 0..Len(t) /\ j - 1 \in 0..Len(t) /\ j - 1 < Len(t) /\ (j - 1) + 1 = j /\ Len(t) \in 0..Len(t) /\ j \in 0..Len(t)
    BY <1>0
  <2>2. slashes(t, (j - 1) + 1) = IF t[(j - 1) + 1] = "/" THEN slashes(t, j - 1) + 1 ELSE slashes(t, j - 1)
    BY <1>0, <2>1, SlashCount
  <2>3. slashes(t, j - 1) \in Nat /\ k \in Nat /\ N \in Nat
    BY <1>0, <2>1, SlashCount
  <2>4. k <= N
    BY <1>0, <2>1, SlashCount
  <2> HIDE DEF k, N
  <2>5. k = slashes(t, j - 1) + 1
    BY <2>1, <2>2 DEF k
  <2> QED  BY <2>3, <2>4, <2>5
<1> HIDE DEF k, N
<1>2. N \in Nat /\ k \in 1..N + 1 /\ k + 1 \in 1..N + 1
  <2>1. N \in Nat
    <3>1. Len(t) \in 0..Len(t)
      BY <1>0
    <3> QED  BY <1>0, <3>1, SlashCount DEF N
  <2> QED  BY <1>1, <2>1
<1>3. ASSUME NEW i \in 1..N + 1 PROVE from(t, i) \in Nat /\ to(t, i) \in Nat /\ from(t, i) < to(t, i) /\ to(t, i) <= Len(t)
  BY <1>0, LevelNotEmpty
<1>4. to(t, k) = j - 1
  <2>1. \A n \in 0..Len(t) : n \in from(t, k)..to(t, k) <=> slashes(t, n) = k - 1
    BY <1>0, <1>2, LevelShape DEF N
  <2>2. j \in 0..Len(t) /\ j - 1 \in 0..Len(t) /\ slashes(t, j) = k /\ k # k - 1
    BY <1>0, <1>2 DEF k
  <2>3. j - 1 \in from(t, k)..to(t, k) /\ j \notin from(t, k)..to(t, k)
    BY <1>1, <2>1, <2>2
  <2>4. from(t, k) \in Nat /\ to(t, k) \in Nat
    BY <1>2, <1>3
  <2> QED  BY <2>3, <2>4
<1>5. t[j - 1] # "/" /\ j > 1
  <2>1. \A n \in from(t, k) + 1..to(t, k) : t[n] # "/"
    BY <1>0, <1>2, LevelEdges DEF N
  <2>2. from(t, k) \in Nat /\ from(t, k) < to(t, k)
    BY <1>2, <1>3
  <2>3. j - 1 \in from(t, k) + 1..to(t, k)
    BY <1>4, <2>2
  <2> QED  BY <1>4, <2>1, <2>2, <2>3
<1>6. j < Len(t)
  <2>1. from(t, k + 1) = to(t, (k + 1) - 1) + 1
    <3>1. k + 1 > 1
      BY <1>2
    <3> QED  BY <1>0, <1>2, <3>1, LevelEdges DEF N
  <2>2. (k + 1) - 1 = k
    BY <1>2
  <2>3. from(t, k + 1) = j
    BY <1>4, <2>1, <2>2
  <2> QED  BY <1>0, <1>2, <1>3, <2>3
<1> QED  BY <1>5, <1>6

-----------------------------------------------------------------------------
(* The matcher, one element of the expression after the other.             *)

\* One step of a match: element k of the expression, from the state r.
MatchStep(re, s, k, r) ==
  LET q == IF r.at = 0 THEN 0 ELSE advance(re[k], s, r.at)
  IN  [at |-> q,
       groups |-> IF re[k] \in {"SINGLE", "MULTI"} /\ q # 0
                  THEN Append(r.groups, SubSeq(s, r.at, q - 1))
                  ELSE r.groups]

MatchStates(s) == [at : 0..Len(s) + 1, groups : Seq(Seq(Character))]

\* The characters of a group are those before the first one outside its class.
Stop(s, p) == Min({j \in p..Len(s) + 1 : j > Len(s) \/ ~Word(s[j])})

\* The end of a group.
LEMMA StopIs ==
  ASSUME NEW s \in Seq(Character), NEW p \in 1..Len(s) + 1
  PROVE  /\ Stop(s, p) \in p..Len(s) + 1
         /\ Stop(s, p) > Len(s) \/ ~Word(s[Stop(s, p)])
         /\ \A j \in p..Stop(s, p) - 1 : Word(s[j])
<1> DEFINE T == {j \in p..Len(s) + 1 : j > Len(s) \/ ~Word(s[j])}
<1>1. Len(s) \in Nat
  OBVIOUS
<1>2. Len(s) + 1 \in T /\ T \subseteq Nat /\ T # {}
  BY <1>1
<1> HIDE DEF T
<1>3. Min(T) \in T /\ \A j \in T : Min(T) <= j
  BY <1>2, MinIs
<1>4. Min(T) \in p..Len(s) + 1 /\ (Min(T) > Len(s) \/ ~Word(s[Min(T)]))
  BY <1>3 DEF T
<1>5. \A j \in p..Min(T) - 1 : Word(s[j])
  <2> SUFFICES ASSUME NEW j \in p..Min(T) - 1 PROVE Word(s[j])
    OBVIOUS
  <2>1. j \in p..Len(s) + 1 /\ ~(Min(T) <= j)
    BY <1>1, <1>4
  <2>2. j \notin T
    BY <1>3, <2>1
  <2> QED  BY <2>1, <2>2 DEF T
<1>6. Stop(s, p) = Min(T)
  BY DEF Stop, T
<1> QED  BY <1>4, <1>5, <1>6

\* advance, with its end of a group named.
LEMMA AdvanceIs ==
  ASSUME NEW x, NEW s, NEW p
  PROVE  advance(x, s, p) =
           CASE x = "SINGLE" -> IF Stop(s, p) = p \/ (Stop(s, p) <= Len(s) /\ s[Stop(s, p)] # "/") THEN 0
                                ELSE IF Stop(s, p) <= Len(s) THEN Stop(s, p) + 1 ELSE Stop(s, p)
             [] x = "MULTI" -> IF \A j \in p..Len(s) : Word(s[j]) \/ (s[j] = "/" /\ j > p /\ s[j - 1] # "/")
                               THEN Len(s) + 1 ELSE 0
             [] x = "$" -> IF p = Len(s) + 1 THEN p ELSE 0
             [] OTHER -> IF p <= Len(s) /\ x \in {s[p], "."} THEN p + 1 ELSE 0
  BY DEF advance, Stop

\* A match goes forward, to one place behind the topic at most.
LEMMA AdvanceType ==
  ASSUME NEW x, NEW s \in Seq(Character), NEW p \in 1..Len(s) + 1
  PROVE  advance(x, s, p) \in {0} \cup p..Len(s) + 1
<1> DEFINE z == Stop(s, p)
<1>1. Len(s) \in Nat /\ z \in p..Len(s) + 1
  BY StopIs
<1>2. CASE x = "SINGLE"
  <2>1. advance(x, s, p) = IF z = p \/ (z <= Len(s) /\ s[z] # "/") THEN 0
                           ELSE IF z <= Len(s) THEN z + 1 ELSE z
    BY <1>2, AdvanceIs
  <2> HIDE DEF z
  <2> QED  BY <1>1, <2>1
<1>3. CASE x = "MULTI"
  <2>1. advance(x, s, p) \in {0, Len(s) + 1}
    BY <1>3, AdvanceIs
  <2> QED  BY <1>1, <2>1
<1>4. CASE x = "$"
  <2>1. advance(x, s, p) \in {0, p}
    BY <1>4, AdvanceIs
  <2> QED  BY <1>1, <2>1
<1>5. CASE x \notin {"SINGLE", "MULTI", "$"}
  <2>1. advance(x, s, p) = IF p <= Len(s) /\ x \in {s[p], "."} THEN p + 1 ELSE 0
    BY <1>5, AdvanceIs
  <2> QED  BY <1>1, <2>1
<1> QED  BY <1>2, <1>3, <1>4, <1>5

\* A step keeps the type of the state.
LEMMA MatchStepType ==
  ASSUME NEW re, NEW s \in Seq(Character), NEW k, NEW r \in MatchStates(s)
  PROVE  MatchStep(re, s, k, r) \in MatchStates(s)
<1> DEFINE q == IF r.at = 0 THEN 0 ELSE advance(re[k], s, r.at)
<1>1. r.at \in 0..Len(s) + 1 /\ r.groups \in Seq(Seq(Character)) /\ Len(s) \in Nat
  BY DEF MatchStates
<1>2. q \in 0..Len(s) + 1 /\ (q # 0 => r.at \in 1..Len(s) + 1 /\ q \in r.at..Len(s) + 1)
  <2>1. CASE r.at = 0
    BY <1>1, <2>1
  <2>2. CASE r.at # 0
    <3>1. r.at \in 1..Len(s) + 1
      BY <1>1, <2>2
    <3>2. q \in {0} \cup r.at..Len(s) + 1
      BY <2>2, <3>1, AdvanceType
    <3> QED  BY <1>1, <3>1, <3>2
  <2> QED  BY <2>1, <2>2
<1> HIDE DEF q
<1>3. q # 0 => SubSeq(s, r.at, q - 1) \in Seq(Character)
  BY <1>1, <1>2
<1>4. MatchStep(re, s, k, r) =
        [at |-> q, groups |-> IF re[k] \in {"SINGLE", "MULTI"} /\ q # 0
                              THEN Append(r.groups, SubSeq(s, r.at, q - 1)) ELSE r.groups]
  BY DEF MatchStep, q
<1>5. CASE re[k] \in {"SINGLE", "MULTI"} /\ q # 0
  <2>1. Append(r.groups, SubSeq(s, r.at, q - 1)) \in Seq(Seq(Character))
    BY <1>1, <1>3, <1>5
  <2> QED  BY <1>2, <1>4, <1>5, <2>1 DEF MatchStates
<1>6. CASE ~(re[k] \in {"SINGLE", "MULTI"} /\ q # 0)
  BY <1>1, <1>2, <1>4, <1>6 DEF MatchStates
<1> QED  BY <1>5, <1>6

\* The states of a match, one after each element.
LEMMA MatchUnfolds ==
  ASSUME NEW C, NEW re \in Seq(C), NEW s \in Seq(Character), NEW i \in 1..Len(s) + 1
  PROVE  \E m \in [0..Len(re) -> MatchStates(s)] :
            /\ m[0] = [at |-> i, groups |-> <<>>]
            /\ \A k \in 1..Len(re) : m[k] = MatchStep(re, s, k, m[k - 1])
            /\ matchAt(re, s, i) = m[Len(re)]
<1> DEFINE n == Len(re)
           V == MatchStates(s)
           v == [at |-> i, groups |-> <<>>]
           F(m) == [k \in 0..n |-> IF k = 0 THEN v ELSE MatchStep(re, s, k, m[k - 1])]
           D == [k \in 1..n |-> [r \in V |-> MatchStep(re, s, k, r)]]
           f == CHOOSE m : m = F(m)
<1>1. n \in Nat /\ v \in V
  BY DEF MatchStates
<1>2. matchAt(re, s, i) = f[n]
  BY DEF matchAt, MatchStep
<1>3. \A k \in 1..n : \A r \in V : MatchStep(re, s, k, r) \in V
  BY MatchStepType
<1> HIDE DEF V, v
<1>4. f = F(f)
  <2>1. D \in [1..n -> [V -> V]]
    BY <1>3
  <2>2. \A k \in 1..n : \A r \in V : D[k][r] = MatchStep(re, s, k, r)
    OBVIOUS
  <2> HIDE DEF D
  <2>3. PICK g \in [0..n -> V] : g[0] = v /\ \A k \in 1..n : g[k] = D[k][g[k - 1]]
    <3> HIDE DEF n
    <3>1. Runs(n, V, v, D) # {}
      BY <1>1, <2>1, Recursion
    <3> QED  BY <3>1 DEF Runs
  <2>4. g = F(g)
    <3>1. \A k \in 1..n : g[k] = MatchStep(re, s, k, g[k - 1])
      <4>1. \A k \in 1..n : k - 1 \in 0..n
        BY <1>1
      <4> QED  BY <2>2, <2>3, <4>1
    <3>2. \A k \in 0..n : k # 0 => k \in 1..n
      BY <1>1
    <3> HIDE DEF n
    <3>3. \A k \in 0..n : g[k] = IF k = 0 THEN v ELSE MatchStep(re, s, k, g[k - 1])
      BY <2>3, <3>1, <3>2
    <3> QED  BY <2>3, <3>3
  <2> HIDE DEF F
  <2> QED  BY <2>4
<1>5. f[0] = v /\ \A k \in 1..n : f[k] = MatchStep(re, s, k, f[k - 1])
  <2>1. 0 \in 0..n /\ \A k \in 1..n : k \in 0..n /\ k # 0
    BY <1>1
  <2>2. F(f)[0] = v /\ \A k \in 1..n : F(f)[k] = MatchStep(re, s, k, f[k - 1])
    <3> HIDE DEF f, n
    <3> QED  BY <2>1
  <2> HIDE DEF F, f
  <2> QED  BY <1>4, <2>2
<1>6. \A k \in 0..n : f[k] \in V
  <2> DEFINE S == {k \in 0..n : f[k] \in V}
  <2>1. 0 \in S
    BY <1>1, <1>5
  <2>2. ASSUME NEW k \in 0..n-1, k \in S PROVE k + 1 \in S
    <3>1. k + 1 \in 1..n /\ (k + 1) - 1 = k /\ k + 1 \in 0..n
      BY <1>1
    <3> HIDE DEF n, f
    <3>2. f[k] \in V
      BY <2>2
    <3>3. f[k + 1] = MatchStep(re, s, k + 1, f[k])
      BY <1>5, <3>1
    <3> QED  BY <1>3, <3>1, <3>2, <3>3
  <2>3. \A k \in 0..n-1 : k \in S => k + 1 \in S
    BY <2>2
  <2> HIDE DEF S, n, f
  <2>4. \A k \in 0..n : k \in S
    BY <1>1, <2>1, <2>3, UpTo
  <2> QED  BY <2>4 DEF S
<1>7. f \in [0..n -> V]
  <2> SUFFICES F(f) \in [0..n -> V]
    BY <1>4
  <2> HIDE DEF f, n
  <2>1. \A k \in 0..n : (IF k = 0 THEN v ELSE MatchStep(re, s, k, f[k - 1])) \in V
    <3>1. \A k \in 0..n : k # 0 => k \in 1..n
      BY <1>1
    <3> QED  BY <1>1, <1>5, <1>6, <3>1
  <2> QED  BY <2>1
<1> HIDE DEF f
<1> QED  BY <1>2, <1>5, <1>7 DEF V, v

\* What a match's states do, from any place where it starts.
Matches(m, re, s, i) ==
  /\ m \in [0..Len(re) -> MatchStates(s)]
  /\ m[0] = [at |-> i, groups |-> <<>>]
  /\ \A k \in 1..Len(re) : m[k] = MatchStep(re, s, k, m[k - 1])

\* Where a step leaves the match.
LEMMA MatchGoes ==
  ASSUME NEW re, NEW s, NEW i, NEW m, Matches(m, re, s, i), NEW k \in 1..Len(re)
  PROVE  m[k].at = IF m[k - 1].at = 0 THEN 0 ELSE advance(re[k], s, m[k - 1].at)
<1>1. m[k] = MatchStep(re, s, k, m[k - 1])
  BY DEF Matches
<1> DEFINE q == IF m[k - 1].at = 0 THEN 0 ELSE advance(re[k], s, m[k - 1].at)
<1>2. MatchStep(re, s, k, m[k - 1]).at = q
  BY DEF MatchStep
<1> QED  BY <1>1, <1>2

\* A match that has failed stays so.
LEMMA MatchDies ==
  ASSUME NEW C, NEW re \in Seq(C), NEW s, NEW i, NEW m, Matches(m, re, s, i),
         NEW k \in 0..Len(re), m[k].at = 0
  PROVE  m[Len(re)].at = 0
<1> DEFINE n == Len(re)
           S == {d \in 0..n - k : m[k + d].at = 0}
<1>1. n \in Nat /\ n - k \in Nat /\ k \in Nat
  OBVIOUS
<1>2. 0 \in S
  BY <1>1
<1>3. ASSUME NEW d \in 0..(n - k) - 1, d \in S PROVE d + 1 \in S
  <2> DEFINE j == k + d
  <2>1. j + 1 \in 1..n /\ (j + 1) - 1 = j /\ k + (d + 1) = j + 1 /\ d + 1 \in 0..n - k
    <3> HIDE DEF n
    <3>1. d \in Nat /\ d + 1 <= n - k
      BY <1>1
    <3> QED  BY <1>1, <3>1
  <2>2. m[j].at = 0
    BY <1>3
  <2> HIDE DEF j, n
  <2>3. m[j + 1] = MatchStep(re, s, j + 1, m[j])
    BY <2>1 DEF Matches, n
  <2>4. m[j + 1].at = 0
    BY <2>2, <2>3 DEF MatchStep
  <2> QED  BY <2>1, <2>4
<1>4. \A d \in 0..(n - k) - 1 : d \in S => d + 1 \in S
  BY <1>3
<1> HIDE DEF S, n
<1>5. \A d \in 0..n - k : d \in S
  BY <1>1, <1>2, <1>4, UpTo
<1>6. n - k \in S /\ k + (n - k) = n
  BY <1>1, <1>5
<1> QED  BY <1>6 DEF S, n

\* The group of a "+" has eaten the separator that follows.
LEMMA PlusEats ==
  ASSUME NEW C, NEW re \in Seq(C), NEW t \in Seq(Character), PlainTopic(t), NEW i,
         NEW m, Matches(m, re, t, i),
         NEW k \in 1..Len(re) - 1, re[k] = "SINGLE", re[k + 1] = "/"
  PROVE  m[Len(re)].at = 0
<1> DEFINE p == m[k - 1].at
           q == m[k].at
           z == Stop(t, p)
<1>1. /\ k - 1 \in 0..Len(re) /\ k \in 0..Len(re) /\ k \in 1..Len(re) /\ k + 1 \in 0..Len(re) /\ k + 1 \in 1..Len(re)
      /\ (k + 1) - 1 = k /\ Len(t) \in Nat
  OBVIOUS
<1>2. p \in 0..Len(t) + 1
  BY <1>1 DEF Matches, MatchStates
<1>3. q = IF p = 0 THEN 0 ELSE advance("SINGLE", t, p)
  <2>1. m[k].at = IF m[k - 1].at = 0 THEN 0 ELSE advance(re[k], t, m[k - 1].at)
    BY <1>1, MatchGoes
  <2> QED  BY <2>1
<1>4. m[k + 1].at = IF q = 0 THEN 0 ELSE advance("/", t, q)
  <2> DEFINE j == k + 1
  <2>1. j \in 1..Len(re) /\ j - 1 = k /\ re[j] = "/"
    BY <1>1
  <2> HIDE DEF j
  <2>2. m[j].at = IF m[j - 1].at = 0 THEN 0 ELSE advance(re[j], t, m[j - 1].at)
    BY <2>1, MatchGoes
  <2> QED  BY <2>1, <2>2 DEF j
<1>5. CASE q = 0
  BY <1>1, <1>5, MatchDies
<1>6. CASE q # 0
  <2>1. p \in 1..Len(t) + 1
    BY <1>2, <1>3, <1>6
  <2>2. z \in p..Len(t) + 1
    BY <2>1, StopIs
  <2>3. q = IF z = p \/ (z <= Len(t) /\ t[z] # "/") THEN 0 ELSE IF z <= Len(t) THEN z + 1 ELSE z
    <3> HIDE DEF q, z, p
    <3>1. q = advance("SINGLE", t, p)
      BY <1>3, <2>1
    <3> QED  BY <3>1, AdvanceIs DEF z
  <2> HIDE DEF q, z
  <2>4. q = Len(t) + 1 \/ (z \in 1..Len(t) /\ q = z + 1 /\ t[z] = "/")
    BY <1>1, <1>6, <2>1, <2>2, <2>3
  <2>5. ~(q \in 1..Len(t) /\ t[q] = "/")
    <3> SUFFICES ASSUME q \in 1..Len(t), t[q] = "/" PROVE FALSE
      OBVIOUS
    <3>1. t[q - 1] # "/"
      BY PlainSlashes
    <3>2. z \in 1..Len(t) /\ q = z + 1 /\ t[z] = "/"
      BY <1>1, <2>4
    <3> QED  BY <3>1, <3>2
  <2>6. advance("/", t, q) = IF q <= Len(t) /\ "/" \in {t[q], "."} THEN q + 1 ELSE 0
    BY AdvanceIs
  <2>7. advance("/", t, q) = 0
    BY <1>1, <2>4, <2>5, <2>6
  <2>8. m[k + 1].at = 0
    BY <1>4, <2>7
  <2> QED  BY <1>1, <2>8, MatchDies
<1> QED  BY <1>5, <1>6

\* More characters that stand for themselves than the topic has.
LEMMA TooLong ==
  ASSUME NEW C, NEW re \in Seq(C), NEW t \in Seq(Character), NEW i \in 1..Len(t) + 1,
         NEW m, Matches(m, re, t, i),
         NEW n \in 1..Len(re), n > Len(t), \A j \in 1..n : re[j] \notin {"SINGLE", "MULTI", "$"}
  PROVE  m[Len(re)].at = 0
<1> DEFINE S == {k \in 0..n : m[k].at \in {0, i + k}}
<1>0. n \in Nat /\ Len(t) \in Nat /\ Len(re) \in Nat /\ i \in Nat /\ i >= 1
  OBVIOUS
<1>1. 0 \in S
  BY <1>0 DEF Matches
<1>2. ASSUME NEW k \in 0..n-1, k \in S PROVE k + 1 \in S
  <2> DEFINE p == m[k].at
             x == re[k + 1]
  <2>1. k + 1 \in 1..n /\ k + 1 \in 1..Len(re) /\ (k + 1) - 1 = k /\ k + 1 \in 0..n /\ (i + k) + 1 = i + (k + 1)
    BY <1>0
  <2>2. m[k + 1].at = IF p = 0 THEN 0 ELSE advance(x, t, p)
    <3> DEFINE j == k + 1
    <3>1. j \in 1..Len(re) /\ j - 1 = k /\ re[j] = x
      BY <2>1
    <3> HIDE DEF j, x
    <3>2. m[j].at = IF m[j - 1].at = 0 THEN 0 ELSE advance(re[j], t, m[j - 1].at)
      BY <3>1, MatchGoes
    <3> QED  BY <3>1, <3>2 DEF j
  <2>3. p \in {0, i + k}
    BY <1>2
  <2>4. advance(x, t, p) = IF p <= Len(t) /\ x \in {t[p], "."} THEN p + 1 ELSE 0
    <3>1. x \notin {"SINGLE", "MULTI", "$"}
      BY <2>1
    <3> HIDE DEF x, p
    <3> QED  BY <3>1, AdvanceIs
  <2> HIDE DEF p, x
  <2>5. m[k + 1].at \in {0, i + (k + 1)}
    BY <2>1, <2>2, <2>3, <2>4
  <2> QED  BY <2>1, <2>5
<1>3. \A k \in 0..n-1 : k \in S => k + 1 \in S
  BY <1>2
<1> HIDE DEF S
<1>4. n \in S
  <2>1. \A k \in 0..n : k \in S
    BY <1>0, <1>1, <1>3, UpTo
  <2>2. n \in 0..n
    BY <1>0
  <2> QED  BY <2>1, <2>2
<1>5. m[n].at \in 0..Len(t) + 1
  BY <1>0 DEF Matches, MatchStates
<1>6. m[n].at = 0
  <2>1. m[n].at \in {0, i + n}
    BY <1>4 DEF S
  <2> QED  BY <1>0, <1>5, <2>1
<1>7. n \in 0..Len(re)
  BY <1>0
<1> QED  BY <1>6, <1>7, MatchDies

\* Characters that stand for themselves match themselves.
LEMMA LiteralPrefix ==
  ASSUME NEW C, NEW re \in Seq(C), NEW t \in Seq(Character), NEW m, Matches(m, re, t, 1),
         NEW n \in 0..Len(re), n <= Len(t), \A j \in 1..n : re[j] = t[j] /\ t[j] \notin {"SINGLE", "MULTI", "$"}
  PROVE  m[n] = [at |-> n + 1, groups |-> <<>>]
<1> DEFINE S == {k \in 0..n : m[k] = [at |-> k + 1, groups |-> <<>>]}
<1>0. n \in Nat /\ Len(t) \in Nat /\ Len(re) \in Nat
  OBVIOUS
<1>1. 0 \in S
  <2>1. 0 + 1 = 1 /\ 0 \in 0..n
    BY <1>0
  <2> QED  BY <2>1 DEF Matches
<1>2. ASSUME NEW k \in 0..n-1, k \in S PROVE k + 1 \in S
  <2> DEFINE x == re[k + 1]
             p == k + 1
  <2>1. p \in 1..n /\ p \in 1..Len(re) /\ p - 1 = k /\ p \in 0..n /\ p <= Len(t) /\ p # 0 /\ p + 1 # 0 /\ p \in Nat
    BY <1>0
  <2>2. m[k] = [at |-> p, groups |-> <<>>]
    BY <1>2
  <2>3. x = t[p] /\ x \notin {"SINGLE", "MULTI", "$"}
    BY <2>1
  <2>4. m[p] = MatchStep(re, t, p, m[k])
    BY <2>1 DEF Matches
  <2> HIDE DEF p
  <2>5. re[p] = x
    BY DEF p
  <2> HIDE DEF x
  <2>6. advance(x, t, p) = p + 1
    BY <2>1, <2>3, AdvanceIs
  <2>7. m[p] = [at |-> p + 1, groups |-> <<>>]
    BY <2>1, <2>2, <2>3, <2>4, <2>5, <2>6 DEF MatchStep
  <2> QED  BY <2>1, <2>7 DEF p
<1>3. \A k \in 0..n-1 : k \in S => k + 1 \in S
  BY <1>2
<1> HIDE DEF S
<1>4. n \in S
  <2>1. \A k \in 0..n : k \in S
    BY <1>0, <1>1, <1>3, UpTo
  <2>2. n \in 0..n
    BY <1>0
  <2> QED  BY <2>1, <2>2
<1> QED  BY <1>4 DEF S

\* The expression, character by character.
LEMMA ExpressionIs ==
  ASSUME NEW f \in Seq(Character)
  PROVE  /\ expression(f) \in Seq(Character \cup {"SINGLE", "MULTI"}) /\ Len(expression(f)) = Len(f)
         /\ \A j \in 1..Len(f) :
               /\ f[j] \notin {"+", "#"} => expression(f)[j] = f[j]
               /\ f[j] = "+" /\ isLevel(f, j) => expression(f)[j] = "SINGLE"
               /\ f[j] = "#" /\ isLevel(f, j) => expression(f)[j] = "MULTI"
<1> DEFINE n == Len(f)
<1>1. DOMAIN f = 1..n /\ n \in Nat /\ \A j \in 1..n : f[j] \in Character
  OBVIOUS
<1>2. expression(f) = [j \in 1..n |->
         CASE isLevel(f, j) /\ f[j] = "+" -> "SINGLE"
           [] isLevel(f, j) /\ f[j] = "#" -> "MULTI"
           [] OTHER -> f[j]]
  BY <1>1 DEF expression
<1> HIDE DEF n
<1>3. expression(f) \in [1..n -> Character \cup {"SINGLE", "MULTI"}]
  BY <1>1, <1>2
<1>4. expression(f) \in Seq(Character \cup {"SINGLE", "MULTI"}) /\ Len(expression(f)) = n
  BY <1>1, <1>3
<1>5. ASSUME NEW j \in 1..n
      PROVE  /\ f[j] \notin {"+", "#"} => expression(f)[j] = f[j]
             /\ f[j] = "+" /\ isLevel(f, j) => expression(f)[j] = "SINGLE"
             /\ f[j] = "#" /\ isLevel(f, j) => expression(f)[j] = "MULTI"
  BY <1>2
<1> QED  BY <1>4, <1>5 DEF n

\* If no match gets to its end, there are no parameters.
LEMMA NoParams ==
  ASSUME NEW f \in Seq(Character), NEW t \in Seq(Character),
         \A i \in 1..Len(t) + 1 : \A m : Matches(m, expression(f), t, i) => m[Len(expression(f))].at = 0
  PROVE  Params(f, t) = <<>>
<1> DEFINE re == expression(f)
           starts == {i \in 1..Len(t) + 1 : matchAt(re, t, i).at # 0}
<1>1. re \in Seq(Character \cup {"SINGLE", "MULTI"})
  BY ExpressionIs
<1> HIDE DEF re
<1>2. ASSUME NEW i \in 1..Len(t) + 1 PROVE matchAt(re, t, i).at = 0
  <2>1. PICK m : Matches(m, re, t, i) /\ matchAt(re, t, i) = m[Len(re)]
    BY <1>1, MatchUnfolds DEF Matches
  <2>2. m[Len(re)].at = 0
    BY <2>1 DEF re
  <2> QED  BY <2>1, <2>2
<1>3. starts = {}
  BY <1>2
<1> QED  BY <1>3 DEF Params, re

\* If the match from the start gets to its end, it is the one that is found.
LEMMA ParamsFrom ==
  ASSUME NEW f \in Seq(Character), NEW t \in Seq(Character), NEW r, r.at # 0,
         \A m : Matches(m, expression(f), t, 1) => m[Len(expression(f))] = r
  PROVE  Params(f, t) = <<SubSeq(t, 1, r.at - 1)>> \o r.groups
<1> DEFINE re == expression(f)
           starts == {i \in 1..Len(t) + 1 : matchAt(re, t, i).at # 0}
<1>1. re \in Seq(Character \cup {"SINGLE", "MULTI"})
  BY ExpressionIs
<1> HIDE DEF re
<1>2. 1 \in 1..Len(t) + 1
  OBVIOUS
<1>3. matchAt(re, t, 1) = r
  <2>1. PICK m : Matches(m, re, t, 1) /\ matchAt(re, t, 1) = m[Len(re)]
    BY <1>1, <1>2, MatchUnfolds DEF Matches
  <2>2. m[Len(re)] = r
    BY <2>1 DEF re
  <2> QED  BY <2>1, <2>2
<1>4. 1 \in starts /\ starts \subseteq Nat /\ \A i \in starts : 1 <= i
  BY <1>2, <1>3
<1> HIDE DEF starts
<1>5. Min(starts) = 1
  <2>1. Min(starts) \in starts /\ \A i \in starts : Min(starts) <= i
    <3>1. starts # {}
      BY <1>4
    <3> QED  BY <1>4, <3>1, MinIs
  <2>2. Min(starts) \in Nat /\ Min(starts) <= 1 /\ 1 <= Min(starts)
    BY <1>4, <2>1
  <2> QED  BY <2>2
<1>6. Params(f, t) = IF starts = {} THEN <<>>
                     ELSE <<SubSeq(t, Min(starts), matchAt(re, t, Min(starts)).at - 1)>> \o matchAt(re, t, Min(starts)).groups
  BY DEF Params, re, starts
<1>7. Params(f, t) = <<SubSeq(t, 1, matchAt(re, t, 1).at - 1)>> \o matchAt(re, t, 1).groups
  BY <1>4, <1>5, <1>6
<1> QED  BY <1>3, <1>7

\* A sequence of one element, and one more.
LEMMA OneOrTwo == ASSUME NEW a, NEW b PROVE <<a>> \o <<>> = <<a>> /\ <<a>> \o <<b>> = <<a, b>>
<1> DEFINE S == {a, b}
<1>1. <<a>> \in Seq(S) /\ <<b>> \in Seq(S) /\ <<>> \in Seq(S) /\ <<a, b>> \in Seq(S)
  OBVIOUS
<1>2. /\ Len(<<a>>) = 1 /\ <<a>>[1] = a /\ Len(<<b>>) = 1 /\ <<b>>[1] = b
      /\ Len(<<>>) = 0 /\ Len(<<a, b>>) = 2 /\ <<a, b>>[1] = a /\ <<a, b>>[2] = b
  OBVIOUS
<1> HIDE DEF S
<1>3. <<a>> \o <<>> = <<a>>
  BY <1>1, ConcatEmptySeq
<1>4. /\ <<a>> \o <<b>> \in Seq(S) /\ Len(<<a>> \o <<b>>) = 2
      /\ (<<a>> \o <<b>>)[1] = a /\ (<<a>> \o <<b>>)[2] = b
  <2>1. <<a>> \o <<b>> \in Seq(S)
    BY <1>1
  <2>2. Len(<<a>> \o <<b>>) = Len(<<a>>) + Len(<<b>>)
    BY <1>1, ConcatProperties
  <2>3. \A i \in 1..Len(<<a>>) + Len(<<b>>) :
          (<<a>> \o <<b>>)[i] = IF i <= Len(<<a>>) THEN <<a>>[i] ELSE <<b>>[i - Len(<<a>>)]
    BY <1>1, ConcatProperties
  <2> QED  BY <1>2, <2>1, <2>2, <2>3
<1>5. <<a>> \o <<b>> = <<a, b>>
  <2>1. Len(<<a>> \o <<b>>) = Len(<<a, b>>) /\ \A i \in 1..Len(<<a, b>>) : (<<a>> \o <<b>>)[i] = <<a, b>>[i]
    <3>1. \A i \in 1..2 : i = 1 \/ i = 2
      OBVIOUS
    <3> QED  BY <1>2, <1>4, <3>1
  <2> QED  BY <1>1, <1>4, <2>1, SeqEqual
<1> QED  BY <1>3, <1>5

\* What a plain topic is made of.
LEMMA PlainCharacters ==
  ASSUME NEW t \in Seq(Character), PlainTopic(t), NEW j \in 1..Len(t)
  PROVE  /\ t[j] \notin {"+", "#", "$", "SINGLE", "MULTI", "."}
         /\ Word(t[j]) \/ t[j] = "/"
<1>1. Word(t[j]) \/ t[j] = "/"
  BY DEF PlainTopic, Plain
<1>2. t[j] \in Letters \/ t[j] = "/"
  BY <1>1 DEF Word
<1>3. Letters \cap {"/", "+", "#", "$", ".", "(", "wide", "SINGLE", "MULTI"} = {}
  BY RowsAssumption
<1> QED  BY <1>1, <1>2, <1>3

\* The levels of a topic and of a valid filter that covers it.
LEMMA CoveredLevels ==
  ASSUME NEW f \in Seq(Character), NEW t \in Seq(Character), Covers(f, t), PlainTopic(t)
  PROVE  /\ Len(Split(f)) \in Nat \ {0} /\ Len(Split(t)) \in Nat \ {0}
         /\ Last(Split(f)) = Split(f)[Len(Split(f))]
         /\ \A k \in 1..Len(Split(f)) - 1 : Split(f)[k] \in {Plus, Split(t)[k]}
         /\ \/ Last(Split(f)) = Hash /\ Len(Split(f)) - 1 <= Len(Split(t))
            \/ Last(Split(f)) \in {Plus, Last(Split(t))} /\ Len(Split(f)) = Len(Split(t))
         /\ Last(Split(t)) = Split(t)[Len(Split(t))] /\ Last(Split(t)) \notin {Plus, Hash}
<1> DEFINE fs == Split(f)
           ts == Split(t)
<1>1. Len(fs) \in Nat \ {0} /\ Len(ts) \in Nat \ {0} /\ fs \in Seq(Seq(Character)) /\ ts \in Seq(Seq(Character))
  BY SplitType
<1>2. Last(fs) = fs[Len(fs)] /\ Last(ts) = ts[Len(ts)]
  BY DEF Last
<1>3. \/ Len(fs) = Len(ts) /\ \A i \in 1..Len(fs) : fs[i] \in {Plus, ts[i]}
      \/ Last(fs) = Hash /\ Len(fs) - 1 <= Len(ts) /\ \A i \in 1..Len(fs) - 1 : fs[i] \in {Plus, ts[i]}
  BY DEF Covers
<1>4. Last(ts) \notin {Plus, Hash}
  <2> SUFFICES ASSUME NEW c \in {"+", "#"}, Last(ts) = <<c>> PROVE FALSE
    BY DEF Plus, Hash
  <2> DEFINE k == Len(ts)
  <2>1. k \in 1..Len(Split(t)) /\ Split(t)[k] = <<c>>
    BY <1>1, <1>2
  <2> HIDE DEF k
  <2>2. from(t, k) + 1 \in 1..Len(t) /\ t[from(t, k) + 1] = c
    BY <2>1, WildLevel
  <2> QED  BY <2>2, PlainCharacters
<1> HIDE DEF fs, ts
<1>5. \A k \in 1..Len(fs) - 1 : fs[k] \in {Plus, ts[k]}
  BY <1>1, <1>3
<1>6. \/ Last(fs) = Hash /\ Len(fs) - 1 <= Len(ts)
      \/ Last(fs) \in {Plus, Last(ts)} /\ Len(fs) = Len(ts)
  <2>1. CASE Len(fs) = Len(ts) /\ \A i \in 1..Len(fs) : fs[i] \in {Plus, ts[i]}
    <3>1. Len(fs) \in 1..Len(fs)
      BY <1>1
    <3> QED  BY <1>2, <2>1, <3>1
  <2>2. CASE Last(fs) = Hash /\ Len(fs) - 1 <= Len(ts)
    BY <2>2
  <2> QED  BY <1>3, <2>1, <2>2
<1> QED  BY <1>1, <1>2, <1>4, <1>5, <1>6 DEF fs, ts

\* A "+" before the last level.
LEMMA PlusAbove ==
  ASSUME NEW f \in Seq(Character), NEW t \in Seq(Character), PlainTopic(t),
         NEW k \in 1..Len(Split(f)) - 1, Split(f)[k] = Plus
  PROVE  Params(f, t) = <<>>
<1> DEFINE P == from(f, k)
           re == expression(f)
<1>0. Len(Split(f)) \in Nat /\ Len(f) \in Nat
  BY SplitType
<1>1. /\ P + 1 \in 1..Len(f) /\ f[P + 1] = "+" /\ isLevel(f, P + 1)
      /\ P + 2 \in 1..Len(f) /\ f[P + 2] = "/"
  <2>1. k \in 1..Len(Split(f)) /\ k < Len(Split(f)) /\ Split(f)[k] = <<"+">>
    BY <1>0 DEF Plus
  <2> QED  BY <2>1, WildLevel
<1>2. re[P + 1] = "SINGLE" /\ re[P + 2] = "/" /\ Len(re) = Len(f) /\ re \in Seq(Character \cup {"SINGLE", "MULTI"})
  BY <1>1, ExpressionIs
<1>3. P \in 0..Len(f)
  <2>1. k \in 1..slashes(f, Len(f)) + 1
    <3>1. Len(Split(f)) = slashes(f, Len(f)) + 1 /\ k \in 1..Len(Split(f))
      BY <1>0, SplitType
    <3> QED  BY <3>1
  <2> QED  BY <1>0, <2>1, LevelShape
<1> HIDE DEF P, re
<1>4. P + 1 \in 1..Len(re) - 1 /\ (P + 1) + 1 = P + 2
  BY <1>0, <1>1, <1>2, <1>3
<1>5. ASSUME NEW i \in 1..Len(t) + 1, NEW m, Matches(m, re, t, i) PROVE m[Len(re)].at = 0
  BY <1>2, <1>4, <1>5, PlusEats
<1> QED  BY <1>5, NoParams DEF re

\* A filter without "+" above: its levels above the last are the topic's.
LEMMA AboveIsLiteral ==
  ASSUME NEW f \in Seq(Character), NEW t \in Seq(Character), PlainTopic(t),
         NEW n \in Nat, n <= Len(f), n <= Len(t), \A j \in 1..n : f[j] = t[j]
  PROVE  \A j \in 1..n : /\ expression(f)[j] = t[j]
                         /\ t[j] \notin {"SINGLE", "MULTI", "$"}
<1> SUFFICES ASSUME NEW j \in 1..n
             PROVE  expression(f)[j] = t[j] /\ t[j] \notin {"SINGLE", "MULTI", "$"}
  OBVIOUS
<1>1. j \in 1..Len(f) /\ j \in 1..Len(t)
  OBVIOUS
<1>2. f[j] = t[j] /\ t[j] \notin {"+", "#", "$", "SINGLE", "MULTI"}
  BY <1>1, PlainCharacters
<1> QED  BY <1>1, <1>2, ExpressionIs

\* A wildcard level at the end, whose group takes all that is left.
LEMMA LastGroup ==
  ASSUME NEW f \in Seq(Character), NEW t \in Seq(Character), PlainTopic(t),
         NEW P \in Nat, P + 1 = Len(f), P + 1 <= Len(t), \A j \in 1..P : f[j] = t[j],
         expression(f)[P + 1] \in {"SINGLE", "MULTI"},
         advance(expression(f)[P + 1], t, P + 1) = Len(t) + 1
  PROVE  Params(f, t) = <<t, SubSeq(t, P + 1, Len(t))>>
<1> DEFINE re == expression(f)
           rest == SubSeq(t, P + 1, Len(t))
           q == Len(t) + 1
<1>1. re \in Seq(Character \cup {"SINGLE", "MULTI"}) /\ Len(re) = P + 1
  BY ExpressionIs
<1>2. \A j \in 1..P : re[j] = t[j] /\ t[j] \notin {"SINGLE", "MULTI", "$"}
  <2>1. P <= Len(f) /\ P <= Len(t)
    OBVIOUS
  <2> QED  BY <2>1, AboveIsLiteral
<1>3. re[P + 1] \in {"SINGLE", "MULTI"} /\ advance(re[P + 1], t, P + 1) = q
  OBVIOUS
<1>4. q # 0 /\ q - 1 = Len(t) /\ P + 1 # 0
  OBVIOUS
<1>5. ASSUME NEW m, Matches(m, re, t, 1) PROVE m[Len(re)] = [at |-> q, groups |-> <<rest>>]
  <2> DEFINE k == P + 1
             r == [at |-> k, groups |-> <<>>]
  <2>1. P \in 0..Len(re) /\ P <= Len(t)
    BY <1>1
  <2> HIDE DEF re
  <2>2. m[P] = r
    BY <1>1, <1>2, <1>5, <2>1, LiteralPrefix
  <2>3. k \in 1..Len(re) /\ k - 1 = P
    BY <1>1
  <2> HIDE DEF q
  <2>4. m[k] = MatchStep(re, t, k, r)
    BY <1>5, <2>2, <2>3 DEF Matches
  <2>5. re[k] \in {"SINGLE", "MULTI"} /\ advance(re[k], t, k) = q /\ k # 0
    BY <1>3, <1>4
  <2> HIDE DEF k
  <2>6. MatchStep(re, t, k, r) = [at |-> q, groups |-> Append(<<>>, SubSeq(t, k, q - 1))]
    BY <1>4, <2>5 DEF MatchStep
  <2>7. Append(<<>>, SubSeq(t, k, q - 1)) = <<rest>>
    BY <1>4 DEF k
  <2> QED  BY <1>1, <2>4, <2>6, <2>7 DEF k
<1>6. Params(f, t) = <<SubSeq(t, 1, q - 1)>> \o <<rest>>
  <2> DEFINE r == [at |-> q, groups |-> <<rest>>]
  <2> HIDE DEF q, rest
  <2>1. r.at = q /\ r.groups = <<rest>> /\ r.at # 0
    BY <1>4
  <2>2. \A m : Matches(m, re, t, 1) => m[Len(re)] = r
    BY <1>5
  <2> HIDE DEF r
  <2>3. Params(f, t) = <<SubSeq(t, 1, r.at - 1)>> \o r.groups
    BY <2>1, <2>2, ParamsFrom
  <2> QED  BY <2>1, <2>3
<1>7. SubSeq(t, 1, q - 1) = t
  BY <1>4
<1> HIDE DEF rest
<1>8. <<t>> \o <<rest>> = <<t, rest>>
  BY OneOrTwo
<1> QED  BY <1>6, <1>7, <1>8 DEF rest

\* A valid filter that covers a plain topic: what the expression finds.
LEMMA ParamsAre ==
  ASSUME NEW f \in Seq(Character), NEW t \in Seq(Character), Covers(f, t), PlainTopic(t)
  PROVE  LET fs == Split(f)
             ts == Split(t)
             above == Len(fs) - 1
         IN  IF \/ \E i \in 1..above : fs[i] = Plus
                \/ Last(fs) = Hash /\ above > 0 /\ Len(ts) = above
             THEN Params(f, t) = <<>>
             ELSE Params(f, t) = IF Last(fs) \in {Plus, Hash}
                                 THEN <<t, SubSeq(t, from(t, above + 1) + 1, Len(t))>>
                                 ELSE <<t>>
<1> DEFINE fs == Split(f)
           ts == Split(t)
           above == Len(fs) - 1
           P == from(t, above + 1)
           re == expression(f)
<1>1. /\ Len(fs) \in Nat \ {0} /\ Len(ts) \in Nat \ {0}
      /\ Last(fs) = fs[Len(fs)]
      /\ \A k \in 1..above : fs[k] \in {Plus, ts[k]}
      /\ \/ Last(fs) = Hash /\ above <= Len(ts)
         \/ Last(fs) \in {Plus, Last(ts)} /\ Len(fs) = Len(ts)
      /\ Last(ts) = ts[Len(ts)] /\ Last(ts) \notin {Plus, Hash}
  BY CoveredLevels
<1>2. /\ Len(fs) = slashes(f, Len(f)) + 1 /\ Len(ts) = slashes(t, Len(t)) + 1
      /\ Len(f) \in Nat /\ Len(t) \in Nat /\ slashes(f, Len(f)) \in Nat /\ slashes(t, Len(t)) \in Nat
  <2>1. Len(fs) = slashes(f, Len(f)) + 1 /\ Len(ts) = slashes(t, Len(t)) + 1 /\ Len(f) \in Nat /\ Len(t) \in Nat
    BY SplitType
  <2>2. Len(f) \in 0..Len(f) /\ Len(t) \in 0..Len(t)
    BY <2>1
  <2> QED  BY <2>1, <2>2, SlashCount
<1>3. re \in Seq(Character \cup {"SINGLE", "MULTI"}) /\ Len(re) = Len(f)
  BY ExpressionIs
<1>4. above \in Nat /\ above + 1 = Len(fs)
  BY <1>1
<1>5. CASE \E i \in 1..above : fs[i] = Plus
  BY <1>5, PlusAbove
<1>6. CASE ~(\E i \in 1..above : fs[i] = Plus) /\ (Last(fs) = Hash /\ above > 0 /\ Len(ts) = above)
  <2>1. \A k \in 1..above : Split(f)[k] = Split(t)[k]
    BY <1>1, <1>6
  <2> DEFINE n == above - 1
  <2>2. n \in Nat /\ n + 1 = above /\ n < Len(Split(f)) /\ n < Len(Split(t))
    BY <1>1, <1>6
  <2> HIDE DEF n
  <2>3. \A k \in 1..n : Split(f)[k] = Split(t)[k]
    BY <2>1, <2>2
  <2>4. from(f, n + 1) = from(t, n + 1) /\ \A j \in 1..from(f, n + 1) : f[j] = t[j]
    BY <2>2, <2>3, SamePrefix
  <2> DEFINE a == above
  <2>5. /\ a \in 1..Len(Split(f)) /\ a \in 1..Len(Split(t)) /\ Split(f)[a] = Split(t)[a]
        /\ from(f, a) = from(t, a) /\ \A j \in 1..from(f, a) : f[j] = t[j]
    <3>1. a \in 1..above
      BY <1>4, <1>6
    <3> QED  BY <1>1, <1>6, <2>1, <2>2, <2>4, <3>1
  <2>6. a \in 1..slashes(f, Len(f)) + 1 /\ a \in 1..slashes(t, Len(t)) + 1 /\ a <= slashes(f, Len(f)) /\ a = slashes(t, Len(t)) + 1
    BY <1>1, <1>2, <1>6
  <2> HIDE DEF a, fs, ts
  <2>7. to(f, a) = to(t, a) /\ \A j \in 1..to(f, a) : f[j] = t[j]
    BY <2>5, LevelAlong
  <2>8. to(t, a) = Len(t) /\ to(f, a) < Len(f) /\ f[to(f, a) + 1] = "/"
    BY <1>2, <2>6, LevelEdges
  <2>9. \A j \in 1..Len(t) : re[j] = t[j] /\ t[j] \notin {"SINGLE", "MULTI", "$"}
    <3>1. Len(t) \in Nat /\ Len(t) <= Len(f) /\ Len(t) <= Len(t) /\ \A j \in 1..Len(t) : f[j] = t[j]
      BY <1>2, <2>7, <2>8
    <3> QED  BY <3>1, AboveIsLiteral
  <2> DEFINE N == Len(t) + 1
  <2>10. N \in 1..Len(f) /\ N > Len(t) /\ f[N] = "/"
    BY <1>2, <2>7, <2>8
  <2>11. re[N] = "/"
    BY <2>10, ExpressionIs
  <2>12. \A j \in 1..N : re[j] \notin {"SINGLE", "MULTI", "$"}
    <3>1. \A j \in 1..N : j \in 1..Len(t) \/ j = N
      BY <1>2
    <3> HIDE DEF N, re
    <3> QED  BY <2>9, <2>11, <3>1
  <2> HIDE DEF N, re
  <2>13. N \in 1..Len(re)
    BY <1>3, <2>10
  <2>14. ASSUME NEW i \in 1..Len(t) + 1, NEW m, Matches(m, re, t, i) PROVE m[Len(re)].at = 0
    BY <1>3, <2>10, <2>12, <2>13, <2>14, TooLong
  <2>15. Params(f, t) = <<>>
    BY <2>14, NoParams DEF re
  <2> QED  BY <1>6, <2>15 DEF fs, ts
<1>7. CASE ~(\E i \in 1..above : fs[i] = Plus) /\ ~(Last(fs) = Hash /\ above > 0 /\ Len(ts) = above)
  <2>1. \A k \in 1..above : Split(f)[k] = Split(t)[k]
    BY <1>1, <1>7
  <2>2. above < Len(ts)
    <3>1. CASE Last(fs) = Hash /\ above <= Len(ts)
      <4>0. ~(above > 0 /\ Len(ts) = above)
        BY <1>7, <3>1
      <4>1. above = 0 \/ Len(ts) # above
        <5> HIDE DEF above, fs, ts
        <5> QED  BY <1>4, <4>0
      <4> HIDE DEF above, fs, ts
      <4> QED  BY <1>1, <1>4, <3>1, <4>1
    <3>2. CASE Len(fs) = Len(ts)
      BY <1>1, <3>2
    <3> QED  BY <1>1, <3>1, <3>2
  <2>3. from(f, above + 1) = P /\ \A j \in 1..P : f[j] = t[j]
    <3>1. above < Len(Split(f)) /\ above < Len(Split(t))
      BY <1>1, <2>2
    <3> HIDE DEF above, fs, ts
    <3>2. from(f, above + 1) = from(t, above + 1) /\ \A j \in 1..from(f, above + 1) : f[j] = t[j]
      BY <1>4, <2>1, <3>1, SamePrefix
    <3> QED  BY <3>2
  <2> DEFINE k == Len(fs)
  <2>4. /\ k \in 1..Len(Split(f)) /\ k \in 1..Len(Split(t)) /\ from(t, k) = P /\ from(f, k) = P
        /\ k \in 1..slashes(f, Len(f)) + 1 /\ k \in 1..slashes(t, Len(t)) + 1 /\ k = slashes(f, Len(f)) + 1
    BY <1>1, <1>2, <1>4, <2>2, <2>3
  <2> HIDE DEF fs, ts, above, P, re
  <2>5. P \in Nat /\ P < to(t, k) /\ to(t, k) <= Len(t) /\ P + 1 <= Len(t) /\ to(t, k) \in Nat
    BY <1>2, <2>4, LevelNotEmpty
  <2>6. CASE Last(fs) \notin {Plus, Hash}
    <3>1. Last(fs) = Last(ts) /\ Len(fs) = Len(ts)
      BY <1>1, <2>6
    <3>2. Split(f)[k] = Split(t)[k]
      BY <1>1, <3>1 DEF fs, ts
    <3> HIDE DEF k
    <3>3. to(f, k) = to(t, k) /\ \A j \in 1..to(f, k) : f[j] = t[j]
      BY <2>3, <2>4, <3>2, LevelAlong
    <3>4. to(f, k) = Len(f) /\ to(t, k) = Len(t)
      <4>1. k = slashes(t, Len(t)) + 1
        BY <1>2, <3>1 DEF k
      <4> QED  BY <1>2, <2>4, <4>1, LevelEdges
    <3>0. Len(f) = Len(t) /\ \A j \in 1..Len(t) : f[j] = t[j]
      BY <3>3, <3>4
    <3>5. \A j \in 1..Len(t) : re[j] = t[j] /\ t[j] \notin {"SINGLE", "MULTI", "$"}
      <4>1. Len(t) \in Nat /\ Len(t) <= Len(f) /\ Len(t) <= Len(t) /\ \A j \in 1..Len(t) : f[j] = t[j]
        BY <1>2, <3>0
      <4> QED  BY <4>1, AboveIsLiteral DEF re
    <3> DEFINE q == Len(t) + 1
    <3>6. q # 0 /\ q - 1 = Len(t) /\ Len(re) = Len(t) /\ Len(t) \in 0..Len(re) /\ Len(t) <= Len(t)
      BY <1>2, <1>3, <3>0
    <3>7. ASSUME NEW m, Matches(m, re, t, 1) PROVE m[Len(re)] = [at |-> q, groups |-> <<>>]
      <4> DEFINE n == Len(t)
      <4>0. n \in 0..Len(re) /\ n <= Len(t) /\ \A j \in 1..n : re[j] = t[j] /\ t[j] \notin {"SINGLE", "MULTI", "$"}
        BY <3>5, <3>6
      <4> HIDE DEF n
      <4>1. m[n] = [at |-> n + 1, groups |-> <<>>]
        BY <1>3, <3>7, <4>0, LiteralPrefix
      <4> QED  BY <3>6, <4>1 DEF n
    <3> HIDE DEF q
    <3>8. Params(f, t) = <<SubSeq(t, 1, q - 1)>> \o <<>>
      <4> DEFINE r == [at |-> q, groups |-> <<>>]
      <4>1. r.at = q /\ r.groups = <<>> /\ r.at # 0
        BY <3>6
      <4>2. \A m : Matches(m, expression(f), t, 1) => m[Len(expression(f))] = r
        BY <3>7 DEF re
      <4> HIDE DEF r
      <4>3. Params(f, t) = <<SubSeq(t, 1, r.at - 1)>> \o r.groups
        BY <4>1, <4>2, ParamsFrom
      <4> QED  BY <4>1, <4>3
    <3>9. SubSeq(t, 1, q - 1) = t
      BY <3>6
    <3>10. Params(f, t) = <<t>>
      BY <3>8, <3>9, OneOrTwo
    <3> QED  BY <1>7, <2>6, <3>10 DEF fs, ts, above
  <2>7. ASSUME NEW c \in {"+", "#"}, Last(fs) = <<c>>
        PROVE  P + 1 = Len(f) /\ f[P + 1] = c /\ isLevel(f, P + 1)
    <3>1. Split(f)[k] = <<c>> /\ k = Len(Split(f))
      BY <1>1, <2>7 DEF fs
    <3> HIDE DEF k
    <3> QED  BY <2>4, <3>1, WildLevel
  <2>8. \A j \in P + 1..to(t, k) : t[j] # "/"
    BY <1>2, <2>4, LevelEdges
  <2>9. \A j \in 1..Len(t) : Word(t[j]) \/ t[j] = "/"
    BY PlainCharacters
  <2>10. CASE Last(fs) = Plus
    <3>1. P + 1 = Len(f) /\ re[P + 1] = "SINGLE"
      <4>1. P + 1 = Len(f) /\ f[P + 1] = "+" /\ isLevel(f, P + 1)
        BY <2>7, <2>10 DEF Plus
      <4>2. P + 1 \in 1..Len(f)
        BY <2>5, <4>1
      <4> QED  BY <4>1, <4>2, ExpressionIs DEF re
    <3>2. to(t, k) = Len(t)
      <4>1. Len(fs) = Len(ts)
        BY <1>1, <2>10 DEF Plus, Hash
      <4>2. k = slashes(t, Len(t)) + 1
        BY <1>2, <4>1
      <4> QED  BY <1>2, <2>4, <4>2, LevelEdges
    <3> DEFINE z == Stop(t, P + 1)
    <3>3. P + 1 \in 1..Len(t) + 1
      BY <1>2, <2>5
    <3>4. /\ z \in P + 1..Len(t) + 1
          /\ z > Len(t) \/ ~Word(t[z])
      BY <3>3, StopIs
    <3> HIDE DEF z, k
    <3>5. z = Len(t) + 1
      <4> SUFFICES ASSUME z # Len(t) + 1 PROVE FALSE
        OBVIOUS
      <4>1. z \in P + 1..to(t, k) /\ z \in 1..Len(t) /\ ~Word(t[z])
        BY <1>2, <2>5, <3>2, <3>4
      <4> QED  BY <2>8, <2>9, <4>1
    <3>6. advance("SINGLE", t, P + 1) =
            IF z = P + 1 \/ (z <= Len(t) /\ t[z] # "/") THEN 0 ELSE IF z <= Len(t) THEN z + 1 ELSE z
      BY AdvanceIs DEF z
    <3>7. advance(re[P + 1], t, P + 1) = Len(t) + 1
      <4>1. ~(z = P + 1) /\ ~(z <= Len(t))
        BY <1>2, <2>5, <3>5
      <4> QED  BY <3>1, <3>5, <3>6, <4>1
    <3>8. Params(f, t) = <<t, SubSeq(t, P + 1, Len(t))>>
      BY <2>3, <2>5, <3>1, <3>7, LastGroup DEF re
    <3> QED  BY <1>7, <2>10, <3>8 DEF fs, ts, above, P
  <2>11. CASE Last(fs) = Hash
    <3>1. P + 1 = Len(f) /\ re[P + 1] = "MULTI"
      <4>1. P + 1 = Len(f) /\ f[P + 1] = "#" /\ isLevel(f, P + 1)
        BY <2>7, <2>11 DEF Hash
      <4>2. P + 1 \in 1..Len(f)
        BY <2>5, <4>1
      <4> QED  BY <4>1, <4>2, ExpressionIs DEF re
    <3> HIDE DEF k
    <3>2. ASSUME NEW j \in P + 1..Len(t)
          PROVE  Word(t[j]) \/ (t[j] = "/" /\ j > P + 1 /\ t[j - 1] # "/")
      <4> SUFFICES ASSUME ~Word(t[j]) PROVE t[j] = "/" /\ j > P + 1 /\ t[j - 1] # "/"
        OBVIOUS
      <4>1. j \in 1..Len(t)
        BY <1>2, <2>5
      <4>2. t[j] = "/"
        BY <2>9, <4>1
      <4>3. t[j - 1] # "/"
        BY <4>1, <4>2, PlainSlashes
      <4>4. j # P + 1
        <5>1. P + 1 \in P + 1..to(t, k)
          BY <2>5
        <5> QED  BY <2>8, <4>2, <5>1
      <4> QED  BY <2>5, <4>2, <4>3, <4>4
    <3>3. advance("MULTI", t, P + 1) = Len(t) + 1
      BY <3>2, AdvanceIs
    <3>4. Params(f, t) = <<t, SubSeq(t, P + 1, Len(t))>>
      BY <2>3, <2>5, <3>1, <3>3, LastGroup DEF re
    <3> QED  BY <1>7, <2>11, <3>4 DEF fs, ts, above, P
  <2> QED  BY <2>6, <2>10, <2>11
<1> QED  BY <1>5, <1>6, <1>7

\* The expression finds the topic and the wildcard of the last level in every plain topic
\* the filter covers, and nothing in the named cases.
THEOREM WildcardGroups == RowSpec => []WildcardsFound
<1>1. RowInv => WildcardsFound
  <2> SUFFICES ASSUME RowInv, outcome = "stored", PlainTopic(arrived.topic) PROVE WildcardsFound
    BY DEF WildcardsFound
  <2> DEFINE t == arrived.topic
             above == Len(Split(filter)) - 1
             rest == SubSeq(t, from(t, above + 1) + 1, Len(t))
             wild == Last(Split(filter)) \in {Plus, Hash}
             lost == \/ \E i \in 1..above : Split(filter)[i] = Plus
                     \/ Last(Split(filter)) = Hash /\ above > 0 /\ Len(Split(t)) = above
  <2>1. filter \in Seq(Character) /\ t \in Seq(Character)
    <3>1. filter \in WatchFilters /\ t \in RowTopics
      BY DEF RowInv, RowTypeOK
    <3> QED  BY <3>1, RowsAssumption
  <2>2. Covers(filter, t)
    BY <2>1, MatchCovers DEF RowInv
  <2>3. row.params = Params(filter, t)
    BY DEF RowInv
  <2>4. IF lost THEN Params(filter, t) = <<>>
                ELSE Params(filter, t) = IF wild THEN <<t, rest>> ELSE <<t>>
    <3> HIDE DEF RowInv
    <3> QED  BY <2>1, <2>2, ParamsAre
  <2>5. WildcardsFound <=>
          IF lost THEN row.params = <<>>
                  ELSE /\ row.params[1] = t
                       /\ Len(row.params) = IF wild THEN 2 ELSE 1
                       /\ wild => row.params[2] = rest
    BY DEF WildcardsFound
  <2> HIDE DEF lost, wild, rest, t, RowInv
  <2> QED  BY <2>3, <2>4, <2>5
<1> QED  BY <1>1, RowInvariance, PTL
=============================================================================
