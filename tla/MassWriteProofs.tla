--------------------------- MODULE MassWriteProofs ---------------------------
(***************************************************************************)
(* Theorems about MassWrite, for every nesting of where lists, every map,  *)
(* batch and table: the two walks over a where list agree, so that binding *)
(* gives back what the caller said, and a write does what it was asked.    *)
(*                                                                         *)
(* Walks are recursive functions on lists of clauses.  That they exist,    *)
(* and what they return, goes by the least counterexample: a nonempty set  *)
(* of lists has one whose tail and whose head's inner list are not in it.  *)
(***************************************************************************)
EXTENDS MassWrite, SequenceTheorems, FiniteSetTheorems, WellFoundedInduction,
        TLAPS

LEMMA LeastNumber ==
    ASSUME NEW T \in SUBSET Nat, T # {}
    PROVE  \E n \in T : \A m \in T : n <= m
<1>1. \E n \in T : \A m \in T : ~ (<<m, n>> \in OpToRel(<, Nat))
  BY NatLessThanWellFounded, WFMin, Zenon
<1>2. PICK n \in T : \A m \in T : ~ (<<m, n>> \in OpToRel(<, Nat))
  BY <1>1, Zenon
<1>3. ASSUME NEW m \in T PROVE ~(m < n)
  BY <1>2, <1>3, Zenon DEF OpToRel
<1> QED  BY <1>3

\* Induction, for a set of numbers.
LEMMA AllNumbers ==
    ASSUME NEW T, 0 \in T, \A n \in Nat : n \in T => n + 1 \in T
    PROVE  \A n \in Nat : n \in T
<1> SUFFICES ASSUME NEW k \in Nat, k \notin T PROVE FALSE
  OBVIOUS
<1> DEFINE Out == {n \in Nat : n \notin T}
<1>1. PICK n \in Out : \A m \in Out : n <= m
  BY LeastNumber
<1>2. n # 0 /\ n - 1 \in Nat /\ n - 1 \notin Out
  BY <1>1
<1> QED  BY <1>1, <1>2

-----------------------------------------------------------------------------
(***************************************************************************)
(* Lists of clauses.                                                       *)
(***************************************************************************)
\* The clauses of one depth, from a function that gives those of the depth
\* below; functions that get so far as depth n.
ClausesWith(lists) ==
    [col : Names, values : Seq(Nat), second : Names, count : Seq(Nat),
     boolean : {"AND", "OR"}, kind : Kinds, inner : lists]
Level(g, depth) == ClausesWith(IF depth = 0 THEN {<<>>} ELSE Seq(g[depth - 1]))
SoFar(g, n) == g = [depth \in 0 .. n |-> Level(g, depth)]

LEMMA SameLevel ==
    ASSUME NEW g, NEW h, NEW depth \in Nat,
           depth # 0 => g[depth - 1] = h[depth - 1]
    PROVE  Level(g, depth) = Level(h, depth)
<1>1. (IF depth = 0 THEN {<<>>} ELSE Seq(g[depth - 1]))
         = (IF depth = 0 THEN {<<>>} ELSE Seq(h[depth - 1]))
  OBVIOUS
<1> QED  BY <1>1, Zenon DEF Level

LEMMA SoFarExists ==
    \A n \in Nat : \E g : SoFar(g, n)
<1> DEFINE T == {n \in Nat : \E g : SoFar(g, n)}
<1>1. 0 \in T
  <2> DEFINE g == [depth \in 0 .. 0 |-> Level(<<>>, depth)]
  <2>1. \A depth \in 0 .. 0 : depth = 0 /\ depth \in Nat
    OBVIOUS
  <2>2. \A depth \in 0 .. 0 : Level(<<>>, depth) = Level(g, depth)
    BY <2>1, SameLevel
  <2>3. SoFar(g, 0)
    BY <2>2, Zenon DEF SoFar
  <2> QED  BY <2>3
<1>2. ASSUME NEW n \in Nat, n \in T PROVE n + 1 \in T
  <2>1. PICK g : SoFar(g, n)
    BY <1>2
  <2> DEFINE h == [depth \in 0 .. n + 1 |-> Level(g, depth)]
  <2>2. \A depth \in 0 .. n : g[depth] = Level(g, depth)
    BY <2>1, Zenon DEF SoFar
  <2>3. ASSUME NEW depth \in 0 .. n + 1
        PROVE  Level(g, depth) = Level(h, depth)
    <3>1. ASSUME depth # 0 PROVE g[depth - 1] = h[depth - 1]
      <4>1. depth - 1 \in 0 .. n /\ depth - 1 \in 0 .. n + 1
        BY <3>1
      <4>2. h[depth - 1] = Level(g, depth - 1)
        BY <4>1, Zenon
      <4> QED  BY <2>2, <4>1, <4>2
    <3>2. depth \in Nat
      OBVIOUS
    <3> HIDE DEF h
    <3> QED  BY <3>1, <3>2, SameLevel
  <2>4. SoFar(h, n + 1)
    BY <2>3, Zenon DEF SoFar
  <2> QED  BY <2>4
<1> HIDE DEF T
<1>3. \A n \in Nat : n \in T
  BY <1>1, <1>2, AllNumbers
<1> QED  BY <1>3 DEF T

\* Two such functions agree as far as both get.
LEMMA SoFarAgree ==
    ASSUME NEW m \in Nat, NEW n \in Nat, NEW g, NEW h, SoFar(g, m), SoFar(h, n)
    PROVE  \A k \in Nat : k <= m /\ k <= n => g[k] = h[k]
<1> DEFINE T == {k \in Nat : k <= m /\ k <= n => g[k] = h[k]}
<1>1. /\ \A depth \in 0 .. m : g[depth] = Level(g, depth)
      /\ \A depth \in 0 .. n : h[depth] = Level(h, depth)
  BY Zenon DEF SoFar
<1>2. 0 \in T
  <2>1. Level(g, 0) = Level(h, 0)
    BY SameLevel
  <2> QED  BY <1>1, <2>1
<1>3. ASSUME NEW k \in Nat, k \in T PROVE k + 1 \in T
  <2> SUFFICES ASSUME k + 1 <= m, k + 1 <= n PROVE g[k + 1] = h[k + 1]
    OBVIOUS
  <2>1. g[k] = h[k]
    BY <1>3
  <2>2. k + 1 \in Nat /\ (k + 1) - 1 = k
    OBVIOUS
  <2>3. Level(g, k + 1) = Level(h, k + 1)
    BY <2>1, <2>2, SameLevel
  <2> QED  BY <1>1, <2>3
<1> HIDE DEF T
<1>4. \A k \in Nat : k \in T
  BY <1>2, <1>3, AllNumbers
<1> QED  BY <1>4 DEF T

LEMMA NestedDef ==
    Nested = [depth \in Nat |-> Level(Nested, depth)]
<1> DEFINE Upto(n) == CHOOSE g : SoFar(g, n)
           f == [depth \in Nat |-> Upto(depth)[depth]]
<1>1. \A n \in Nat : SoFar(Upto(n), n)
  BY SoFarExists, Zenon
<1> HIDE DEF Upto
<1>2. ASSUME NEW n \in Nat PROVE f[n] = Level(f, n)
  <2>1. f[n] = Upto(n)[n] /\ n \in 0 .. n
    OBVIOUS
  <2>2. Upto(n)[n] = Level(Upto(n), n)
    BY <1>1, <2>1, Zenon DEF SoFar
  <2>3. ASSUME n # 0 PROVE Upto(n)[n - 1] = f[n - 1]
    <3>1. n - 1 \in Nat /\ n - 1 <= n /\ n - 1 <= n - 1
      BY <2>3
    <3>2. Upto(n)[n - 1] = Upto(n - 1)[n - 1]
      BY <1>1, <3>1, SoFarAgree
    <3> QED  BY <3>1, <3>2
  <2> HIDE DEF f
  <2>4. Level(Upto(n), n) = Level(f, n)
    BY <2>3, SameLevel
  <2> QED  BY <2>1, <2>2, <2>4
<1>3. f = [depth \in Nat |-> Level(f, depth)]
  <2>1. f = [depth \in Nat |-> f[depth]]
    OBVIOUS
  <2> HIDE DEF f
  <2> QED  BY <1>2, <2>1, Zenon
<1>4. \E g : g = [depth \in Nat |-> Level(g, depth)]
  BY <1>3, Zenon
<1> QED  BY <1>4, Zenon DEF Nested, Level, ClausesWith

LEMMA NestedIs ==
    ASSUME NEW depth \in Nat
    PROVE  Nested[depth] = Level(Nested, depth)
BY NestedDef, Zenon

LEMMA MoreLists ==
    ASSUME NEW I, NEW J, I \subseteq J
    PROVE  ClausesWith(I) \subseteq ClausesWith(J)
BY DEF ClausesWith

LEMMA NestedGrows ==
    \A n \in Nat : Nested[n] \subseteq Nested[n + 1]
<1> DEFINE T == {n \in Nat : Nested[n] \subseteq Nested[n + 1]}
<1>1. 0 \in T
  <2>1. Nested[0] = Level(Nested, 0) /\ Nested[0 + 1] = Level(Nested, 1)
    BY NestedIs
  <2>2. <<>> \in Seq(Nested[0])
    OBVIOUS
  <2>3. Level(Nested, 0) \subseteq Level(Nested, 1)
    <3>1. /\ Level(Nested, 0) = ClausesWith({<<>>})
          /\ Level(Nested, 1) = ClausesWith(Seq(Nested[0]))
      <4>1. 1 - 1 = 0 /\ 1 # 0
        OBVIOUS
      <4> QED  BY <4>1, Zenon DEF Level
    <3>2. {<<>>} \subseteq Seq(Nested[0])
      BY <2>2
    <3>3. ClausesWith({<<>>}) \subseteq ClausesWith(Seq(Nested[0]))
      BY <3>2, MoreLists
    <3> QED  BY <3>1, <3>3, Zenon
  <2> QED  BY <2>1, <2>3
<1>2. ASSUME NEW n \in Nat, n \in T PROVE n + 1 \in T
  <2>1. /\ Nested[n + 1] = Level(Nested, n + 1)
        /\ Nested[(n + 1) + 1] = Level(Nested, (n + 1) + 1)
    BY NestedIs
  <2>2. Seq(Nested[n]) \subseteq Seq(Nested[n + 1])
    BY <1>2, SeqMonotonic
  <2>3. /\ (n + 1) - 1 = n /\ ((n + 1) + 1) - 1 = n + 1
        /\ n + 1 # 0 /\ (n + 1) + 1 # 0
    OBVIOUS
  <2>4. Level(Nested, n + 1) \subseteq Level(Nested, (n + 1) + 1)
    BY <2>2, <2>3, MoreLists DEF Level
  <2> QED  BY <2>1, <2>4
<1> HIDE DEF T
<1>3. \A n \in Nat : n \in T
  BY <1>1, <1>2, AllNumbers
<1> QED  BY <1>3 DEF T

LEMMA DeeperHasMore ==
    ASSUME NEW m \in Nat, NEW n \in Nat, m <= n
    PROVE  Nested[m] \subseteq Nested[n] /\ Seq(Nested[m]) \subseteq Seq(Nested[n])
<1> DEFINE T == {k \in Nat : Nested[m] \subseteq Nested[m + k]}
<1>1. 0 \in T
  BY m + 0 = m
<1>2. ASSUME NEW k \in Nat, k \in T PROVE k + 1 \in T
  <2>1. Nested[m + k] \subseteq Nested[(m + k) + 1] /\ (m + k) + 1 = m + (k + 1)
    BY NestedGrows
  <2> QED  BY <1>2, <2>1
<1> HIDE DEF T
<1>3. n - m \in T
  BY <1>1, <1>2, AllNumbers
<1>4. Nested[m] \subseteq Nested[n]
  <2>1. m + (n - m) = n
    OBVIOUS
  <2> QED  BY <1>3, <2>1 DEF T
<1> QED  BY <1>4, SeqMonotonic

\* A list that is not empty has a head, with a list in it, and a tail.
LEMMA Parts ==
    ASSUME NEW depth \in Nat, NEW l \in Seq(Nested[depth]), l # <<>>
    PROVE  /\ Head(l) \in Level(Nested, depth) /\ Tail(l) \in Seq(Nested[depth])
           /\ Len(Tail(l)) < Len(l) /\ Len(Tail(l)) \in Nat /\ Len(l) \in Nat
           /\ l = <<Head(l)>> \o Tail(l)
           /\ depth = 0 => Head(l).inner = <<>>
           /\ depth # 0 => Head(l).inner \in Seq(Nested[depth - 1])
           /\ Head(l).inner \in Seq(Nested[depth])
           /\ Head(l).values \in Seq(Nat) /\ Head(l).count \in Seq(Nat)
<1>1. Nested[depth] = Level(Nested, depth)
  BY NestedIs
<1>2. /\ Head(l) \in Nested[depth] /\ Tail(l) \in Seq(Nested[depth])
      /\ Len(Tail(l)) = Len(l) - 1 /\ Len(l) \in Nat \ {0}
  BY HeadTailProperties, EmptySeq
<1>3. /\ Head(l) \in Level(Nested, depth)
      /\ Head(l).values \in Seq(Nat) /\ Head(l).count \in Seq(Nat)
      /\ depth = 0 => Head(l).inner = <<>>
      /\ depth # 0 => Head(l).inner \in Seq(Nested[depth - 1])
  BY <1>1, <1>2 DEF Level, ClausesWith
<1>4. Head(l).inner \in Seq(Nested[depth])
  <2>1. depth # 0 => depth - 1 \in Nat /\ depth - 1 <= depth
    OBVIOUS
  <2>2. <<>> \in Seq(Nested[depth])
    OBVIOUS
  <2> QED  BY <1>3, <2>1, <2>2, DeeperHasMore
<1>5. l = <<Head(l)>> \o Tail(l)
  BY <1>2
<1> QED  BY <1>2, <1>3, <1>4, <1>5

\* Induction, for a set of lists.
LEMMA AllLists ==
    ASSUME NEW depth \in Nat, NEW T, <<>> \in T,
           \A l \in Seq(Nested[depth]) :
              l # <<>> /\ Tail(l) \in T /\ Head(l).inner \in T => l \in T
    PROVE  \A l \in Seq(Nested[depth]) : l \in T
<1> SUFFICES ASSUME NEW some \in Seq(Nested[depth]), some \notin T PROVE FALSE
  OBVIOUS
<1> DEFINE Out(n) == {l \in Seq(Nested[n]) : l \notin T}
           Depths == {n \in 0 .. depth : Out(n) # {}}
<1>1. PICK n \in Depths : \A m \in Depths : n <= m
  <2>1. depth \in Depths /\ Depths \subseteq Nat
    OBVIOUS
  <2> HIDE DEF Depths
  <2> QED  BY <2>1, LeastNumber
<1>2. n \in Nat /\ n <= depth /\ Out(n) # {}
  OBVIOUS
<1> DEFINE Lengths == {Len(l) : l \in Out(n)}
<1>3. PICK k \in Lengths : \A j \in Lengths : k <= j
  <2>1. \A l \in Out(n) : Len(l) \in Nat
    OBVIOUS
  <2>2. Lengths # {} /\ Lengths \subseteq Nat
    <3>1. PICK any \in Out(n) : TRUE
      BY <1>2
    <3>2. Len(any) \in Lengths
      OBVIOUS
    <3>3. Lengths \subseteq Nat
      BY <2>1
    <3> QED  BY <3>2, <3>3
  <2> HIDE DEF Lengths
  <2> QED  BY <2>2, LeastNumber
<1>4. PICK l \in Out(n) : k = Len(l)
  OBVIOUS
<1>5. l \in Seq(Nested[n]) /\ l \notin T /\ l # <<>>
  OBVIOUS
<1>6. l \in Seq(Nested[depth])
  BY <1>2, <1>5, DeeperHasMore
<1>7. /\ Tail(l) \in Seq(Nested[n]) /\ Len(Tail(l)) < Len(l)
      /\ Len(Tail(l)) \in Nat /\ Len(l) \in Nat
      /\ n = 0 => Head(l).inner = <<>>
      /\ n # 0 => Head(l).inner \in Seq(Nested[n - 1])
  BY <1>2, <1>5, Parts
<1>8. Tail(l) \in T
  <2>1. Tail(l) \in Out(n) => Len(Tail(l)) \in Lengths
    OBVIOUS
  <2>2. Len(Tail(l)) \notin Lengths
    <3> HIDE DEF Lengths
    <3> QED  BY <1>3, <1>4, <1>7
  <2> QED  BY <1>7, <2>1, <2>2
<1>9. Head(l).inner \in T
  <2>1. CASE n = 0
    BY <1>7, <2>1
  <2>2. CASE n # 0
    <3>1. n - 1 \notin Depths /\ n - 1 \in 0 .. depth
      BY <1>1, <1>2, <2>2
    <3>2. Out(n - 1) = {}
      BY <3>1
    <3> QED  BY <1>7, <2>2, <3>2
  <2> QED  BY <2>1, <2>2
<1> QED  BY <1>5, <1>6, <1>8, <1>9

-----------------------------------------------------------------------------
(***************************************************************************)
(* Walks: functions on lists that are given by their value for the empty   *)
(* list, and by a step from what they return for the list in the head and  *)
(* for the tail.                                                           *)
(***************************************************************************)
IsWalk(f, empty, step) ==
    f = [l \in Lists |-> IF l = <<>> THEN empty
                         ELSE step[<<l, f[Head(l).inner], f[Tail(l)]>>]]

\* The pairs of a list and a value are closed under the step.
Closed(P, V, empty, step) ==
    /\ <<<<>>, empty>> \in P
    /\ \A l \in Lists, a \in V, b \in V :
          l # <<>> /\ <<Head(l).inner, a>> \in P /\ <<Tail(l), b>> \in P
             => <<l, step[<<l, a, b>>]>> \in P

StepTo(V, step) ==
    \A l \in Lists, a \in V, b \in V : l # <<>> => step[<<l, a, b>>] \in V

LEMMA InLists ==
    /\ <<>> \in Lists
    /\ \A l \in Lists : l # <<>> => /\ Head(l).inner \in Lists /\ Tail(l) \in Lists
                                    /\ l = <<Head(l)>> \o Tail(l)
                                    /\ Head(l).values \in Seq(Nat)
                                    /\ Head(l).count \in Seq(Nat)
<1>1. Nesting + 1 \in Nat
  BY ConstantsAssumption
<1>2. <<>> \in Seq(Nested[Nesting + 1])
  OBVIOUS
<1> QED  BY <1>1, <1>2, Parts DEF Lists

LEMMA ListInduction ==
    ASSUME NEW T, <<>> \in T,
           \A l \in Lists : l # <<>> /\ Tail(l) \in T /\ Head(l).inner \in T => l \in T
    PROVE  \A l \in Lists : l \in T
<1>1. Nesting + 1 \in Nat
  BY ConstantsAssumption
<1> QED  BY <1>1, AllLists DEF Lists

LEMMA WalkExists ==
    ASSUME NEW V, NEW empty \in V, NEW step, StepTo(V, step)
    PROVE  \E f : IsWalk(f, empty, step)
<1> DEFINE All == Lists \X V
           Graph == {p \in All : \A P \in SUBSET All :
                                    Closed(P, V, empty, step) => p \in P}
<1>1. \A l \in Lists : l # <<>> => Head(l).inner \in Lists /\ Tail(l) \in Lists
  BY InLists
<1>2. Graph \in SUBSET All
  OBVIOUS
<1>3. \A P \in SUBSET All : Closed(P, V, empty, step) => Graph \subseteq P
  OBVIOUS
<1>4. Closed(Graph, V, empty, step)
  <2>1. <<<<>>, empty>> \in Graph
    BY InLists DEF Closed
  <2>2. ASSUME NEW l \in Lists, NEW a \in V, NEW b \in V, l # <<>>,
               <<Head(l).inner, a>> \in Graph, <<Tail(l), b>> \in Graph
        PROVE  <<l, step[<<l, a, b>>]>> \in Graph
    <3>1. <<l, step[<<l, a, b>>]>> \in All
      BY <2>2 DEF StepTo
    <3>2. ASSUME NEW P \in SUBSET All, Closed(P, V, empty, step)
          PROVE  <<l, step[<<l, a, b>>]>> \in P
      <4>1. <<Head(l).inner, a>> \in P /\ <<Tail(l), b>> \in P
        BY <2>2, <3>2
      <4> QED  BY <2>2, <3>2, <4>1 DEF Closed
    <3> QED  BY <3>1, <3>2
  <2> HIDE DEF Graph
  <2> QED  BY <2>1, <2>2 DEF Closed
<1> HIDE DEF Graph
<1>5. ASSUME NEW v \in V, <<<<>>, v>> \in Graph PROVE v = empty
  <2> SUFFICES ASSUME v # empty PROVE FALSE
    OBVIOUS
  <2> DEFINE P == Graph \ {<<<<>>, v>>}
  <2>1. Closed(P, V, empty, step)
    BY <1>4 DEF Closed
  <2>2. P \in SUBSET All
    BY <1>2
  <2> QED  BY <1>3, <1>5, <2>1, <2>2
<1>6. ASSUME NEW l \in Lists, l # <<>>, NEW v \in V, <<l, v>> \in Graph
      PROVE  \E a \in V, b \in V : /\ <<Head(l).inner, a>> \in Graph
                                   /\ <<Tail(l), b>> \in Graph
                                   /\ v = step[<<l, a, b>>]
  <2> SUFFICES ASSUME \A a \in V, b \in V :
                         <<Head(l).inner, a>> \in Graph /\ <<Tail(l), b>> \in Graph
                            => v # step[<<l, a, b>>]
               PROVE  FALSE
    OBVIOUS
  <2> DEFINE P == Graph \ {<<l, v>>}
  <2>1. Closed(P, V, empty, step)
    <3>1. <<<<>>, empty>> \in P
      BY <1>4, <1>6 DEF Closed
    <3>2. ASSUME NEW k \in Lists, NEW a \in V, NEW b \in V, k # <<>>,
                 <<Head(k).inner, a>> \in P, <<Tail(k), b>> \in P
          PROVE  <<k, step[<<k, a, b>>]>> \in P
      <4>1. <<k, step[<<k, a, b>>]>> \in Graph
        BY <1>4, <3>2 DEF Closed
      <4>2. k = l => v # step[<<k, a, b>>]
        BY <3>2
      <4> QED  BY <4>1, <4>2
    <3> QED  BY <3>1, <3>2 DEF Closed
  <2>2. P \in SUBSET All
    BY <1>2
  <2> QED  BY <1>3, <1>6, <2>1, <2>2
<1> DEFINE Is(l, v) == /\ v \in V /\ <<l, v>> \in Graph
                       /\ \A w \in V : <<l, w>> \in Graph => w = v
           T == {l \in Lists : \E v \in V : Is(l, v)}
<1>7. <<>> \in T
  BY <1>4, <1>5, InLists DEF Closed
<1>8. ASSUME NEW l \in Lists, l # <<>>, Tail(l) \in T, Head(l).inner \in T
      PROVE  l \in T
  <2>1. PICK a \in V : Is(Head(l).inner, a)
    BY <1>8
  <2>2. PICK b \in V : Is(Tail(l), b)
    BY <1>8
  <2>3. step[<<l, a, b>>] \in V /\ <<l, step[<<l, a, b>>]>> \in Graph
    BY <1>4, <1>8, <2>1, <2>2 DEF Closed, StepTo
  <2>4. ASSUME NEW w \in V, <<l, w>> \in Graph PROVE w = step[<<l, a, b>>]
    BY <1>6, <1>8, <2>1, <2>2, <2>4
  <2> QED  BY <2>3, <2>4
<1> HIDE DEF T
<1>9. \A l \in Lists : l \in T
  BY <1>7, <1>8, ListInduction
<1> DEFINE Made(l) == CHOOSE v \in V : Is(l, v)
           f == [l \in Lists |-> Made(l)]
<1>10. \A l \in Lists : Is(l, f[l])
  <2> HIDE DEF Is
  <2>1. \A l \in Lists : \E v \in V : Is(l, v)
    BY <1>9 DEF T
  <2> QED  BY <2>1
<1>11. f = [l \in Lists |-> f[l]]
  <2> HIDE DEF Made
  <2> QED  OBVIOUS
<1> HIDE DEF f
<1> DEFINE Body(l) == IF l = <<>> THEN empty
                      ELSE step[<<l, f[Head(l).inner], f[Tail(l)]>>]
<1>12. ASSUME NEW l \in Lists PROVE f[l] = Body(l)
  <2>1. CASE l = <<>>
    BY <1>5, <1>10, <2>1
  <2>2. CASE l # <<>>
    <3>1. Head(l).inner \in Lists /\ Tail(l) \in Lists
      BY <1>1, <2>2
    <3>2. PICK a \in V, b \in V : /\ <<Head(l).inner, a>> \in Graph
                                  /\ <<Tail(l), b>> \in Graph
                                  /\ f[l] = step[<<l, a, b>>]
      BY <1>6, <1>10, <2>2
    <3>3. a = f[Head(l).inner] /\ b = f[Tail(l)]
      BY <1>10, <3>1, <3>2
    <3> QED  BY <2>2, <3>2, <3>3
  <2> QED  BY <2>1, <2>2
<1>13. IsWalk(f, empty, step)
  <2>1. [l \in Lists |-> f[l]] = [l \in Lists |-> Body(l)]
    <3> HIDE DEF Body
    <3> QED  BY <1>12
  <2>2. f = [l \in Lists |-> Body(l)]
    BY <1>11, <2>1, Zenon
  <2> QED  BY <2>2, Zenon DEF IsWalk
<1> QED  BY <1>13

\* What a walk returns; f is one if it makes the step wherever what it returns
\* for the parts is a value.
LEMMA WalkReturns ==
    ASSUME NEW V, NEW empty \in V, NEW step, StepTo(V, step), NEW f,
           f[<<>>] = empty,
           \A l \in Lists : l # <<>> /\ f[Head(l).inner] \in V /\ f[Tail(l)] \in V
              => f[l] = step[<<l, f[Head(l).inner], f[Tail(l)]>>]
    PROVE  /\ \A l \in Lists : f[l] \in V
           /\ \A l \in Lists : l # <<>> =>
                 f[l] = step[<<l, f[Head(l).inner], f[Tail(l)]>>]
<1> DEFINE T == {l \in Lists : f[l] \in V}
<1>1. <<>> \in T
  BY InLists
<1>2. ASSUME NEW l \in Lists, l # <<>>, Tail(l) \in T, Head(l).inner \in T
      PROVE  l \in T
  BY <1>2 DEF StepTo
<1> HIDE DEF T
<1>3. \A l \in Lists : l \in T
  BY <1>1, <1>2, ListInduction
<1> QED  BY <1>3, InLists DEF T

LEMMA TypedWalk ==
    ASSUME NEW V, NEW empty \in V, NEW step, StepTo(V, step)
    PROVE  \E f : /\ f = [l \in Lists |-> f[l]] /\ f[<<>>] = empty
                  /\ \A l \in Lists : f[l] \in V
                  /\ \A l \in Lists : l # <<>> =>
                        f[l] = step[<<l, f[Head(l).inner], f[Tail(l)]>>]
<1>1. PICK f : IsWalk(f, empty, step)
  BY WalkExists
<1> DEFINE Body(l) == IF l = <<>> THEN empty
                      ELSE step[<<l, f[Head(l).inner], f[Tail(l)]>>]
<1>2. f = [l \in Lists |-> Body(l)]
  BY <1>1, Zenon DEF IsWalk
<1>3. \A l \in Lists : f[l] = Body(l)
  <2> HIDE DEF Body
  <2> QED  BY <1>2
<1>4. f = [l \in Lists |-> f[l]]
  <2> HIDE DEF Body
  <2> QED  BY <1>2, <1>3
<1>5. f[<<>>] = empty
  BY <1>3, InLists
<1>6. \A l \in Lists : l # <<>> =>
         f[l] = step[<<l, f[Head(l).inner], f[Tail(l)]>>]
  BY <1>3
<1>7. \A l \in Lists : f[l] \in V
  BY <1>5, <1>6, WalkReturns
<1> QED  BY <1>4, <1>5, <1>6, <1>7

LEMMA WhereArgsIs ==
    /\ WhereArgs[<<>>] = <<>>
    /\ \A l \in Lists : WhereArgs[l] \in Seq(Nat)
    /\ \A l \in Lists : l # <<>> =>
          WhereArgs[l] = Head(l).values \o WhereArgs[Head(l).inner]
                            \o Head(l).count \o WhereArgs[Tail(l)]
<1> DEFINE V == Seq(Nat)
           Body(l, a, b) == Head(l).values \o a \o Head(l).count \o b
           step == [p \in Lists \X V \X V |-> Body(p[1], p[2], p[3])]
<1>1. \A l \in Lists, a \in V, b \in V : step[<<l, a, b>>] = Body(l, a, b)
  <2> HIDE DEF Body, V
  <2> QED  OBVIOUS
<1>2. StepTo(V, step)
  <2>1. ASSUME NEW l \in Lists, NEW a \in V, NEW b \in V, l # <<>>
        PROVE  Body(l, a, b) \in V
    <3>1. Head(l).values \in Seq(Nat) /\ Head(l).count \in Seq(Nat)
      BY <2>1, InLists
    <3> QED  BY <3>1
  <2> HIDE DEF Body, step, V
  <2> QED  BY <1>1, <2>1 DEF StepTo
<1>3. <<>> \in V
  OBVIOUS
<1> HIDE DEF step, V
<1>4. PICK f : /\ f = [l \in Lists |-> f[l]] /\ f[<<>>] = <<>>
               /\ \A l \in Lists : f[l] \in V
               /\ \A l \in Lists : l # <<>> =>
                     f[l] = step[<<l, f[Head(l).inner], f[Tail(l)]>>]
  BY <1>2, <1>3, TypedWalk
<1> DEFINE Full(g, l) == IF l = <<>> THEN <<>>
                         ELSE Body(l, g[Head(l).inner], g[Tail(l)])
<1>5. ASSUME NEW l \in Lists PROVE f[l] = Full(f, l)
  <2>1. l # <<>> => Head(l).inner \in Lists /\ Tail(l) \in Lists
    BY InLists
  <2> HIDE DEF Body
  <2> QED  BY <1>1, <1>4, <2>1
<1>6. f = [l \in Lists |-> Full(f, l)]
  <2>1. [l \in Lists |-> f[l]] = [l \in Lists |-> Full(f, l)]
    <3> HIDE DEF Full
    <3> QED  BY <1>5
  <2> QED  BY <1>4, <2>1, Zenon
<1>7. WhereArgs = [l \in Lists |-> Full(WhereArgs, l)]
  BY <1>6, Zenon DEF WhereArgs
<1>8. \A l \in Lists : WhereArgs[l] = Full(WhereArgs, l)
  <2> HIDE DEF Full
  <2> QED  BY <1>7, Zenon
<1>9. WhereArgs[<<>>] = <<>>
  BY <1>8, InLists
<1>10. \A l \in Lists : l # <<>> =>
          WhereArgs[l] = Body(l, WhereArgs[Head(l).inner], WhereArgs[Tail(l)])
  <2> HIDE DEF Body
  <2> QED  BY <1>8
<1>11. \A l \in Lists : WhereArgs[l] \in V
  <2> HIDE DEF Body
  <2> QED  BY <1>1, <1>2, <1>3, <1>9, <1>10, WalkReturns
<1> QED  BY <1>9, <1>10, <1>11 DEF V

-----------------------------------------------------------------------------
(***************************************************************************)
(* The walk that compiles.                                                 *)
(***************************************************************************)
AnyClause == UNION {Nested[n] : n \in Nat}

LEMMA AnyDepth ==
    ASSUME NEW l \in Seq(AnyClause)
    PROVE  \E depth \in Nat : l \in Seq(Nested[depth])
<1> DEFINE T == {k \in Nat : k <= Len(l) =>
                    \E depth \in Nat : \A i \in 1 .. k : l[i] \in Nested[depth]}
<1>1. 0 \in T
  OBVIOUS
<1>2. ASSUME NEW k \in Nat, k \in T PROVE k + 1 \in T
  <2> SUFFICES ASSUME k + 1 <= Len(l)
               PROVE  \E depth \in Nat : \A i \in 1 .. k + 1 : l[i] \in Nested[depth]
    OBVIOUS
  <2>0. k <= Len(l)
    <3>1. Len(l) \in Nat
      OBVIOUS
    <3> QED  BY <3>1
  <2>1. PICK m \in Nat : \A i \in 1 .. k : l[i] \in Nested[m]
    BY <1>2, <2>0
  <2>2. PICK n \in Nat : l[k + 1] \in Nested[n]
    <3>1. l[k + 1] \in AnyClause
      OBVIOUS
    <3> QED  BY <3>1 DEF AnyClause
  <2>3. m + n \in Nat /\ m <= m + n /\ n <= m + n
    OBVIOUS
  <2>4. Nested[m] \subseteq Nested[m + n] /\ Nested[n] \subseteq Nested[m + n]
    BY <2>3, DeeperHasMore
  <2>5. \A i \in 1 .. k + 1 : i \in 1 .. k \/ i = k + 1
    OBVIOUS
  <2>6. \A i \in 1 .. k + 1 : l[i] \in Nested[m + n]
    BY <2>1, <2>2, <2>4, <2>5
  <2> QED  BY <2>3, <2>6
<1> HIDE DEF T
<1>3. Len(l) \in T
  BY <1>1, <1>2, AllNumbers
<1>4. PICK depth \in Nat : \A i \in 1 .. Len(l) : l[i] \in Nested[depth]
  BY <1>3 DEF T
<1>5. l = [i \in 1 .. Len(l) |-> l[i]] /\ Len(l) \in Nat
  OBVIOUS
<1> QED  BY <1>4, <1>5, IsASeq

\* The clause w with other numbers, and another list inside it.
Renumbered(w, values, inner, count) ==
    [w EXCEPT !.values = values, !.inner = inner, !.count = count]

LEMMA RenumberedIs ==
    ASSUME NEW depth \in Nat, NEW w \in Level(Nested, depth),
           NEW values \in Seq(Nat), NEW inner, NEW count \in Seq(Nat)
    PROVE  LET new == Renumbered(w, values, inner, count)
           IN  /\ new.values = values /\ new.inner = inner /\ new.count = count
               /\ \A n \in Nat : inner \in Seq(Nested[n]) => new \in Nested[n + 1]
               /\ inner = <<>> => new \in Nested[0]
<1> DEFINE new == Renumbered(w, values, inner, count)
<1>1. \A lists : inner \in lists => new \in ClausesWith(lists)
  BY DEF Renumbered, Level, ClausesWith
<1>2. new.values = values /\ new.inner = inner /\ new.count = count
  BY DEF Renumbered, Level, ClausesWith
<1>3. ASSUME NEW n \in Nat, inner \in Seq(Nested[n]) PROVE new \in Nested[n + 1]
  <2>1. n + 1 \in Nat /\ n + 1 # 0 /\ (n + 1) - 1 = n
    OBVIOUS
  <2>2. Nested[n + 1] = ClausesWith(Seq(Nested[n]))
    BY <2>1, NestedIs DEF Level
  <2> HIDE DEF new
  <2> QED  BY <1>1, <1>3, <2>2
<1>4. ASSUME inner = <<>> PROVE new \in Nested[0]
  <2>1. Nested[0] = ClausesWith({<<>>})
    BY NestedIs, Zenon DEF Level
  <2>2. inner \in {<<>>}
    BY <1>4
  <2> HIDE DEF new
  <2> QED  BY <1>1, <2>1, <2>2
<1> HIDE DEF new
<1>5. QED  BY <1>2, <1>3, <1>4 DEF new

LEMMA RenumberedAny ==
    ASSUME NEW l \in Lists, l # <<>>, NEW values \in Seq(Nat),
           NEW inner \in Seq(AnyClause), NEW count \in Seq(Nat)
    PROVE  Renumbered(Head(l), values, inner, count) \in AnyClause
<1>1. Nesting + 1 \in Nat
  BY ConstantsAssumption
<1>2. Head(l) \in Level(Nested, Nesting + 1)
  BY <1>1, Parts DEF Lists
<1>3. PICK depth \in Nat : inner \in Seq(Nested[depth])
  BY AnyDepth
<1>4. Renumbered(Head(l), values, inner, count) \in Nested[depth + 1]
  BY <1>1, <1>2, <1>3, RenumberedIs
<1>5. depth + 1 \in Nat
  OBVIOUS
<1> QED  BY <1>4, <1>5 DEF AnyClause

\* The numbers of k placeholders after the first n.
Numbers(n, k) == [i \in 1 .. k |-> n + i]

\* One step of CompileWheres.
CompileStep(l, a, b) ==
    LET w == Head(l)
    IN  [n \in Nat |->
           LET inner == a[n + Len(w.values)]
               rest  == b[inner.n + Len(w.count)]
               sql   == Renumbered(w, Numbers(n, Len(w.values)), inner.sql,
                                   Numbers(inner.n, Len(w.count)))
           IN  [sql  |-> <<sql>> \o rest.sql, n |-> rest.n,
                args |-> w.values \o inner.args \o w.count \o rest.args]]
CompileEmpty == [n \in Nat |-> [sql |-> <<>>, n |-> n, args |-> <<>>]]
Compilation  == [sql : Seq(AnyClause), n : Nat, args : Seq(Nat)]
Compiled     == [Nat -> Compilation]

LEMMA CompileStepType ==
    ASSUME NEW l \in Lists, l # <<>>, NEW a \in Compiled, NEW b \in Compiled
    PROVE  CompileStep(l, a, b) \in Compiled
<1> DEFINE w == Head(l)
           Result == Compilation
<1>1. w.values \in Seq(Nat) /\ w.count \in Seq(Nat)
  BY InLists
<1> SUFFICES ASSUME NEW n \in Nat
             PROVE  LET inner == a[n + Len(w.values)]
                        rest  == b[inner.n + Len(w.count)]
                        sql   == Renumbered(w, Numbers(n, Len(w.values)), inner.sql,
                                            Numbers(inner.n, Len(w.count)))
                    IN  [sql  |-> <<sql>> \o rest.sql, n |-> rest.n,
                         args |-> w.values \o inner.args \o w.count \o rest.args]
                           \in Result
  BY DEF CompileStep, Compiled
<1> DEFINE inner == a[n + Len(w.values)]
           rest  == b[inner.n + Len(w.count)]
           sql   == Renumbered(w, Numbers(n, Len(w.values)), inner.sql,
                               Numbers(inner.n, Len(w.count)))
<1>2. Len(w.values) \in Nat /\ Len(w.count) \in Nat
  BY <1>1
<1>3. inner \in Result
  <2>1. n + Len(w.values) \in Nat
    BY <1>2
  <2> HIDE DEF Result, w
  <2> QED  BY <2>1 DEF Compiled, Result
<1> HIDE DEF w, inner
<1>4. rest \in Result
  <2>1. inner.n + Len(w.count) \in Nat
    BY <1>2, <1>3 DEF Compilation
  <2> HIDE DEF Result
  <2> QED  BY <2>1 DEF Compiled, Result
<1> HIDE DEF rest
<1>5. /\ Numbers(n, Len(w.values)) \in Seq(Nat)
      /\ Numbers(inner.n, Len(w.count)) \in Seq(Nat)
  BY <1>2, <1>3 DEF Numbers, Compilation
<1>6. sql \in AnyClause
  BY <1>3, <1>5, RenumberedAny DEF w, Compilation
<1> HIDE DEF sql
<1>7. <<sql>> \o rest.sql \in Seq(AnyClause)
  BY <1>4, <1>6 DEF Compilation
<1>8. w.values \o inner.args \o w.count \o rest.args \in Seq(Nat)
  BY <1>1, <1>3, <1>4 DEF w, Compilation
<1>9. [sql |-> <<sql>> \o rest.sql, n |-> rest.n,
       args |-> w.values \o inner.args \o w.count \o rest.args] \in Result
  BY <1>4, <1>7, <1>8 DEF Compilation
<1> QED  BY <1>9 DEF sql, rest, inner, w

LEMMA CompileWheresIs ==
    /\ CompileWheres[<<>>] = CompileEmpty
    /\ \A l \in Lists : CompileWheres[l] \in Compiled
    /\ \A l \in Lists : l # <<>> =>
          CompileWheres[l] = CompileStep(l, CompileWheres[Head(l).inner],
                                         CompileWheres[Tail(l)])
<1> DEFINE step == [p \in Lists \X Compiled \X Compiled |-> CompileStep(p[1], p[2], p[3])]
<1>1. \A l \in Lists, a \in Compiled, b \in Compiled :
         step[<<l, a, b>>] = CompileStep(l, a, b)
  OBVIOUS
<1> HIDE DEF step
<1>2. StepTo(Compiled, step)
  BY <1>1, CompileStepType DEF StepTo
<1>3. CompileEmpty \in Compiled
  <2>1. <<>> \in Seq(AnyClause) /\ <<>> \in Seq(Nat)
    OBVIOUS
  <2> QED  BY <2>1 DEF CompileEmpty, Compiled, Compilation
<1>4. PICK f : /\ f = [l \in Lists |-> f[l]] /\ f[<<>>] = CompileEmpty
               /\ \A l \in Lists : f[l] \in Compiled
               /\ \A l \in Lists : l # <<>> =>
                     f[l] = step[<<l, f[Head(l).inner], f[Tail(l)]>>]
  BY <1>2, <1>3, TypedWalk
<1> DEFINE Full(g, l) == IF l = <<>> THEN CompileEmpty
                         ELSE CompileStep(l, g[Head(l).inner], g[Tail(l)])
<1>5. ASSUME NEW l \in Lists PROVE f[l] = Full(f, l)
  <2>1. l # <<>> => Head(l).inner \in Lists /\ Tail(l) \in Lists
    BY InLists
  <2> QED  BY <1>1, <1>4, <2>1
<1>6. f = [l \in Lists |-> Full(f, l)]
  <2>1. [l \in Lists |-> f[l]] = [l \in Lists |-> Full(f, l)]
    <3> HIDE DEF Full
    <3> QED  BY <1>5
  <2> QED  BY <1>4, <2>1, Zenon
<1>7. CompileWheres = [l \in Lists |-> Full(CompileWheres, l)]
  BY <1>6, Zenon DEF CompileWheres, CompileStep, CompileEmpty, Renumbered, Numbers
<1>8. \A l \in Lists : CompileWheres[l] = Full(CompileWheres, l)
  <2> HIDE DEF Full
  <2> QED  BY <1>7, Zenon
<1>9. CompileWheres[<<>>] = CompileEmpty
  BY <1>8, InLists
<1>10. \A l \in Lists : l # <<>> =>
          CompileWheres[l] = CompileStep(l, CompileWheres[Head(l).inner],
                                         CompileWheres[Tail(l)])
  BY <1>8
<1>11. \A l \in Lists : CompileWheres[l] \in Compiled
  BY <1>1, <1>2, <1>3, <1>9, <1>10, WalkReturns
<1> QED  BY <1>9, <1>10, <1>11

\* What l compiles to after n placeholders, from what the list in its head and
\* its tail do.
CompiledFrom(l, n, inner, rest) ==
    LET w == Head(l)
    IN  /\ inner \in Compilation /\ rest \in Compilation
        /\ n + Len(w.values) \in Nat
        /\ inner = CompileWheres[w.inner][n + Len(w.values)]
        /\ inner.n + Len(w.count) \in Nat
        /\ rest = CompileWheres[Tail(l)][inner.n + Len(w.count)]
        /\ CompileWheres[l][n].sql
             = <<Renumbered(w, Numbers(n, Len(w.values)), inner.sql,
                            Numbers(inner.n, Len(w.count)))>> \o rest.sql
        /\ CompileWheres[l][n].n = rest.n
        /\ CompileWheres[l][n].args = w.values \o inner.args \o w.count \o rest.args

LEMMA CompileCons ==
    ASSUME NEW l \in Lists, l # <<>>, NEW n \in Nat
    PROVE  \E inner, rest : CompiledFrom(l, n, inner, rest)
<1> DEFINE w     == Head(l)
           inner == CompileWheres[w.inner][n + Len(w.values)]
           rest  == CompileWheres[Tail(l)][inner.n + Len(w.count)]
<1>1. /\ w.inner \in Lists /\ Tail(l) \in Lists
      /\ w.values \in Seq(Nat) /\ w.count \in Seq(Nat)
  BY InLists
<1>2. n + Len(w.values) \in Nat /\ Len(w.count) \in Nat
  BY <1>1
<1>3. inner \in Compilation
  <2> HIDE DEF w
  <2> QED  BY <1>1, <1>2, CompileWheresIs DEF Compiled
<1>4. inner.n + Len(w.count) \in Nat
  <2> HIDE DEF inner, w
  <2> QED  BY <1>2, <1>3 DEF Compilation
<1>5. rest \in Compilation
  <2> HIDE DEF w, inner
  <2> QED  BY <1>1, <1>4, CompileWheresIs DEF Compiled
<1>6. CompileWheres[l] = CompileStep(l, CompileWheres[w.inner], CompileWheres[Tail(l)])
  BY CompileWheresIs
<1>7. CompileWheres[l][n] =
         [sql  |-> <<Renumbered(w, Numbers(n, Len(w.values)), inner.sql,
                                Numbers(inner.n, Len(w.count)))>> \o rest.sql,
          n    |-> rest.n,
          args |-> w.values \o inner.args \o w.count \o rest.args]
  BY <1>6, Zenon DEF CompileStep
<1>8. CompiledFrom(l, n, inner, rest)
  <2>1. /\ CompileWheres[l][n].sql
             = <<Renumbered(w, Numbers(n, Len(w.values)), inner.sql,
                            Numbers(inner.n, Len(w.count)))>> \o rest.sql
        /\ CompileWheres[l][n].n = rest.n
        /\ CompileWheres[l][n].args = w.values \o inner.args \o w.count \o rest.args
    <3> DEFINE sql  == <<Renumbered(w, Numbers(n, Len(w.values)), inner.sql,
                                    Numbers(inner.n, Len(w.count)))>> \o rest.sql
               next == rest.n
               args == w.values \o inner.args \o w.count \o rest.args
    <3>1. CompileWheres[l][n] = [sql |-> sql, n |-> next, args |-> args]
      BY <1>7, Zenon
    <3> HIDE DEF sql, next, args
    <3>2. /\ CompileWheres[l][n].sql = sql /\ CompileWheres[l][n].n = next
          /\ CompileWheres[l][n].args = args
      BY <3>1
    <3> QED  BY <3>2, Zenon DEF sql, next, args
  <2> QED  BY <1>2, <1>3, <1>4, <1>5, <2>1, Zenon DEF CompiledFrom
<1> QED  BY <1>8, Zenon

LEMMA ConsType ==
    ASSUME NEW S, NEW x \in S, NEW s \in Seq(S)
    PROVE  <<x>> \o s \in Seq(S)
OBVIOUS

LEMMA ConsParts ==
    ASSUME NEW S, NEW x \in S, NEW s \in Seq(S)
    PROVE  /\ Head(<<x>> \o s) = x /\ Tail(<<x>> \o s) = s
           /\ <<x>> \o s # <<>>
OBVIOUS

LEMMA CompiledDepth ==
    ASSUME NEW l \in Lists, NEW depth \in Nat, l \in Seq(Nested[depth]), NEW n \in Nat
    PROVE  CompileWheres[l][n].sql \in Seq(Nested[depth])
<1> DEFINE Fits(k) == \A m \in Nat : k \in Seq(Nested[m]) =>
                         \A i \in Nat : CompileWheres[k][i].sql \in Seq(Nested[m])
           T == {k \in Lists : Fits(k)}
<1>1. <<>> \in T
  <2>1. \A i \in Nat : CompileWheres[<<>>][i].sql = <<>>
    BY CompileWheresIs DEF CompileEmpty
  <2>2. \A m \in Nat : <<>> \in Seq(Nested[m])
    OBVIOUS
  <2> QED  BY <2>1, <2>2, InLists
<1>2. ASSUME NEW k \in Lists, k # <<>>, Tail(k) \in T, Head(k).inner \in T
      PROVE  k \in T
  <2> SUFFICES ASSUME NEW m \in Nat, k \in Seq(Nested[m]), NEW i \in Nat
               PROVE  CompileWheres[k][i].sql \in Seq(Nested[m])
    OBVIOUS
  <2> DEFINE w == Head(k)
  <2>0. PICK inner, rest : CompiledFrom(k, i, inner, rest)
    BY <1>2, CompileCons
  <2>1. /\ inner \in Compilation /\ rest \in Compilation
        /\ inner = CompileWheres[w.inner][i + Len(w.values)]
        /\ inner.n + Len(w.count) \in Nat
        /\ rest = CompileWheres[Tail(k)][inner.n + Len(w.count)]
        /\ CompileWheres[k][i].sql
             = <<Renumbered(w, Numbers(i, Len(w.values)), inner.sql,
                            Numbers(inner.n, Len(w.count)))>> \o rest.sql
    BY <2>0, Zenon DEF CompiledFrom
  <2>2. i + Len(w.values) \in Nat
    BY <2>0, Zenon DEF CompiledFrom
  <2>3. /\ w \in Level(Nested, m) /\ Tail(k) \in Seq(Nested[m])
        /\ w.values \in Seq(Nat) /\ w.count \in Seq(Nat)
        /\ m = 0 => w.inner = <<>>
        /\ m # 0 => w.inner \in Seq(Nested[m - 1])
    BY <1>2, Parts
  <2> HIDE DEF w
  <2>4. rest.sql \in Seq(Nested[m])
    BY <1>2, <2>1, <2>3
  <2>5. /\ Numbers(i, Len(w.values)) \in Seq(Nat)
        /\ Numbers(inner.n, Len(w.count)) \in Seq(Nat)
    <3>1. Len(w.values) \in Nat /\ Len(w.count) \in Nat
      BY <2>3
    <3>2. inner.n \in Nat
      <4>1. inner \in Compilation
        BY <2>1
      <4> QED  BY <4>1 DEF Compilation
    <3> QED  BY <3>1, <3>2 DEF Numbers
  <2> DEFINE new == Renumbered(w, Numbers(i, Len(w.values)), inner.sql,
                               Numbers(inner.n, Len(w.count)))
  <2>6. new \in Nested[m]
    <3>1. CASE m = 0
      <4>1. w.inner = <<>>
        BY <2>3, <3>1
      <4>2. \A p \in Nat : CompileWheres[<<>>][p].sql = <<>>
        BY CompileWheresIs DEF CompileEmpty
      <4>3. inner.sql = <<>>
        BY <2>1, <2>2, <4>1, <4>2
      <4>4. new \in Nested[0]
        <5> HIDE DEF new
        <5>1. \A list : list = <<>> =>
                 Renumbered(w, Numbers(i, Len(w.values)), list,
                            Numbers(inner.n, Len(w.count))) \in Nested[0]
          BY <2>3, <2>5, RenumberedIs, Zenon
        <5> QED  BY <4>3, <5>1 DEF new
      <4> QED  BY <3>1, <4>4
    <3>2. CASE m # 0
      <4>1. m - 1 \in Nat /\ (m - 1) + 1 = m
        BY <3>2
      <4>2. inner.sql \in Seq(Nested[m - 1])
        BY <1>2, <2>1, <2>2, <2>3, <3>2, <4>1 DEF w
      <4>3. new \in Nested[(m - 1) + 1]
        BY <2>3, <2>5, <4>1, <4>2, RenumberedIs
      <4> QED  BY <4>1, <4>3
    <3> QED  BY <3>1, <3>2
  <2> HIDE DEF new
  <2>7. <<new>> \o rest.sql \in Seq(Nested[m])
    BY <2>4, <2>6, ConsType
  <2> QED  BY <2>1, <2>7 DEF new
<1> HIDE DEF T
<1>3. \A k \in Lists : k \in T
  BY <1>1, <1>2, ListInduction
<1> QED  BY <1>3 DEF T

LEMMA CompiledList ==
    ASSUME NEW l \in Lists, NEW n \in Nat
    PROVE  CompileWheres[l][n].sql \in Lists
<1>1. Nesting + 1 \in Nat
  BY ConstantsAssumption
<1> QED  BY <1>1, CompiledDepth DEF Lists

\* The walk that compiles and the walk that collects meet the same arguments, and
\* as many of them as there are placeholders.
LEMMA WalksAgree ==
    ASSUME NEW l \in Lists, NEW n \in Nat
    PROVE  /\ CompileWheres[l][n].args = WhereArgs[l]
           /\ CompileWheres[l][n].n = n + Len(WhereArgs[l])
<1> DEFINE T == {k \in Lists : \A i \in Nat :
                    /\ CompileWheres[k][i].args = WhereArgs[k]
                    /\ CompileWheres[k][i].n = i + Len(WhereArgs[k])}
<1>1. <<>> \in T
  <2>1. \A i \in Nat : /\ CompileWheres[<<>>][i].args = <<>>
                       /\ CompileWheres[<<>>][i].n = i
    BY CompileWheresIs DEF CompileEmpty
  <2>2. WhereArgs[<<>>] = <<>> /\ Len(WhereArgs[<<>>]) = 0
    BY WhereArgsIs
  <2> QED  BY <2>1, <2>2, InLists
<1>2. ASSUME NEW k \in Lists, k # <<>>, Tail(k) \in T, Head(k).inner \in T
      PROVE  k \in T
  <2> SUFFICES ASSUME NEW i \in Nat
               PROVE  /\ CompileWheres[k][i].args = WhereArgs[k]
                      /\ CompileWheres[k][i].n = i + Len(WhereArgs[k])
    OBVIOUS
  <2> DEFINE w == Head(k)
  <2>0. PICK inner, rest : CompiledFrom(k, i, inner, rest)
    BY <1>2, CompileCons
  <2>1. /\ inner \in Compilation /\ rest \in Compilation
        /\ inner = CompileWheres[w.inner][i + Len(w.values)]
        /\ inner.n + Len(w.count) \in Nat
        /\ rest = CompileWheres[Tail(k)][inner.n + Len(w.count)]
        /\ CompileWheres[k][i].n = rest.n
        /\ CompileWheres[k][i].args = w.values \o inner.args \o w.count \o rest.args
    BY <2>0, Zenon DEF CompiledFrom
  <2>2. i + Len(w.values) \in Nat
    BY <2>0, Zenon DEF CompiledFrom
  <2>3. /\ w.values \in Seq(Nat) /\ w.count \in Seq(Nat)
        /\ w.inner \in Lists /\ Tail(k) \in Lists
    BY <1>2, InLists
  <2>4. /\ WhereArgs[w.inner] \in Seq(Nat) /\ WhereArgs[Tail(k)] \in Seq(Nat)
        /\ WhereArgs[k] = w.values \o WhereArgs[w.inner] \o w.count
                             \o WhereArgs[Tail(k)]
    BY <1>2, <2>3, WhereArgsIs
  <2>5. /\ inner.args = WhereArgs[w.inner]
        /\ inner.n = i + Len(w.values) + Len(WhereArgs[w.inner])
    BY <1>2, <2>1, <2>2
  <2>6. /\ rest.args = WhereArgs[Tail(k)]
        /\ rest.n = inner.n + Len(w.count) + Len(WhereArgs[Tail(k)])
    BY <1>2, <2>1
  <2> HIDE DEF w
  <2>7. Len(WhereArgs[k]) = Len(w.values) + Len(WhereArgs[w.inner]) + Len(w.count)
                               + Len(WhereArgs[Tail(k)])
    BY <2>3, <2>4
  <2>8. /\ Len(w.values) \in Nat /\ Len(WhereArgs[w.inner]) \in Nat
        /\ Len(w.count) \in Nat /\ Len(WhereArgs[Tail(k)]) \in Nat
    BY <2>3, <2>4
  <2>9. CompileWheres[k][i].args = WhereArgs[k]
    BY <2>1, <2>4, <2>5, <2>6
  <2>10. i + Len(w.values) + Len(WhereArgs[w.inner]) + Len(w.count)
            + Len(WhereArgs[Tail(k)]) = i + Len(WhereArgs[k])
    <3> DEFINE p == Len(w.values)
               q == Len(WhereArgs[w.inner])
               r == Len(w.count)
               s == Len(WhereArgs[Tail(k)])
               u == Len(WhereArgs[k])
    <3>1. u = p + q + r + s /\ p \in Nat /\ q \in Nat /\ r \in Nat /\ s \in Nat
      BY <2>7, <2>8
    <3> HIDE DEF p, q, r, s, u
    <3>2. i + p + q + r + s = i + u
      BY <3>1
    <3> QED  BY <3>2 DEF p, q, r, s, u
  <2> QED  BY <2>1, <2>5, <2>6, <2>9, <2>10
<1> HIDE DEF T
<1>3. \A k \in Lists : k \in T
  BY <1>1, <1>2, ListInduction
<1> QED  BY <1>3 DEF T

-----------------------------------------------------------------------------
(***************************************************************************)
(* Binding.                                                                *)
(***************************************************************************)
BindStep(l, a, b) ==
    LET w == Head(l)
    IN  [args \in Seq(Nat) |->
           <<Renumbered(w, Put(args, w.values), a[args], Put(args, w.count))>>
              \o b[args]]
BindEmpty == [args \in Seq(Nat) |-> <<>>]
Bound     == [Seq(Nat) -> Seq(AnyClause)]

LEMMA PutType ==
    ASSUME NEW args \in Seq(Nat), NEW numbers \in Seq(Nat)
    PROVE  Put(args, numbers) \in Seq(Nat)
<1>1. \A n \in Nat : Argument(args, n) \in Nat
  BY DEF Argument, Null
<1>2. \A i \in 1 .. Len(numbers) : numbers[i] \in Nat
  OBVIOUS
<1>3. Len(numbers) \in Nat
  OBVIOUS
<1> DEFINE s == [i \in 1 .. Len(numbers) |-> Argument(args, numbers[i])]
<1>4. s \in Seq(Nat)
  <2>1. \A i \in 1 .. Len(numbers) : Argument(args, numbers[i]) \in Nat
    BY <1>1, <1>2
  <2> DEFINE Made(i) == Argument(args, numbers[i])
  <2>2. \A i \in 1 .. Len(numbers) : Made(i) \in Nat
    BY <2>1
  <2>3. s = [i \in 1 .. Len(numbers) |-> Made(i)]
    OBVIOUS
  <2> HIDE DEF Made, s
  <2> QED  BY <1>3, <2>2, <2>3
<1> QED  BY <1>4, Zenon DEF Put

LEMMA BindStepType ==
    ASSUME NEW l \in Lists, l # <<>>, NEW a \in Bound, NEW b \in Bound
    PROVE  BindStep(l, a, b) \in Bound
<1> DEFINE w == Head(l)
<1>1. w.values \in Seq(Nat) /\ w.count \in Seq(Nat)
  BY InLists
<1>2. ASSUME NEW args \in Seq(Nat)
      PROVE  <<Renumbered(w, Put(args, w.values), a[args], Put(args, w.count))>>
                \o b[args] \in Seq(AnyClause)
  <2>1. Put(args, w.values) \in Seq(Nat) /\ Put(args, w.count) \in Seq(Nat)
    BY <1>1, PutType
  <2>2. a[args] \in Seq(AnyClause) /\ b[args] \in Seq(AnyClause)
    BY DEF Bound
  <2>3. Renumbered(w, Put(args, w.values), a[args], Put(args, w.count)) \in AnyClause
    BY <2>1, <2>2, RenumberedAny
  <2> QED  BY <2>2, <2>3, ConsType
<1> DEFINE Made(args) ==
      <<Renumbered(w, Put(args, w.values), a[args], Put(args, w.count))>> \o b[args]
<1>3. BindStep(l, a, b) = [args \in Seq(Nat) |-> Made(args)]
  BY Zenon DEF BindStep
<1>4. \A args \in Seq(Nat) : Made(args) \in Seq(AnyClause)
  BY <1>2
<1> HIDE DEF Made
<1> QED  BY <1>3, <1>4 DEF Bound

LEMMA BindIs ==
    /\ Bind[<<>>] = BindEmpty
    /\ \A l \in Lists : Bind[l] \in Bound
    /\ \A l \in Lists : l # <<>> =>
          Bind[l] = BindStep(l, Bind[Head(l).inner], Bind[Tail(l)])
<1> DEFINE step == [p \in Lists \X Bound \X Bound |-> BindStep(p[1], p[2], p[3])]
<1>1. \A l \in Lists, a \in Bound, b \in Bound :
         step[<<l, a, b>>] = BindStep(l, a, b)
  OBVIOUS
<1> HIDE DEF step
<1>2. StepTo(Bound, step)
  BY <1>1, BindStepType DEF StepTo
<1>3. BindEmpty \in Bound
  <2>1. <<>> \in Seq(AnyClause)
    OBVIOUS
  <2> QED  BY <2>1 DEF BindEmpty, Bound
<1>4. PICK f : /\ f = [l \in Lists |-> f[l]] /\ f[<<>>] = BindEmpty
               /\ \A l \in Lists : f[l] \in Bound
               /\ \A l \in Lists : l # <<>> =>
                     f[l] = step[<<l, f[Head(l).inner], f[Tail(l)]>>]
  BY <1>2, <1>3, TypedWalk
<1> DEFINE Full(g, l) == IF l = <<>> THEN BindEmpty
                         ELSE BindStep(l, g[Head(l).inner], g[Tail(l)])
<1>5. ASSUME NEW l \in Lists PROVE f[l] = Full(f, l)
  <2>1. l # <<>> => Head(l).inner \in Lists /\ Tail(l) \in Lists
    BY InLists
  <2> QED  BY <1>1, <1>4, <2>1
<1>6. f = [l \in Lists |-> Full(f, l)]
  <2>1. [l \in Lists |-> f[l]] = [l \in Lists |-> Full(f, l)]
    <3> HIDE DEF Full
    <3> QED  BY <1>5
  <2> QED  BY <1>4, <2>1, Zenon
<1>7. Bind = [l \in Lists |-> Full(Bind, l)]
  BY <1>6, Zenon DEF Bind, BindStep, BindEmpty, Renumbered
<1>8. \A l \in Lists : Bind[l] = Full(Bind, l)
  <2> HIDE DEF Full
  <2> QED  BY <1>7, Zenon
<1>9. Bind[<<>>] = BindEmpty
  BY <1>8, InLists
<1>10. \A l \in Lists : l # <<>> =>
          Bind[l] = BindStep(l, Bind[Head(l).inner], Bind[Tail(l)])
  BY <1>8
<1>11. \A l \in Lists : Bind[l] \in Bound
  BY <1>1, <1>2, <1>3, <1>9, <1>10, WalkReturns
<1> QED  BY <1>9, <1>10, <1>11

\* The values of s are the arguments after the first n.
Stands(args, n, s) ==
    \A i \in 1 .. Len(s) : n + i \in 1 .. Len(args) /\ args[n + i] = s[i]

LEMMA StandsSplit ==
    ASSUME NEW args \in Seq(Nat), NEW n \in Nat, NEW x \in Seq(Nat),
           NEW y \in Seq(Nat)
    PROVE  Stands(args, n, x \o y) <=>
              Stands(args, n, x) /\ Stands(args, n + Len(x), y)
<1> DEFINE z == x \o y
           p == Len(x)
           q == Len(y)
<1>1. p \in Nat /\ q \in Nat /\ Len(z) = p + q
  OBVIOUS
<1>2. /\ \A i \in 1 .. p : z[i] = x[i]
      /\ \A i \in 1 .. q : z[p + i] = y[i]
  OBVIOUS
<1> HIDE DEF z, p, q
<1>3. ASSUME Stands(args, n, z)
      PROVE  Stands(args, n, x) /\ Stands(args, n + p, y)
  <2>1. Stands(args, n, x)
    <3>1. \A i \in 1 .. p : i \in 1 .. p + q
      BY <1>1
    <3> QED  BY <1>1, <1>2, <1>3, <3>1 DEF Stands, p
  <2>2. Stands(args, n + p, y)
    <3> SUFFICES ASSUME NEW i \in 1 .. q
                 PROVE  n + p + i \in 1 .. Len(args) /\ args[n + p + i] = y[i]
      BY DEF Stands, q
    <3>1. p + i \in 1 .. p + q /\ n + (p + i) = n + p + i
      BY <1>1
    <3>2. n + (p + i) \in 1 .. Len(args) /\ args[n + (p + i)] = z[p + i]
      BY <1>1, <1>3, <3>1 DEF Stands
    <3> QED  BY <1>2, <3>1, <3>2
  <2> QED  BY <2>1, <2>2
<1>4. ASSUME Stands(args, n, x), Stands(args, n + p, y)
      PROVE  Stands(args, n, z)
  <2> SUFFICES ASSUME NEW i \in 1 .. p + q
               PROVE  n + i \in 1 .. Len(args) /\ args[n + i] = z[i]
    BY <1>1 DEF Stands
  <2>1. CASE i \in 1 .. p
    BY <1>2, <1>4, <2>1 DEF Stands, p
  <2>2. CASE i \notin 1 .. p
    <3>1. i - p \in 1 .. q /\ n + p + (i - p) = n + i /\ p + (i - p) = i
      BY <1>1, <2>2
    <3>2. n + p + (i - p) \in 1 .. Len(args) /\ args[n + p + (i - p)] = y[i - p]
      BY <1>4, <3>1 DEF Stands, q
    <3> QED  BY <1>2, <3>1, <3>2
  <2> QED  BY <2>1, <2>2
<1> QED  BY <1>3, <1>4 DEF z, p

LEMMA PutBack ==
    ASSUME NEW args \in Seq(Nat), NEW n \in Nat, NEW s \in Seq(Nat), Stands(args, n, s)
    PROVE  Put(args, Numbers(n, Len(s))) = s
<1> DEFINE k == Len(s)
<1>1. k \in Nat /\ s = [i \in 1 .. k |-> s[i]]
  OBVIOUS
<1>2. \A i \in 1 .. k : n + i \in 1 .. Len(args) /\ args[n + i] = s[i]
  BY DEF Stands
<1> HIDE DEF k
<1>3. Len(Numbers(n, k)) = k /\ \A i \in 1 .. k : Numbers(n, k)[i] = n + i
  BY <1>1 DEF Numbers
<1>4. Put(args, Numbers(n, k)) = [i \in 1 .. k |-> Argument(args, Numbers(n, k)[i])]
  BY <1>3, Zenon DEF Put
<1>5. \A i \in 1 .. k : Argument(args, Numbers(n, k)[i]) = s[i]
  BY <1>2, <1>3 DEF Argument
<1>6. Put(args, Numbers(n, k)) = [i \in 1 .. k |-> s[i]]
  BY <1>4, <1>5
<1> QED  BY <1>1, <1>6, Zenon DEF k

LEMMA RenumberedBack ==
    ASSUME NEW depth \in Nat, NEW w \in Level(Nested, depth),
           NEW values, NEW inner, NEW count
    PROVE  Renumbered(Renumbered(w, values, inner, count), w.values, w.inner, w.count)
              = w
BY DEF Renumbered, Level, ClausesWith

\* The two walks of builder.go and grammar.go agree: compileWheres numbers the
\* placeholders of a list from n and whereArgs collects its arguments, and whatever
\* list of wheres it is, however deep its groups and subqueries, each placeholder
\* is bound to the value the application gave that clause, as long as the walk's
\* arguments are put from position n of the statement's.
THEOREM BindGivesBack ==
    ASSUME NEW l \in Lists, NEW n \in Nat, NEW args \in Seq(Nat),
           Stands(args, n, WhereArgs[l])
    PROVE  Bind[CompileWheres[l][n].sql][args] = l
<1> DEFINE T == {k \in Lists : \A i \in Nat : Stands(args, i, WhereArgs[k]) =>
                                  Bind[CompileWheres[k][i].sql][args] = k}
<1>1. <<>> \in T
  <2>1. \A i \in Nat : CompileWheres[<<>>][i].sql = <<>>
    BY CompileWheresIs DEF CompileEmpty
  <2>2. Bind[<<>>][args] = <<>>
    BY BindIs DEF BindEmpty
  <2> QED  BY <2>1, <2>2, InLists
<1>2. ASSUME NEW k \in Lists, k # <<>>, Tail(k) \in T, Head(k).inner \in T
      PROVE  k \in T
  <2> SUFFICES ASSUME NEW i \in Nat, Stands(args, i, WhereArgs[k])
               PROVE  Bind[CompileWheres[k][i].sql][args] = k
    OBVIOUS
  <2> DEFINE w == Head(k)
             v == Len(w.values)
             c == Len(w.count)
  <2>1. /\ w.inner \in Lists /\ Tail(k) \in Lists /\ k = <<w>> \o Tail(k)
        /\ w.values \in Seq(Nat) /\ w.count \in Seq(Nat)
    BY <1>2, InLists
  <2>2. /\ WhereArgs[w.inner] \in Seq(Nat) /\ WhereArgs[Tail(k)] \in Seq(Nat)
        /\ WhereArgs[k] = w.values \o WhereArgs[w.inner] \o w.count
                             \o WhereArgs[Tail(k)]
    BY <1>2, <2>1, WhereArgsIs
  <2>3. PICK inner, rest : CompiledFrom(k, i, inner, rest)
    BY <1>2, CompileCons
  <2> DEFINE new == Renumbered(w, Numbers(i, v), inner.sql, Numbers(inner.n, c))
  <2>4. /\ i + v \in Nat /\ inner.n + c \in Nat
        /\ inner = CompileWheres[w.inner][i + v]
        /\ rest = CompileWheres[Tail(k)][inner.n + c]
        /\ CompileWheres[k][i].sql = <<new>> \o rest.sql
    BY <2>3, Zenon DEF CompiledFrom
  <2>5. inner.n = i + v + Len(WhereArgs[w.inner])
    BY <2>1, <2>4, WalksAgree
  <2>6. inner.n \in Nat /\ v \in Nat /\ c \in Nat
    <3>1. Len(WhereArgs[w.inner]) \in Nat
      BY <2>2
    <3>2. v \in Nat /\ c \in Nat
      BY <2>1
    <3>3. inner.n \in Nat
      <4> DEFINE q == Len(WhereArgs[w.inner])
      <4>1. inner.n = i + v + q /\ q \in Nat /\ v \in Nat
        BY <2>5, <3>1, <3>2
      <4> HIDE DEF v, q
      <4> QED  BY <4>1
    <3> QED  BY <3>2, <3>3
  <2> HIDE DEF w
  <2>7. /\ Stands(args, i, w.values)
        /\ Stands(args, i + v, WhereArgs[w.inner])
        /\ Stands(args, inner.n, w.count)
        /\ Stands(args, inner.n + c, WhereArgs[Tail(k)])
    <3> DEFINE a  == WhereArgs[w.inner]
               b  == WhereArgs[Tail(k)]
               va == w.values \o a
               vc == va \o w.count
    <3>1. va \in Seq(Nat) /\ vc \in Seq(Nat)
      BY <2>1, <2>2
    <3>2. Stands(args, i, vc \o b)
      BY <1>2, <2>2
    <3>3. Stands(args, i, vc) /\ Stands(args, i + Len(vc), b)
      BY <2>2, <3>1, <3>2, StandsSplit
    <3>4. Stands(args, i, va) /\ Stands(args, i + Len(va), w.count)
      BY <2>1, <3>1, <3>3, StandsSplit
    <3>5. Stands(args, i, w.values) /\ Stands(args, i + v, a)
      BY <2>1, <2>2, <3>4, StandsSplit
    <3>6. Len(va) = v + Len(a) /\ Len(vc) = Len(va) + c /\ Len(a) \in Nat
      BY <2>1, <2>2
    <3>7. i + Len(va) = inner.n /\ i + Len(vc) = inner.n + c
      <4> HIDE DEF a, va, vc, v, c
      <4>1. inner.n = i + v + Len(a)
        BY <2>5, Zenon DEF a
      <4> QED  BY <2>6, <3>6, <4>1
    <3> QED  BY <3>3, <3>4, <3>5, <3>7
  <2>8. /\ Bind[inner.sql][args] = w.inner
        /\ Bind[rest.sql][args] = Tail(k)
    BY <1>2, <2>4, <2>7 DEF w
  <2>9. /\ Put(args, Numbers(i, v)) = w.values
        /\ Put(args, Numbers(inner.n, c)) = w.count
    BY <2>1, <2>6, <2>7, PutBack
  <2>10. Nesting + 1 \in Nat /\ w \in Level(Nested, Nesting + 1)
    <3>1. Nesting + 1 \in Nat
      BY ConstantsAssumption
    <3> QED  BY <1>2, <3>1, Parts DEF Lists, w
  <2>11. /\ new.values = Numbers(i, v) /\ new.inner = inner.sql
         /\ new.count = Numbers(inner.n, c)
    <3>1. Numbers(i, v) \in Seq(Nat) /\ Numbers(inner.n, c) \in Seq(Nat)
      BY <2>6 DEF Numbers
    <3> QED  BY <2>10, <3>1, RenumberedIs
  <2>12. Renumbered(new, w.values, w.inner, w.count) = w
    BY <2>10, RenumberedBack
  <2> DEFINE sql == <<new>> \o rest.sql
  <2>13. sql \in Lists /\ sql # <<>> /\ Head(sql) = new /\ Tail(sql) = rest.sql
    <3>1. sql \in Lists
      BY <1>2, <2>4, CompiledList
    <3>2. rest.sql \in Seq(AnyClause)
      BY <2>3, Zenon DEF CompiledFrom, Compilation
    <3> HIDE DEF new
    <3> QED  BY <3>1, <3>2
  <2>14. Bind[sql][args] = <<Renumbered(new, Put(args, new.values),
                                        Bind[new.inner][args],
                                        Put(args, new.count))>>
                              \o Bind[rest.sql][args]
    <3> HIDE DEF sql, new
    <3>1. Bind[sql] = BindStep(sql, Bind[new.inner], Bind[rest.sql])
      BY <2>13, BindIs
    <3> QED  BY <2>13, <3>1 DEF BindStep
  <2>15. Bind[sql][args] = <<w>> \o Tail(k)
    <3> HIDE DEF sql, new, v, c
    <3> QED  BY <2>8, <2>9, <2>11, <2>12, <2>14
  <2> QED  BY <2>1, <2>4, <2>15
<1> HIDE DEF T
<1>3. \A k \in Lists : k \in T
  BY <1>1, <1>2, ListInduction
<1> QED  BY <1>3 DEF T

-----------------------------------------------------------------------------
(***************************************************************************)
(* What the lists of statements mean.                                      *)
(***************************************************************************)
Test      == [boolean : {"AND", "OR"}, test : SUBSET KnownRows]
Tests     == [Places -> Seq(Test)]
TestEmpty == [at \in Places |-> <<>>]
TestStep(l, a, b) ==
    LET w == Head(l)
    IN  [at \in Places |->
           <<[boolean |-> w.boolean, test |-> {row \in {at.row} : Holds(w, a, at)}]>>
              \o b[at]]

LEMMA TestStepType ==
    ASSUME NEW l \in Lists, l # <<>>, NEW a \in Tests, NEW b \in Tests
    PROVE  TestStep(l, a, b) \in Tests
<1> DEFINE w == Head(l)
           First(at) == [boolean |-> w.boolean,
                         test |-> {row \in {at.row} : Holds(w, a, at)}]
           Made(at) == <<First(at)>> \o b[at]
<1>1. w.boolean \in {"AND", "OR"}
  <2>1. Nesting + 1 \in Nat
    BY ConstantsAssumption
  <2>2. w \in Level(Nested, Nesting + 1)
    BY <2>1, Parts DEF Lists
  <2> HIDE DEF w
  <2> QED  BY <2>2 DEF Level, ClausesWith
<1>2. ASSUME NEW at \in Places PROVE Made(at) \in Seq(Test)
  <2>1. at.row \in KnownRows
    BY DEF Places
  <2>2. First(at) \in Test
    <3> HIDE DEF w
    <3> QED  BY <1>1, <2>1 DEF Test
  <2>3. b[at] \in Seq(Test)
    BY DEF Tests
  <2> HIDE DEF First
  <2> QED  BY <2>2, <2>3, ConsType
<1>3. TestStep(l, a, b) = [at \in Places |-> Made(at)]
  BY Zenon DEF TestStep
<1>4. \A at \in Places : Made(at) \in Seq(Test)
  BY <1>2
<1> HIDE DEF Made
<1> QED  BY <1>3, <1>4 DEF Tests

LEMMA TestedIs ==
    /\ Tested[<<>>] = TestEmpty
    /\ \A l \in Lists : Tested[l] \in Tests
    /\ \A l \in Lists : l # <<>> =>
          Tested[l] = TestStep(l, Tested[Head(l).inner], Tested[Tail(l)])
<1> DEFINE step == [p \in Lists \X Tests \X Tests |-> TestStep(p[1], p[2], p[3])]
<1>1. \A l \in Lists, a \in Tests, b \in Tests :
         step[<<l, a, b>>] = TestStep(l, a, b)
  OBVIOUS
<1> HIDE DEF step
<1>2. StepTo(Tests, step)
  BY <1>1, TestStepType DEF StepTo
<1>3. TestEmpty \in Tests
  <2>1. <<>> \in Seq(Test)
    OBVIOUS
  <2> QED  BY <2>1 DEF TestEmpty, Tests
<1>4. PICK f : /\ f = [l \in Lists |-> f[l]] /\ f[<<>>] = TestEmpty
               /\ \A l \in Lists : f[l] \in Tests
               /\ \A l \in Lists : l # <<>> =>
                     f[l] = step[<<l, f[Head(l).inner], f[Tail(l)]>>]
  BY <1>2, <1>3, TypedWalk
<1> DEFINE Full(g, l) == IF l = <<>> THEN TestEmpty
                         ELSE TestStep(l, g[Head(l).inner], g[Tail(l)])
<1>5. ASSUME NEW l \in Lists PROVE f[l] = Full(f, l)
  <2>1. l # <<>> => Head(l).inner \in Lists /\ Tail(l) \in Lists
    BY InLists
  <2> QED  BY <1>1, <1>4, <2>1
<1>6. f = [l \in Lists |-> Full(f, l)]
  <2>1. [l \in Lists |-> f[l]] = [l \in Lists |-> Full(f, l)]
    <3> HIDE DEF Full
    <3> QED  BY <1>5
  <2> QED  BY <1>4, <2>1, Zenon
<1>7. Tested = [l \in Lists |-> Full(Tested, l)]
  BY <1>6, Zenon DEF Tested, TestStep, TestEmpty
<1>8. \A l \in Lists : Tested[l] = Full(Tested, l)
  <2> HIDE DEF Full
  <2> QED  BY <1>7, Zenon
<1>9. Tested[<<>>] = TestEmpty
  BY <1>8, InLists
<1>10. \A l \in Lists : l # <<>> =>
          Tested[l] = TestStep(l, Tested[Head(l).inner], Tested[Tail(l)])
  BY <1>8
<1>11. \A l \in Lists : Tested[l] \in Tests
  BY <1>1, <1>2, <1>3, <1>9, <1>10, WalkReturns
<1> QED  BY <1>9, <1>10, <1>11

\* What the first clause of a list contributes at a place.
FirstTest(l, at) ==
    [boolean |-> Head(l).boolean,
     test    |-> {row \in {at.row} : Holds(Head(l), Tested[Head(l).inner], at)}]

LEMMA TestedCons ==
    ASSUME NEW l \in Lists, l # <<>>, NEW at \in Places
    PROVE  /\ Tested[l][at] = <<FirstTest(l, at)>> \o Tested[Tail(l)][at]
           /\ Tested[Tail(l)][at] \in Seq(Test)
           /\ FirstTest(l, at) \in Test
<1>1. Tail(l) \in Lists /\ Head(l).inner \in Lists
  BY InLists
<1>2. Tested[l] = TestStep(l, Tested[Head(l).inner], Tested[Tail(l)])
  BY TestedIs
<1>3. Tested[l][at] = <<FirstTest(l, at)>> \o Tested[Tail(l)][at]
  BY <1>2, Zenon DEF TestStep, FirstTest
<1>4. Tested[Tail(l)][at] \in Seq(Test)
  BY <1>1, TestedIs DEF Tests
<1>5. FirstTest(l, at) \in Test
  <2>1. Head(l).boolean \in {"AND", "OR"}
    <3>1. Nesting + 1 \in Nat
      BY ConstantsAssumption
    <3>2. Head(l) \in Level(Nested, Nesting + 1)
      BY <3>1, Parts DEF Lists
    <3> QED  BY <3>2 DEF Level, ClausesWith
  <2>2. at.row \in KnownRows
    BY DEF Places
  <2>3. {row \in {at.row} : Holds(Head(l), Tested[Head(l).inner], at)}
           \in SUBSET KnownRows
    BY <2>2
  <2> QED  BY <2>1, <2>3 DEF FirstTest, Test
<1> QED  BY <1>3, <1>4, <1>5

\* A list of one clause, and of two that AND joins.
LEMMA ShortLists ==
    ASSUME NEW a \in Test, NEW b \in Test, NEW row
    PROVE  /\ Satisfies(<<a>> \o <<>>, row) <=> row \in a.test
           /\ b.boolean = "AND" => (Satisfies(<<a>> \o (<<b>> \o <<>>), row)
                                       <=> row \in a.test /\ row \in b.test)
<1>1. Satisfies(<<a>> \o <<>>, row) <=> row \in a.test
  <2> DEFINE x == <<a>> \o <<>>
  <2>1. Len(x) = 1 /\ x # <<>> /\ x[1] = a
    OBVIOUS
  <2> HIDE DEF x
  <2>2. Satisfies(x, row) <=>
           \A j \in 1 .. 1 : Joined(x, 1, j) => row \in x[j].test
    BY <2>1 DEF Satisfies, Opens
  <2>3. Joined(x, 1, 1)
    BY DEF Joined
  <2> QED  BY <2>1, <2>2, <2>3 DEF x
<1>2. ASSUME b.boolean = "AND"
      PROVE  Satisfies(<<a>> \o (<<b>> \o <<>>), row)
                <=> row \in a.test /\ row \in b.test
  <2> DEFINE x == <<a>> \o (<<b>> \o <<>>)
  <2>1. Len(x) = 2 /\ x # <<>> /\ x[1] = a /\ x[2] = b
    OBVIOUS
  <2> HIDE DEF x
  <2>2. Opens(x, 1) /\ ~Opens(x, 2)
    BY <1>2, <2>1 DEF Opens
  <2>3. Satisfies(x, row) <=>
           \A j \in 1 .. 2 : Joined(x, 1, j) => row \in x[j].test
    BY <2>1, <2>2 DEF Satisfies
  <2>4. Joined(x, 1, 1) /\ Joined(x, 1, 2)
    BY <1>2, <2>1 DEF Joined
  <2> QED  BY <2>1, <2>3, <2>4 DEF x
<1> QED  BY <1>1, <1>2

LEMMA SomeClauses ==
    /\ \A kind \in Kinds, col \in Columns : Clause(kind, col) \in Nested[0]
    /\ \A wheres \in Seq(Nested[Nesting]) : Group(wheres) \in Nested[Nesting + 1]
<1>1. \A kind \in Kinds, col \in Columns : Clause(kind, col) \in ClausesWith({<<>>})
  BY DEF Clause, ClausesWith, Names
<1>2. Nested[0] = ClausesWith({<<>>})
  BY NestedIs, Zenon DEF Level
<1>3. Nested[Nesting + 1] = ClausesWith(Seq(Nested[Nesting]))
  <2>1. Nesting + 1 \in Nat /\ Nesting + 1 # 0 /\ (Nesting + 1) - 1 = Nesting
    BY ConstantsAssumption
  <2> QED  BY <2>1, NestedIs DEF Level
<1>4. \A wheres \in Seq(Nested[Nesting]) :
         Group(wheres) \in ClausesWith(Seq(Nested[Nesting]))
  <2> SUFFICES ASSUME NEW lists, NEW wheres \in lists
               PROVE  Group(wheres) \in ClausesWith(lists)
    OBVIOUS
  <2>1. Group(wheres) = [Clause("nested", "id") EXCEPT !.inner = wheres]
    BY DEF Group
  <2>2. Clause("nested", "id") \in ClausesWith({<<>>})
    <3>1. "nested" \in Kinds /\ "id" \in Columns
      BY DEF Kinds, Columns
    <3> QED  BY <1>1, <3>1, Zenon
  <2> HIDE DEF Clause
  <2> QED  BY <2>1, <2>2 DEF ClausesWith
<1> QED  BY <1>1, <1>2, <1>3, <1>4

LEMMA EffectiveList ==
    ASSUME NEW wheres \in Seq(Nested[Nesting]), NEW filter \in {"none", "null", "notNull"}
    PROVE  /\ wheres \in Lists
           /\ EffectiveWheres(wheres, filter) \in Lists
<1>1. /\ Nesting \in Nat /\ Nesting + 1 \in Nat
      /\ 0 <= Nesting + 1 /\ Nesting <= Nesting + 1
  BY ConstantsAssumption
<1>2. /\ Nested[0] \subseteq Nested[Nesting + 1]
      /\ Seq(Nested[Nesting]) \subseteq Seq(Nested[Nesting + 1])
  BY <1>1, DeeperHasMore
<1>3. wheres \in Lists
  BY <1>2 DEF Lists
<1> SUFFICES ASSUME filter \in {"null", "notNull"}
             PROVE  EffectiveWheres(wheres, filter) \in Lists
  BY <1>3 DEF EffectiveWheres
<1>4. /\ Clause(filter, "deleted_at") \in Nested[Nesting + 1]
      /\ Group(wheres) \in Nested[Nesting + 1]
  <2>1. filter \in Kinds /\ "deleted_at" \in Columns
    BY DEF Kinds, Columns
  <2>2. Clause(filter, "deleted_at") \in Nested[0]
    BY <2>1, SomeClauses
  <2>3. Group(wheres) \in Nested[Nesting + 1]
    BY SomeClauses
  <2> QED  BY <1>2, <2>2, <2>3
<1>5. <<Clause(filter, "deleted_at")>> \o <<>> \in Lists
  <2>1. <<>> \in Seq(Nested[Nesting + 1])
    OBVIOUS
  <2> QED  BY <1>4, <2>1, ConsType, Zenon DEF Lists
<1>6. <<Clause(filter, "deleted_at")>> \o <<Group(wheres)>> \in Lists
  <2> DEFINE g == Group(wheres)
  <2>1. g \in Nested[Nesting + 1]
    BY <1>4
  <2> HIDE DEF g
  <2>2. <<g>> \in Seq(Nested[Nesting + 1])
    <3> SUFFICES ASSUME NEW S, g \in S PROVE <<g>> \in Seq(S)
      BY <2>1, Zenon
    <3> QED  OBVIOUS
  <2> QED  BY <1>4, <2>2, ConsType, Zenon DEF Lists, g
<1>7. EffectiveWheres(wheres, filter) \in
         {wheres, <<Clause(filter, "deleted_at")>> \o <<>>,
          <<Clause(filter, "deleted_at")>> \o <<Group(wheres)>>}
  BY DEF EffectiveWheres
<1> QED  BY <1>3, <1>5, <1>6, <1>7

\* The list of a statement selects what the user's list does, among the rows the
\* soft-delete filter leaves.
LEMMA EffectiveMeans ==
    ASSUME NEW wheres \in Seq(Nested[Nesting]), NEW row \in [Columns -> Nat],
           NEW cte \in SUBSET Nat
    PROVE  /\ Selects(EffectiveWheres(wheres, "none"), row, cte)
                 <=> Selects(wheres, row, cte)
           /\ Selects(EffectiveWheres(wheres, "null"), row, cte)
                 <=> row.deleted_at = Null /\ Selects(wheres, row, cte)
           /\ Selects(EffectiveWheres(wheres, "notNull"), row, cte)
                 <=> row.deleted_at # Null /\ Selects(wheres, row, cte)
<1> DEFINE at == [row |-> row, outer |-> <<>>, cte |-> cte]
           Passes(filter) == IF filter = "null" THEN row.deleted_at = Null
                           ELSE row.deleted_at # Null
<1>1. at \in Places /\ at.row = row
  BY DEF Places, KnownRows
<1> HIDE DEF at
<1>2. ASSUME NEW filter \in {"null", "notNull"}
      PROVE  Selects(EffectiveWheres(wheres, filter), row, cte)
                <=> Passes(filter) /\ Selects(wheres, row, cte)
  <2> DEFINE c == Clause(filter, "deleted_at")
             g == Group(wheres)
             list == EffectiveWheres(wheres, filter)
  <2>1. list \in Lists /\ wheres \in Lists
    BY EffectiveList
  <2>2. /\ c.kind = filter /\ c.col = "deleted_at"
        /\ g.kind = "nested" /\ g.boolean = "AND" /\ g.inner = wheres
    BY DEF Clause, Group
  <2>3. \A inner : Holds(c, inner, at) <=> Passes(filter)
    BY <1>1, <2>2 DEF Holds
  <2>4. Holds(g, Tested[wheres], at) <=> Selects(wheres, row, cte)
    BY <1>1, <2>2 DEF Holds, Selects, at
  <2>5. Tested[<<>>][at] = <<>>
    BY <1>1, TestedIs DEF TestEmpty
  <2>6. Selects(list, row, cte) <=> Satisfies(Tested[list][at], row)
    BY DEF Selects, at
  <2>7. CASE wheres = <<>>
    <3>1. list = <<c>> \o <<>>
      BY <2>7 DEF EffectiveWheres
    <3>2. list # <<>> /\ Head(list) = c /\ Tail(list) = <<>>
      <4> HIDE DEF c, list
      <4> QED  BY <3>1
    <3> DEFINE a == FirstTest(list, at)
    <3>3. Tested[list][at] = <<a>> \o <<>> /\ a \in Test
      BY <1>1, <2>1, <2>5, <3>2, TestedCons
    <3>4. row \in a.test <=> Passes(filter)
      BY <1>1, <2>3, <3>2 DEF FirstTest
    <3>5. Selects(wheres, row, cte)
      BY <2>5, <2>7 DEF Selects, Satisfies, at
    <3> HIDE DEF a
    <3>6. Satisfies(<<a>> \o <<>>, row) <=> row \in a.test
      BY <3>3, ShortLists, Zenon
    <3>7. Selects(list, row, cte) <=> row \in a.test
      <4> HIDE DEF list
      <4> QED  BY <2>6, <3>3, <3>6, Zenon
    <3> HIDE DEF list, Passes
    <3> QED  BY <3>4, <3>5, <3>7, Zenon DEF list
  <2>8. CASE wheres # <<>>
    <3>1. list = <<c>> \o <<g>>
      BY <2>8 DEF EffectiveWheres
    <3> DEFINE rest == <<g>>
    <3>2. /\ list # <<>> /\ Head(list) = c /\ Tail(list) = rest
          /\ rest # <<>> /\ Head(rest) = g /\ Tail(rest) = <<>>
      <4>1. c \in {c, g} /\ g \in {c, g} /\ rest \in Seq({c, g})
        <5> HIDE DEF c, g
        <5> QED  OBVIOUS
      <4>2. rest = <<g>> \o <<>> /\ <<>> \in Seq({c, g})
        <5> HIDE DEF c, g
        <5> QED  OBVIOUS
      <4> HIDE DEF c, g, list, rest
      <4> QED  BY <3>1, <4>1, <4>2, ConsParts DEF rest
    <3>3. rest \in Lists
      BY <2>1, <3>2, InLists
    <3> DEFINE a == FirstTest(list, at)
               b == FirstTest(rest, at)
    <3>4. Tested[list][at] = <<a>> \o Tested[rest][at] /\ a \in Test
      BY <1>1, <2>1, <3>2, TestedCons
    <3>5. Tested[rest][at] = <<b>> \o <<>> /\ b \in Test
      BY <1>1, <2>5, <3>2, <3>3, TestedCons
    <3>6. row \in a.test <=> Passes(filter)
      BY <1>1, <2>3, <3>2 DEF FirstTest
    <3>7. /\ row \in b.test <=> Selects(wheres, row, cte)
          /\ b.boolean = "AND"
      BY <1>1, <2>2, <2>4, <3>2 DEF FirstTest
    <3> HIDE DEF a, b, list, rest
    <3>8. Satisfies(<<a>> \o (<<b>> \o <<>>), row) <=> row \in a.test /\ row \in b.test
      BY <3>4, <3>5, <3>7, ShortLists, Zenon
    <3>9. Selects(list, row, cte) <=> row \in a.test /\ row \in b.test
      BY <2>6, <3>4, <3>5, <3>8, Zenon
    <3> HIDE DEF Passes
    <3> QED  BY <3>6, <3>7, <3>9, Zenon DEF list
  <2> QED  BY <2>7, <2>8
<1>3. EffectiveWheres(wheres, "none") = wheres
  BY DEF EffectiveWheres
<1> QED  BY <1>2, <1>3


-----------------------------------------------------------------------------
(***************************************************************************)
(* The columns of a statement: each once, in order.                        *)
(***************************************************************************)
Distinct(l) == \A i, j \in 1 .. Len(l) : l[i] = l[j] => i = j
One(c, S)   == IF c \in S THEN <<c>> ELSE <<>>

\* Lists of columns, and adding a list of others to one.
LEMMA MembersOfBoth ==
    ASSUME NEW l \in Seq(Columns), NEW k \in Seq(Columns), Distinct(l), Distinct(k),
           Members(l) \cap Members(k) = {}
    PROVE  /\ l \o k \in Seq(Columns)
           /\ Distinct(l \o k)
           /\ Members(l \o k) = Members(l) \cup Members(k)
<1> DEFINE z == l \o k
           p == Len(l)
           q == Len(k)
<1>1. p \in Nat /\ q \in Nat /\ Len(z) = p + q /\ z \in Seq(Columns)
  OBVIOUS
<1>2. /\ \A i \in 1 .. p : z[i] = l[i]
      /\ \A i \in 1 .. q : z[p + i] = k[i]
  OBVIOUS
<1>3. /\ \A i \in 1 .. p : l[i] \in Members(l)
      /\ \A i \in 1 .. q : k[i] \in Members(k)
  BY Zenon DEF Members
<1>4. /\ \A i, j \in 1 .. p : l[i] = l[j] => i = j
      /\ \A i, j \in 1 .. q : k[i] = k[j] => i = j
  BY Zenon DEF Distinct
<1>5. Members(l) = {l[i] : i \in 1 .. p} /\ Members(k) = {k[i] : i \in 1 .. q}
  BY Zenon DEF Members
<1> HIDE DEF z, p, q
<1>6. \A i \in 1 .. p + q : i \in 1 .. p \/ (i - p \in 1 .. q /\ i = p + (i - p))
  BY <1>1
<1>7. \A i \in 1 .. p + q :
         \/ i \in 1 .. p /\ z[i] = l[i] /\ z[i] \in Members(l)
         \/ i - p \in 1 .. q /\ z[i] = k[i - p] /\ z[i] \in Members(k)
  BY <1>2, <1>3, <1>6
<1>8. ASSUME NEW i \in 1 .. p + q, NEW j \in 1 .. p + q, z[i] = z[j]
      PROVE  i = j
  <2>1. CASE i \in 1 .. p /\ z[i] = l[i] /\ z[i] \in Members(l)
    <3>1. j \in 1 .. p /\ z[j] = l[j]
      BY <1>7, <1>8, <2>1
    <3> QED  BY <1>4, <1>8, <2>1, <3>1
  <2>2. CASE i - p \in 1 .. q /\ z[i] = k[i - p] /\ z[i] \in Members(k)
    <3>1. j - p \in 1 .. q /\ z[j] = k[j - p]
      BY <1>7, <1>8, <2>2
    <3>2. i - p = j - p
      BY <1>4, <1>8, <2>2, <3>1
    <3> QED  BY <1>1, <3>2
  <2> QED  BY <1>7, <2>1, <2>2
<1>9. Distinct(z)
  BY <1>1, <1>8 DEF Distinct
<1>10. Members(z) = {z[i] : i \in 1 .. p + q}
  BY <1>1 DEF Members
<1>11. {z[i] : i \in 1 .. p + q} \subseteq Members(l) \cup Members(k)
  BY <1>7
<1>12. Members(l) \subseteq {z[i] : i \in 1 .. p + q}
  <2>1. \A i \in 1 .. p : i \in 1 .. p + q /\ z[i] = l[i]
    BY <1>1, <1>2
  <2> QED  BY <1>5, <2>1
<1>13. Members(k) \subseteq {z[i] : i \in 1 .. p + q}
  <2>1. \A i \in 1 .. q : p + i \in 1 .. p + q /\ z[p + i] = k[i]
    BY <1>1, <1>2
  <2> QED  BY <1>5, <2>1
<1> QED  BY <1>1, <1>9, <1>10, <1>11, <1>12, <1>13 DEF z

LEMMA MembersOfOne ==
    ASSUME NEW c \in Columns, NEW S
    PROVE  /\ One(c, S) \in Seq(Columns)
           /\ Distinct(One(c, S))
           /\ Members(One(c, S)) = S \cap {c}
<1>1. CASE c \in S
  <2>1. One(c, S) = <<c>>
    BY <1>1 DEF One
  <2>2. Len(<<c>>) = 1 /\ <<c>>[1] = c /\ <<c>> \in Seq(Columns)
    OBVIOUS
  <2>3. Members(<<c>>) = {c} /\ Distinct(<<c>>)
    BY <2>2 DEF Members, Distinct
  <2> QED  BY <1>1, <2>1, <2>2, <2>3
<1>2. CASE c \notin S
  <2>1. One(c, S) = <<>>
    BY <1>2 DEF One
  <2>2. Len(<<>>) = 0 /\ <<>> \in Seq(Columns)
    OBVIOUS
  <2>3. Members(<<>>) = {} /\ Distinct(<<>>)
    BY <2>2 DEF Members, Distinct
  <2> QED  BY <1>2, <2>1, <2>2, <2>3
<1> QED  BY <1>1, <1>2

\* A list of the columns of S that are in K, each once.
ListOf(l, S, K) == l \in Seq(Columns) /\ Distinct(l) /\ Members(l) = S \cap K

LEMMA OneMore ==
    ASSUME NEW S, NEW K, NEW l, ListOf(l, S, K), NEW c \in Columns, c \notin K
    PROVE  ListOf(l \o One(c, S), S, K \cup {c})
<1>1. /\ One(c, S) \in Seq(Columns)
      /\ Distinct(One(c, S))
      /\ Members(One(c, S)) = S \cap {c}
  BY MembersOfOne
<1>2. Members(l) \cap Members(One(c, S)) = {}
  BY <1>1 DEF ListOf
<1>3. /\ l \o One(c, S) \in Seq(Columns)
      /\ Distinct(l \o One(c, S))
      /\ Members(l \o One(c, S)) = Members(l) \cup Members(One(c, S))
  BY <1>1, <1>2, MembersOfBoth DEF ListOf
<1>4. Members(l \o One(c, S)) = S \cap (K \cup {c})
  BY <1>1, <1>3 DEF ListOf
<1> QED  BY <1>3, <1>4, Zenon DEF ListOf

\* sort.Strings: the columns that were given, each once.
LEMMA InOrderIs ==
    ASSUME NEW S
    PROVE  /\ InOrder(S) \in Seq(Columns)
           /\ Distinct(InOrder(S))
           /\ Members(InOrder(S)) = S \cap Columns
<1> DEFINE l1 == One("created_at", S)
           l2 == l1 \o One("deleted_at", S)
           l3 == l2 \o One("id", S)
           l4 == l3 \o One("key", S)
           l5 == l4 \o One("name", S)
           l6 == l5 \o One("role", S)
           l7 == l6 \o One("updated_at", S)
           K1 == {"created_at"}
           K2 == K1 \cup {"deleted_at"}
           K3 == K2 \cup {"id"}
           K4 == K3 \cup {"key"}
           K5 == K4 \cup {"name"}
           K6 == K5 \cup {"role"}
           K7 == K6 \cup {"updated_at"}
<1>1. ListOf(l1, S, K1)
  BY MembersOfOne DEF ListOf, Columns
<1>2. /\ "deleted_at" \in Columns \ K1 /\ "id" \in Columns \ K2
      /\ "key" \in Columns \ K3 /\ "name" \in Columns \ K4
      /\ "role" \in Columns \ K5 /\ "updated_at" \in Columns \ K6
  BY DEF Columns
<1>3. InOrder(S) = l7
  BY DEF InOrder, One
<1>4. K7 = Columns
  BY DEF Columns
<1> HIDE DEF l1, K1
<1>5. ListOf(l2, S, K2)
  BY <1>1, <1>2, OneMore
<1> HIDE DEF l2, K2
<1>6. ListOf(l3, S, K3)
  BY <1>2, <1>5, OneMore
<1> HIDE DEF l3, K3
<1>7. ListOf(l4, S, K4)
  BY <1>2, <1>6, OneMore
<1> HIDE DEF l4, K4
<1>8. ListOf(l5, S, K5)
  BY <1>2, <1>7, OneMore
<1> HIDE DEF l5, K5
<1>9. ListOf(l6, S, K6)
  BY <1>2, <1>8, OneMore
<1> HIDE DEF l6, K6
<1>10. ListOf(l7, S, K7)
  BY <1>2, <1>9, OneMore
<1> QED  BY <1>3, <1>4, <1>10 DEF ListOf

-----------------------------------------------------------------------------
(***************************************************************************)
(* Generated keys, and where a value stands in a list of arguments.        *)
(***************************************************************************)
LEMMA SomeBound ==
    \A n \in Nat : \A f \in [1 .. n -> Nat] : \E m \in Nat : \A i \in 1 .. n : f[i] <= m
<1> DEFINE T == {n \in Nat : \A f \in [1 .. n -> Nat] :
                    \E m \in Nat : \A i \in 1 .. n : f[i] <= m}
<1>1. 0 \in T
  OBVIOUS
<1>2. ASSUME NEW n \in Nat, n \in T PROVE n + 1 \in T
  <2>0. n + 1 \in Nat
    OBVIOUS
  <2> SUFFICES ASSUME NEW f \in [1 .. n + 1 -> Nat]
               PROVE  \E m \in Nat : \A i \in 1 .. n + 1 : f[i] <= m
    BY <2>0, Zenon
  <2> DEFINE g == [i \in 1 .. n |-> f[i]]
  <2>1. g \in [1 .. n -> Nat]
    OBVIOUS
  <2>2. PICK m \in Nat : \A i \in 1 .. n : g[i] <= m
    BY <1>2, <2>1
  <2>3. f[n + 1] \in Nat
    OBVIOUS
  <2>4. \A i \in 1 .. n + 1 : i \in 1 .. n \/ i = n + 1
    OBVIOUS
  <2>5. \A i \in 1 .. n + 1 : f[i] <= m + f[n + 1]
    BY <2>2, <2>3, <2>4
  <2>6. m + f[n + 1] \in Nat
    BY <2>3
  <2> QED  BY <2>5, <2>6, Zenon
<1> HIDE DEF T
<1>3. \A n \in Nat : n \in T
  BY <1>1, <1>2, AllNumbers
<1> QED  BY <1>3 DEF T

LEMMA MaxIs ==
    ASSUME NEW S \in SUBSET Nat, IsFiniteSet(S), S # {}
    PROVE  Max(S) \in S /\ \A x \in S : Max(S) >= x
<1>1. PICK n \in Nat : ExistsSurjection(1 .. n, S)
  BY FS_NatSurjection
<1>2. PICK f \in [1 .. n -> S] : \A x \in S : \E i \in 1 .. n : f[i] = x
  BY <1>1 DEF ExistsSurjection, Surjection
<1>3. f \in [1 .. n -> Nat]
  BY <1>2
<1> DEFINE Bounds == {m \in Nat : \A x \in S : x <= m}
<1>4. Bounds # {}
  <2>1. PICK m \in Nat : \A i \in 1 .. n : f[i] <= m
    BY <1>3, SomeBound
  <2>2. \A x \in S : x <= m
    BY <1>2, <2>1
  <2> QED  BY <2>2
<1>5. PICK m \in Bounds : \A k \in Bounds : m <= k
  BY <1>4, LeastNumber
<1>6. m \in S
  <2> SUFFICES ASSUME m \notin S PROVE FALSE
    OBVIOUS
  <2>1. \A x \in S : x <= m /\ x # m /\ x \in Nat
    BY <1>5
  <2>2. PICK x \in S : TRUE
    OBVIOUS
  <2>3. m - 1 \in Nat
    BY <1>5, <2>1, <2>2
  <2>4. m - 1 \in Bounds
    BY <1>5, <2>1, <2>3
  <2> QED  BY <1>5, <2>4
<1>7. \E y \in S : \A x \in S : y >= x
  BY <1>5, <1>6
<1> QED  BY <1>7 DEF Max

\* A generated key is no row's yet, and no two of a statement are the same.
LEMMA FreshIds ==
    ASSUME IsFiniteSet(DOMAIN table), DOMAIN table \subseteq Nat
    PROVE  /\ \A r \in Nat \ {0} : NewId(r) \in Nat \ DOMAIN table
           /\ \A r, s \in Nat : NewId(r) = NewId(s) => r = s
<1> DEFINE S == DOMAIN table \cup {0}
<1>1. S \in SUBSET Nat /\ S # {} /\ IsFiniteSet(S)
  BY FS_AddElement
<1> HIDE DEF S
<1>2. Max(S) \in S /\ \A x \in S : Max(S) >= x
  BY <1>1, MaxIs
<1>3. Max(S) \in Nat /\ \A x \in DOMAIN table : Max(S) >= x
  BY <1>1, <1>2 DEF S
<1>4. \A r : NewId(r) = r + Max(S)
  BY DEF NewId, S
<1> HIDE DEF NewId
<1> QED  BY <1>3, <1>4

LEMMA AsManyIds ==
    ASSUME IsFiniteSet(DOMAIN table), DOMAIN table \subseteq Nat,
           NEW some \in SUBSET Nat, IsFiniteSet(some)
    PROVE  /\ IsFiniteSet({NewId(r) : r \in some})
           /\ Cardinality({NewId(r) : r \in some}) = Cardinality(some)
<1> DEFINE ids == {NewId(r) : r \in some}
           f   == [r \in some |-> NewId(r)]
<1>1. f \in [some -> ids]
  OBVIOUS
<1>2. \A r, s \in some : f[r] = f[s] => r = s
  BY FreshIds
<1>3. \A id \in ids : \E r \in some : f[r] = id
  OBVIOUS
<1> HIDE DEF f, ids
<1>4. ExistsBijection(some, ids)
  BY <1>1, <1>2, <1>3
     DEF ExistsBijection, Bijection, Injection, IsInjective, Surjection
<1> QED  BY <1>4, FS_Bijection DEF ids

LEMMA PlaceIs ==
    ASSUME NEW l \in Seq(Columns), NEW c \in Members(l)
    PROVE  Place(l, c) \in 1 .. Len(l) /\ l[Place(l, c)] = c
<1>1. \E i \in 1 .. Len(l) : l[i] = c
  BY Zenon DEF Members
<1> QED  BY <1>1 DEF Place

\* Argument i of row r of a batch of rows with n columns is in row r, column i.
LEMMA CellIs ==
    ASSUME NEW n \in Nat \ {0}, NEW m \in Nat, NEW r \in 1 .. m, NEW i \in 1 .. n,
           NEW k, k = (r - 1) * n + i
    PROVE  /\ k \in 1 .. m * n
           /\ ((k - 1) \div n) + 1 = r
           /\ ((k - 1) % n) + 1 = i
<1> DEFINE q == r - 1
           d == i - 1
           x == q * n
<1>1. q \in Nat /\ d \in 0 .. n - 1 /\ q + 1 <= m
  OBVIOUS
<1>2. x \in Nat /\ (q + 1) * n = x + n
  BY <1>1
<1>3. (q + 1) * n <= m * n
  BY <1>1
<1>4. m * n \in Nat
  OBVIOUS
<1>5. (x + d) \div n = q /\ (x + d) % n = d
  BY <1>1, <1>2
<1> QED  BY <1>1, <1>2, <1>3, <1>4, <1>5

-----------------------------------------------------------------------------
(***************************************************************************)
(* The rows a statement inserts.                                           *)
(***************************************************************************)
LEMMA MapIs ==
    ASSUME NEW data \in Maps \cup Changes
    PROVE  /\ DOMAIN data \subseteq Columns \ {"id"}
           /\ \A c \in DOMAIN data : data[c] \in Nat
<1>1. IsData(data)
  BY ConstantsAssumption
<1> QED  BY <1>1 DEF IsData

LEMMA BatchIs ==
    ASSUME NEW rows \in Batches
    PROVE  /\ Len(rows) \in Nat \ {0}
           /\ \A r \in 1 .. Len(rows) :
                 /\ DOMAIN rows[r] \subseteq Columns \ {"id"}
                 /\ \A c \in DOMAIN rows[r] : rows[r][c] \in Nat
                 /\ "key" \in DOMAIN rows[r] /\ rows[r].key # Null
           /\ \A r, s \in 1 .. Len(rows) : rows[r].key = rows[s].key => r = s
<1>1. rows \in Seq(InBatches) /\ rows # <<>>
  BY ConstantsAssumption, KeysAssumption
<1>2. Len(rows) \in Nat \ {0}
  BY <1>1
<1>3. ASSUME NEW r \in 1 .. Len(rows)
      PROVE  DOMAIN rows[r] \subseteq Columns \ {"id"}
                /\ \A c \in DOMAIN rows[r] : rows[r][c] \in Nat
  <2>1. rows[r] \in InBatches
    BY <1>1
  <2>2. IsData(rows[r])
    BY <2>1, ConstantsAssumption
  <2> QED  BY <2>2 DEF IsData
<1> QED  BY <1>2, <1>3, KeysAssumption

\* A call that inserts, with what it was given.
Inserting(op) ==
    IF op.op = "Insert" THEN \E data \in Maps : op.rows = <<data>>
    ELSE op.rows \in Batches

GivenBy(op) == UNION {Fills(op.rows[r]) : r \in 1 .. Len(op.rows)}

RowOf(op, r) ==
    [c \in Columns |-> IF c = "id" THEN NewId(r) ELSE Value(op, r, c)]

LEMMA InsertingIs ==
    ASSUME NEW op, Inserting(op)
    PROVE  /\ Len(op.rows) \in Nat \ {0}
           /\ \A r \in 1 .. Len(op.rows) :
                 /\ DOMAIN op.rows[r] \subseteq Columns \ {"id"}
                 /\ \A c \in DOMAIN op.rows[r] : op.rows[r][c] \in Nat
                 /\ "key" \in DOMAIN op.rows[r] /\ op.rows[r].key # Null
           /\ \A r, s \in 1 .. Len(op.rows) : op.rows[r].key = op.rows[s].key => r = s
<1>1. CASE op.op = "Insert"
  <2>1. PICK data \in Maps : op.rows = <<data>>
    BY <1>1 DEF Inserting
  <2>2. /\ DOMAIN data \subseteq Columns \ {"id"}
        /\ \A c \in DOMAIN data : data[c] \in Nat
    BY MapIs
  <2>3. "key" \in DOMAIN data /\ data.key # Null
    BY KeysAssumption
  <2>4. Len(<<data>>) = 1 /\ <<data>>[1] = data
    OBVIOUS
  <2>5. Len(op.rows) = 1 /\ op.rows[1] = data
    BY <2>1, <2>4
  <2>6. \A r \in 1 .. Len(op.rows) : r = 1
    BY <2>5
  <2> QED  BY <2>2, <2>3, <2>5, <2>6
<1>2. CASE op.op # "Insert"
  <2>1. op.rows \in Batches
    BY <1>2 DEF Inserting
  <2> QED  BY <2>1, BatchIs
<1> QED  BY <1>1, <1>2

\* The columns that are given by someone may be filled; the key is.
LEMMA GivenIs ==
    ASSUME NEW op, Inserting(op), tags \in Taggings
    PROVE  /\ GivenBy(op) \subseteq Columns \ {"id"}
           /\ \A c \in GivenBy(op) : CanFill(c)
           /\ "key" \in GivenBy(op)
<1>1. \A r \in 1 .. Len(op.rows) :
         /\ DOMAIN op.rows[r] \subseteq Columns \ {"id"}
         /\ "key" \in DOMAIN op.rows[r]
  BY InsertingIs
<1>2. CanFill("key")
  BY KeysAssumption DEF CanFill
<1>3. Len(op.rows) \in Nat \ {0}
  BY InsertingIs
<1>4. 1 \in 1 .. Len(op.rows)
  BY <1>3
<1>5. "key" \in Fills(op.rows[1])
  BY <1>1, <1>2, <1>4 DEF Fills
<1> QED  BY <1>1, <1>4, <1>5 DEF GivenBy, Fills

\* Every value is a number or NULL; the key of a row is the one it was given, and
\* what may not be filled is the database's.
LEMMA ValueIs ==
    ASSUME NEW op, Inserting(op), tags \in Taggings, clock \in Nat,
           NEW r \in 1 .. Len(op.rows)
    PROVE  /\ \A c \in Columns : Value(op, r, c) \in Nat
           /\ Value(op, r, "key") = op.rows[r].key
           /\ \A c \in Columns \ Timestamps : ~CanFill(c) => Value(op, r, c) = Default(c)
<1>1. /\ DOMAIN op.rows[r] \subseteq Columns \ {"id"}
      /\ \A c \in DOMAIN op.rows[r] : op.rows[r][c] \in Nat
      /\ "key" \in DOMAIN op.rows[r]
  BY InsertingIs
<1>2. \A c \in GivenBy(op) : CanFill(c)
  BY GivenIs
<1>3. "key" \in GivenBy(op) /\ "key" \notin Timestamps
  BY GivenIs DEF Timestamps
<1>4. \A c : Value(op, r, c) =
         IF c \in Timestamps
         THEN IF op.op = "Insert" /\ c \in GivenBy(op) THEN op.rows[r][c] ELSE clock
         ELSE IF c \notin GivenBy(op) THEN Default(c)
         ELSE IF c \in DOMAIN op.rows[r] THEN op.rows[r][c] ELSE Null
  BY DEF Value, GivenBy
<1>5. ASSUME op.op = "Insert", NEW c \in GivenBy(op) PROVE op.rows[r][c] \in Nat
  <2>1. PICK data \in Maps : op.rows = <<data>>
    BY <1>5 DEF Inserting
  <2>2. Len(<<data>>) = 1 /\ <<data>>[1] = data
    OBVIOUS
  <2>3. Len(op.rows) = 1 /\ r = 1
    BY <2>1, <2>2
  <2>4. \A s \in 1 .. Len(op.rows) : s = r
    BY <2>3
  <2>5. c \in DOMAIN op.rows[r]
    BY <2>4 DEF GivenBy, Fills
  <2> QED  BY <1>1, <2>5
<1>6. \A c : Default(c) \in Nat /\ Null \in Nat
  BY DEF Default, Null
<1>7. ASSUME NEW c \in Columns PROVE Value(op, r, c) \in Nat
  BY <1>1, <1>4, <1>5, <1>6
<1>8. Value(op, r, "key") = op.rows[r].key
  BY <1>1, <1>3, <1>4
<1>9. \A c \in Columns \ Timestamps : ~CanFill(c) => Value(op, r, c) = Default(c)
  BY <1>2, <1>4
<1> QED  BY <1>7, <1>8, <1>9

LEMMA UnionColumnsIs ==
    ASSUME NEW op, Inserting(op), tags \in Taggings
    PROVE  LET cols == UnionColumns(op.rows)
           IN  /\ cols \in Seq(Columns) /\ Len(cols) \in Nat \ {0}
               /\ Members(cols) = GivenBy(op) \cup Timestamps
<1> DEFINE S == {c \in UNION {DOMAIN op.rows[r] : r \in 1 .. Len(op.rows)} : CanFill(c)}
                   \cup Timestamps
           cols == InOrder(S)
<1>1. UnionColumns(op.rows) = cols
  BY DEF UnionColumns
<1>2. S = GivenBy(op) \cup Timestamps
  BY DEF GivenBy, Fills
<1>3. S \subseteq Columns /\ "created_at" \in S
  BY <1>2, GivenIs DEF Timestamps, Columns
<1> HIDE DEF S
<1>4. cols \in Seq(Columns) /\ Members(cols) = S
  BY <1>3, InOrderIs
<1> HIDE DEF cols
<1>5. Len(cols) \in Nat /\ cols # <<>>
  <2>1. Members(<<>>) = {}
    BY DEF Members
  <2> QED  BY <1>3, <1>4, <2>1
<1>6. Len(cols) # 0
  BY <1>4, <1>5
<1> QED  BY <1>1, <1>2, <1>4, <1>5, <1>6

\* Each cell of a batch reaches the row and the column it was meant for.
LEMMA BatchRowIs ==
    ASSUME NEW op, op.op # "Insert", Inserting(op), tags \in Taggings
    PROVE  /\ Len(BatchRows(op.rows)) = Len(op.rows)
           /\ \A r \in 1 .. Len(op.rows) : BatchRows(op.rows)[r] = RowOf(op, r)
<1> DEFINE rows == op.rows
           cols == UnionColumns(rows)
           m    == Len(rows)
           n    == Len(cols)
           sql  == InsertInto(cols, m)
           args == RowValues(rows, cols)
           Cell(r, c) == IF c \in Timestamps THEN clock
                         ELSE IF c \in DOMAIN rows[r] THEN rows[r][c] ELSE Null
<1>1. /\ cols \in Seq(Columns) /\ n \in Nat \ {0}
      /\ Members(cols) = GivenBy(op) \cup Timestamps
  BY UnionColumnsIs
<1>2. m \in Nat \ {0}
  BY InsertingIs
<1>3. BatchRows(rows) =
        [r \in 1 .. Len(sql) |->
           [c \in Columns |->
              IF c = "id" THEN NewId(r)
              ELSE IF c \in Members(cols) THEN Written(cols, sql[r], args, c)
              ELSE Default(c)]]
  BY DEF BatchRows, NewRows
<1>4. /\ Len(sql) = m
      /\ \A r \in 1 .. m : \A i \in 1 .. n : sql[r][i] = (r - 1) * n + i
  BY <1>2 DEF InsertInto
<1>5. args = [k \in 1 .. m * n |-> Cell(((k - 1) \div n) + 1, cols[((k - 1) % n) + 1])]
  BY DEF RowValues
<1> HIDE DEF rows, cols, m, n, sql, args, Cell
<1>6. Len(args) = m * n
  <2>1. m * n \in Nat
    BY <1>1, <1>2
  <2> QED  BY <1>5, <2>1
<1>7. ASSUME NEW r \in 1 .. m, NEW c \in Members(cols)
      PROVE  Written(cols, sql[r], args, c) = Cell(r, c)
  <2> DEFINE i == Place(cols, c)
             k == (r - 1) * n + i
  <2>1. i \in 1 .. n /\ cols[i] = c
    BY <1>1, PlaceIs DEF n
  <2>2. Written(cols, sql[r], args, c) = Argument(args, sql[r][i])
    BY DEF Written
  <2> HIDE DEF i
  <2>3. sql[r][i] = k
    BY <1>4, <2>1
  <2>k. k = (r - 1) * n + i /\ m \in Nat
    BY <1>2
  <2> HIDE DEF k
  <2>4. k \in 1 .. m * n /\ ((k - 1) \div n) + 1 = r /\ ((k - 1) % n) + 1 = i
    BY <1>1, <2>1, <2>k, CellIs
  <2>5. Argument(args, k) = args[k]
    BY <1>6, <2>4 DEF Argument
  <2>6. args[k] = Cell(r, c)
    BY <1>5, <2>1, <2>4
  <2> QED  BY <2>2, <2>3, <2>5, <2>6
<1>8. ASSUME NEW r \in 1 .. m, NEW c \in Columns, c # "id"
      PROVE  Value(op, r, c) =
                IF c \in Members(cols) THEN Cell(r, c) ELSE Default(c)
  BY <1>1 DEF Value, Cell, GivenBy, rows
<1>9. ASSUME NEW r \in 1 .. m PROVE BatchRows(rows)[r] = RowOf(op, r)
  <2>1. BatchRows(rows)[r] =
           [c \in Columns |->
              IF c = "id" THEN NewId(r)
              ELSE IF c \in Members(cols) THEN Written(cols, sql[r], args, c)
              ELSE Default(c)]
    BY <1>3, <1>4
  <2>2. \A c \in Columns :
           (IF c = "id" THEN NewId(r)
            ELSE IF c \in Members(cols) THEN Written(cols, sql[r], args, c)
            ELSE Default(c)) = IF c = "id" THEN NewId(r) ELSE Value(op, r, c)
    BY <1>7, <1>8
  <2> QED  BY <2>1, <2>2 DEF RowOf
<1>10. Len(BatchRows(rows)) = m
  BY <1>2, <1>3, <1>4
<1> QED  BY <1>9, <1>10 DEF rows, m

\* The columns of a map and the timestamps it does not give, with their values.
LEMMA StampedIs ==
    ASSUME NEW data \in Maps \cup Changes, clock \in Nat,
           NEW S \in SUBSET Columns
    PROVE  LET given == FillableOf(data)
               stamp == InOrder(S \ Members(given))
               cols  == given \o stamp
               args  == Given(data, given) \o [i \in 1 .. Len(stamp) |-> clock]
           IN  /\ cols \in Seq(Columns) /\ args \in Seq(Nat) /\ Len(args) = Len(cols)
               /\ Members(cols) = Fills(data) \cup S
               /\ \A i \in 1 .. Len(cols) :
                     args[i] = IF cols[i] \in Fills(data) THEN data[cols[i]] ELSE clock
<1> DEFINE given == FillableOf(data)
           stamp == InOrder(S \ Members(given))
           cols  == given \o stamp
           p     == Len(given)
           q     == Len(stamp)
           x     == Given(data, given)
           y     == [i \in 1 .. q |-> clock]
           args  == x \o y
<1>1. given \in Seq(Columns) /\ Members(given) = Fills(data)
  <2>1. given = InOrder(Fills(data))
    BY DEF FillableOf, Fills
  <2>2. Fills(data) \subseteq Columns
    BY MapIs DEF Fills
  <2> QED  BY <2>1, <2>2, InOrderIs
<1>2. stamp \in Seq(Columns) /\ Members(stamp) = S \ Fills(data)
  <2>1. (S \ Members(given)) \cap Columns = S \ Fills(data)
    BY <1>1
  <2> HIDE DEF given
  <2> QED  BY <2>1, InOrderIs
<1>3. x = [i \in 1 .. p |-> data[given[i]]]
  BY DEF Given
<1> HIDE DEF given, stamp, x
<1>4. p \in Nat /\ q \in Nat /\ cols \in Seq(Columns) /\ Len(cols) = p + q
  BY <1>1, <1>2
<1>5. /\ \A i \in 1 .. p : cols[i] = given[i]
      /\ \A i \in 1 .. p + q : i \notin 1 .. p => cols[i] = stamp[i - p] /\ i - p \in 1 .. q
  BY <1>1, <1>2
<1>6. Len(x) = p /\ Len(y) = q
  BY <1>3, <1>4
<1>7. x \in Seq(Nat) /\ y \in Seq(Nat)
  <2>1. \A i \in 1 .. p : given[i] \in Members(given)
    BY DEF Members
  <2>2. \A i \in 1 .. p : data[given[i]] \in Nat
    BY <1>1, <2>1, MapIs DEF Fills
  <2> HIDE DEF p, q
  <2> QED  BY <1>3, <1>4, <2>2
<1>8. /\ Len(args) = p + q /\ args \in Seq(Nat)
      /\ \A i \in 1 .. p : args[i] = x[i]
      /\ \A i \in 1 .. p + q : i \notin 1 .. p => args[i] = clock
  <2> HIDE DEF p, q
  <2>1. \A i \in 1 .. q : y[i] = clock
    OBVIOUS
  <2>2. \A i \in 1 .. p + q : i \notin 1 .. p => i - p \in 1 .. q
    BY <1>4
  <2> HIDE DEF y
  <2> QED  BY <1>4, <1>6, <1>7, <2>1, <2>2
<1>9. Members(cols) = Fills(data) \cup S
  <2>1. Members(cols) = {cols[i] : i \in 1 .. p + q}
    BY <1>4 DEF Members
  <2>2. Members(given) = {given[i] : i \in 1 .. p} /\ Members(stamp) = {stamp[i] : i \in 1 .. q}
    BY DEF Members
  <2>3. \A i \in 1 .. q : p + i \in 1 .. p + q /\ (p + i) \notin 1 .. p /\ (p + i) - p = i
    BY <1>4
  <2>4. \A i \in 1 .. p : i \in 1 .. p + q
    BY <1>4
  <2> HIDE DEF p, q, cols
  <2>5. Members(cols) \subseteq Members(given) \cup Members(stamp)
    BY <1>5, <2>1, <2>2, <2>4
  <2>6. Members(given) \subseteq Members(cols)
    BY <1>5, <2>1, <2>2, <2>4
  <2>7. Members(stamp) \subseteq Members(cols)
    BY <1>5, <2>1, <2>2, <2>3
  <2> QED  BY <1>1, <1>2, <2>5, <2>6, <2>7
<1>10. ASSUME NEW i \in 1 .. p + q
       PROVE  args[i] = IF cols[i] \in Fills(data) THEN data[cols[i]] ELSE clock
  <2>1. CASE i \in 1 .. p
    <3>1. given[i] = cols[i] /\ args[i] = data[cols[i]]
      BY <1>3, <1>5, <1>8, <2>1
    <3>2. given[i] \in Fills(data)
      BY <1>1, <2>1 DEF Members
    <3> QED  BY <3>1, <3>2
  <2>2. CASE i \notin 1 .. p
    <3>1. stamp[i - p] = cols[i] /\ i - p \in 1 .. q /\ args[i] = clock
      BY <1>5, <1>8, <2>2
    <3>2. stamp[i - p] \notin Fills(data)
      BY <1>2, <3>1 DEF Members
    <3> QED  BY <3>1, <3>2
  <2> QED  BY <2>1, <2>2
<1> HIDE DEF cols, p, q, y, args
<1>11. /\ cols \in Seq(Columns) /\ args \in Seq(Nat) /\ Len(args) = Len(cols)
       /\ Members(cols) = Fills(data) \cup S
       /\ \A i \in 1 .. Len(cols) :
             args[i] = IF cols[i] \in Fills(data) THEN data[cols[i]] ELSE clock
  BY <1>4, <1>8, <1>9, <1>10
<1> QED  BY <1>11 DEF args, cols, x, y, q, stamp, given

\* So does each value of a single row; a timestamp that was given is kept.
LEMMA InsertRowIs ==
    ASSUME NEW data \in Maps, clock \in Nat
    PROVE  LET given == FillableOf(data)
               stamp == InOrder(Timestamps \ Members(given))
               cols  == given \o stamp
               args  == Given(data, given) \o [i \in 1 .. Len(stamp) |-> clock]
               new   == NewRows(InsertInto(cols, 1), cols, args)
           IN  Len(new) = 1 /\ new[1] = RowOf([op |-> "Insert", rows |-> <<data>>], 1)
<1> DEFINE op    == [op |-> "Insert", rows |-> <<data>>]
           given == FillableOf(data)
           stamp == InOrder(Timestamps \ Members(given))
           cols  == given \o stamp
           args  == Given(data, given) \o [i \in 1 .. Len(stamp) |-> clock]
           sql   == InsertInto(cols, 1)
           new   == NewRows(sql, cols, args)
<1>1. /\ cols \in Seq(Columns) /\ args \in Seq(Nat) /\ Len(args) = Len(cols)
      /\ Members(cols) = Fills(data) \cup Timestamps
      /\ \A i \in 1 .. Len(cols) :
            args[i] = IF cols[i] \in Fills(data) THEN data[cols[i]] ELSE clock
  <2>1. Timestamps \in SUBSET Columns
    BY DEF Timestamps, Columns
  <2> HIDE DEF given, stamp, cols, args
  <2> QED  BY <2>1, StampedIs DEF given, stamp, cols, args
<1> HIDE DEF args, cols
<1>2. Len(sql) = 1 /\ \A i \in 1 .. Len(cols) : sql[1][i] = i
  <2>1. Len(cols) \in Nat
    BY <1>1
  <2> QED  BY <2>1 DEF InsertInto
<1> HIDE DEF sql
<1>3. ASSUME NEW c \in Members(cols)
      PROVE  Written(cols, sql[1], args, c) = IF c \in Fills(data) THEN data[c] ELSE clock
  <2> DEFINE i == Place(cols, c)
  <2>1. i \in 1 .. Len(cols) /\ cols[i] = c
    BY <1>1, PlaceIs
  <2>2. Written(cols, sql[1], args, c) = Argument(args, sql[1][i])
    BY DEF Written
  <2> HIDE DEF i
  <2> QED  BY <1>1, <1>2, <2>1, <2>2 DEF Argument
<1>4. GivenBy(op) = Fills(data) /\ op.rows[1] = data /\ op.op = "Insert"
  <2>1. Len(<<data>>) = 1 /\ <<data>>[1] = data
    OBVIOUS
  <2>2. \A r \in 1 .. Len(<<data>>) : <<data>>[r] = data
    BY <2>1
  <2>3. 1 \in 1 .. Len(<<data>>)
    BY <2>1
  <2> QED  BY <2>1, <2>2, <2>3 DEF GivenBy
<1>5. \A c \in Columns : c # "id" =>
          Value(op, 1, c) = IF c \in Members(cols)
                            THEN (IF c \in Fills(data) THEN data[c] ELSE clock)
                            ELSE Default(c)
  <2> HIDE DEF op
  <2>1. \A c : Value(op, 1, c) =
         IF c \in Timestamps
         THEN IF op.op = "Insert" /\ c \in GivenBy(op) THEN op.rows[1][c] ELSE clock
         ELSE IF c \notin GivenBy(op) THEN Default(c)
         ELSE IF c \in DOMAIN op.rows[1] THEN op.rows[1][c] ELSE Null
    BY DEF Value, GivenBy
  <2>2. Fills(data) \subseteq DOMAIN data
    BY DEF Fills
  <2> QED  BY <1>1, <1>4, <2>1, <2>2
<1>6. Len(new) = 1 /\
      new[1] = [c \in Columns |->
                   IF c = "id" THEN NewId(1)
                   ELSE IF c \in Members(cols) THEN Written(cols, sql[1], args, c)
                   ELSE Default(c)]
  BY <1>2 DEF NewRows
<1>7. \A c \in Columns :
          (IF c = "id" THEN NewId(1)
           ELSE IF c \in Members(cols) THEN Written(cols, sql[1], args, c)
           ELSE Default(c)) = IF c = "id" THEN NewId(1) ELSE Value(op, 1, c)
  BY <1>3, <1>5
<1> HIDE DEF op, new
<1>8. Len(new) = 1 /\ new[1] = RowOf(op, 1)
  BY <1>6, <1>7 DEF RowOf
<1> QED  BY <1>8 DEF op, new, sql, args, cols, stamp, given

-----------------------------------------------------------------------------
(***************************************************************************)
(* The inductive invariant: rows are also finitely many, so that there is  *)
(* always a key to generate.                                               *)
(***************************************************************************)
TableOK(rows) ==
    /\ IsFiniteSet(DOMAIN rows) /\ DOMAIN rows \subseteq Nat
    /\ \A id \in DOMAIN rows :
          rows[id] \in [Columns -> Nat] /\ rows[id].id = id /\ rows[id].key # Null
    /\ \A i, j \in DOMAIN rows : rows[i].key = rows[j].key => i = j

IInv ==
    /\ dialect \in Dialects /\ tags \in Taggings
    /\ TableOK(table)
    /\ clock \in Start .. Start + MaxWrites

LEMMA InvImplied ==
    IInv => TypeOK /\ clock \in Nat
<1>1. MaxWrites \in Nat /\ Start \in Nat
  BY ConstantsAssumption DEF Start
<1> QED  BY <1>1 DEF IInv, TypeOK, TableOK

\* A table in which the rows of a call are: added where their keys are free, and
\* written in the columns of `set` where they are not.
Old(op, r) == {id \in DOMAIN table : table[id].key = op.rows[r].key}
Free(op)   == {r \in 1 .. Len(op.rows) : Old(op, r) = {}}

Merged(op, set, next) ==
    /\ DOMAIN next = DOMAIN table \cup {NewId(r) : r \in Free(op)}
    /\ \A r \in Free(op) : next[NewId(r)] = RowOf(op, r)
    /\ \A id \in DOMAIN table :
          \/ next[id] = table[id] /\ \A r \in 1 .. Len(op.rows) : id \notin Old(op, r)
          \/ \E r \in 1 .. Len(op.rows) :
                /\ id \in Old(op, r)
                /\ next[id] = [c \in Columns |-> IF c \in set THEN Value(op, r, c)
                                                 ELSE table[id][c]]

LEMMA RowOfIs ==
    ASSUME NEW op, Inserting(op), IInv, NEW r \in 1 .. Len(op.rows)
    PROVE  /\ RowOf(op, r) \in [Columns -> Nat]
           /\ RowOf(op, r).id = NewId(r)
           /\ RowOf(op, r).key = op.rows[r].key
           /\ NewId(r) \in Nat \ DOMAIN table
<1>1. tags \in Taggings /\ clock \in Nat
  BY InvImplied DEF IInv
<1>2. /\ \A c \in Columns : Value(op, r, c) \in Nat
      /\ Value(op, r, "key") = op.rows[r].key
  BY <1>1, ValueIs
<1>3. r \in Nat \ {0}
  BY InsertingIs
<1>4. NewId(r) \in Nat \ DOMAIN table
  BY <1>3, FreshIds DEF IInv, TableOK
<1>5. "id" \in Columns /\ "key" \in Columns
  BY DEF Columns
<1> QED  BY <1>2, <1>4, <1>5 DEF RowOf

\* Such a table is as well-formed as the one before.
LEMMA MergedOK ==
    ASSUME NEW op, Inserting(op), IInv, NEW set \in SUBSET (Columns \ {"id"}),
           NEW next, Merged(op, set, next)
    PROVE  /\ TableOK(next)
           /\ \A id \in DOMAIN table : next[id].key = table[id].key
<1>1. /\ DOMAIN next = DOMAIN table \cup {NewId(r) : r \in Free(op)}
      /\ \A r \in Free(op) : next[NewId(r)] = RowOf(op, r)
  BY DEF Merged
<1>2. TableOK(table) /\ tags \in Taggings /\ clock \in Nat
  BY InvImplied DEF IInv
<1>3. Len(op.rows) \in Nat
  BY InsertingIs
<1>4. IsFiniteSet(DOMAIN next) /\ DOMAIN next \subseteq Nat
  <2>1. {NewId(r) : r \in Free(op)} \subseteq Nat
    BY RowOfIs DEF Free
  <2>2. IsFiniteSet(Free(op))
    <3>1. IsFiniteSet(1 .. Len(op.rows))
      BY <1>3, FS_Interval
    <3> QED  BY <3>1, FS_Subset DEF Free
  <2>3. /\ IsFiniteSet(DOMAIN table) /\ DOMAIN table \subseteq Nat
        /\ Free(op) \in SUBSET Nat
    BY <1>2, <1>3 DEF TableOK, Free
  <2> DEFINE ids == {NewId(r) : r \in Free(op)}
  <2>4. IsFiniteSet(DOMAIN next)
    <3>1. IsFiniteSet(ids)
      BY <2>2, <2>3, AsManyIds
    <3>2. DOMAIN next = DOMAIN table \cup ids
      BY <1>1
    <3> HIDE DEF ids
    <3> QED  BY <2>3, <3>1, <3>2, FS_Union
  <2> QED  BY <1>1, <1>2, <2>1, <2>4 DEF TableOK
<1>5. ASSUME NEW r \in Free(op)
      PROVE  /\ next[NewId(r)] \in [Columns -> Nat]
             /\ next[NewId(r)].id = NewId(r)
             /\ next[NewId(r)].key = op.rows[r].key
             /\ next[NewId(r)].key # Null
  <2>1. r \in 1 .. Len(op.rows)
    BY DEF Free
  <2>2. op.rows[r].key # Null
    BY <2>1, InsertingIs
  <2> QED  BY <1>1, <2>1, <2>2, RowOfIs
<1>6. ASSUME NEW id \in DOMAIN table
      PROVE  /\ next[id] \in [Columns -> Nat]
             /\ next[id].id = id
             /\ next[id].key = table[id].key
             /\ next[id].key # Null
  <2>1. table[id] \in [Columns -> Nat] /\ table[id].id = id /\ table[id].key # Null
    BY <1>2 DEF TableOK
  <2>2. "id" \in Columns /\ "key" \in Columns
    BY DEF Columns
  <2>3. CASE next[id] = table[id]
    BY <2>1, <2>3
  <2>4. ASSUME NEW r \in 1 .. Len(op.rows), id \in Old(op, r),
               next[id] = [c \in Columns |-> IF c \in set THEN Value(op, r, c)
                                             ELSE table[id][c]]
        PROVE  /\ next[id] \in [Columns -> Nat]
               /\ next[id].id = id
               /\ next[id].key = table[id].key
    <3>1. /\ \A c \in Columns : Value(op, r, c) \in Nat
          /\ Value(op, r, "key") = op.rows[r].key
      BY <1>2, ValueIs
    <3>2. table[id].key = op.rows[r].key
      BY <2>4 DEF Old
    <3> QED  BY <2>1, <2>2, <2>4, <3>1, <3>2
  <2> QED  BY <2>1, <2>3, <2>4 DEF Merged
<1>7. ASSUME NEW i \in DOMAIN next, NEW j \in DOMAIN next, next[i].key = next[j].key
      PROVE  i = j
  <2>1. ASSUME NEW a \in DOMAIN table, NEW r \in Free(op) PROVE next[a].key # op.rows[r].key
    BY <1>6 DEF Free, Old
  <2>2. CASE i \in DOMAIN table /\ j \in DOMAIN table
    BY <1>2, <1>6, <1>7, <2>2 DEF TableOK
  <2>3. ASSUME NEW r \in Free(op), NEW s \in Free(op), i = NewId(r), j = NewId(s)
        PROVE  i = j
    <3>1. op.rows[r].key = op.rows[s].key
      BY <1>5, <1>7, <2>3
    <3>2. r = s
      BY <3>1, InsertingIs DEF Free
    <3> QED  BY <2>3, <3>2
  <2> QED  BY <1>1, <1>5, <1>7, <2>1, <2>2, <2>3
<1> QED  BY <1>1, <1>4, <1>5, <1>6, <1>7 DEF TableOK

-----------------------------------------------------------------------------
(***************************************************************************)
(* What the statements make of the table.                                  *)
(***************************************************************************)
Refused == last'.op = "Refused" /\ table' = table

\* All of the rows are new.
Inserted(op) ==
    /\ last' = op /\ Inserting(op)
    /\ Free(op) = 1 .. Len(op.rows)
    /\ Merged(op, {}, table')

LEMMA ClashIs ==
    ASSUME NEW op, Inserting(op), IInv, NEW r \in 1 .. Len(op.rows)
    PROVE  Clash(RowOf(op, r)) = Old(op, r)
BY RowOfIs DEF Clash, Old

LEMMA RunInsertDoes ==
    ASSUME IInv, NEW op, Inserting(op), NEW rows, Len(rows) = Len(op.rows),
           \A r \in 1 .. Len(op.rows) : rows[r] = RowOf(op, r), RunInsert(op, rows)
    PROVE  Refused \/ Inserted(op)
<1>1. CASE \E r \in 1 .. Len(rows) : Clash(rows[r]) # {}
  <2>1. last' = [op |-> "Refused"] /\ table' = table
    BY <1>1 DEF RunInsert, Call
  <2> QED  BY <2>1 DEF Refused
<1>2. CASE ~ \E r \in 1 .. Len(rows) : Clash(rows[r]) # {}
  <2>1. /\ last' = op
        /\ table' = [id \in DOMAIN table \cup {rows[r].id : r \in 1 .. Len(rows)} |->
                        IF id \in DOMAIN table THEN table[id]
                        ELSE rows[CHOOSE r \in 1 .. Len(rows) : rows[r].id = id]]
    BY <1>2, Zenon DEF RunInsert, Call
  <2> DEFINE all == 1 .. Len(op.rows)
             ids == {NewId(r) : r \in all}
  <2>2. \A r \in all : rows[r].id = NewId(r) /\ NewId(r) \notin DOMAIN table
    BY RowOfIs
  <2>3. {rows[r].id : r \in 1 .. Len(rows)} = ids
    BY <2>2
  <2>4. \A r \in all : Old(op, r) = {}
    BY <1>2, ClashIs
  <2>5. \A r, s \in all : NewId(r) = NewId(s) => r = s
    <3>1. all \subseteq Nat
      BY InsertingIs
    <3> QED  BY <3>1, FreshIds DEF IInv, TableOK
  <2>6. DOMAIN table' = DOMAIN table \cup ids
    BY <2>1, <2>3
  <2>7. ASSUME NEW r \in all PROVE table'[NewId(r)] = RowOf(op, r)
    <3>1. NewId(r) \in ids /\ NewId(r) \notin DOMAIN table
      BY <2>2
    <3>2. table'[NewId(r)] = rows[CHOOSE s \in 1 .. Len(rows) : rows[s].id = NewId(r)]
      <4> HIDE DEF ids
      <4> QED  BY <2>1, <2>3, <3>1
    <3>3. \A s \in 1 .. Len(rows) : rows[s].id = NewId(r) <=> s = r
      BY <2>2, <2>5
    <3>4. (CHOOSE s \in 1 .. Len(rows) : rows[s].id = NewId(r)) = r
      BY <3>3
    <3> QED  BY <3>2, <3>4
  <2>8. \A id \in DOMAIN table : table'[id] = table[id]
    <3> HIDE DEF ids
    <3> QED  BY <2>1, <2>3
  <2>9. Free(op) = all
    BY <2>4 DEF Free
  <2> HIDE DEF ids
  <2>10. Merged(op, {}, table')
    BY <2>4, <2>6, <2>7, <2>8, <2>9 DEF Merged, ids
  <2> QED  BY <2>1, <2>9, <2>10 DEF Inserted
<1> QED  BY <1>1, <1>2

LEMMA InsertDoes ==
    ASSUME IInv, NEW data \in Maps, Insert(data)
    PROVE  Refused \/ Inserted([op |-> "Insert", rows |-> <<data>>])
<1> DEFINE op    == [op |-> "Insert", rows |-> <<data>>]
           given == FillableOf(data)
           stamp == InOrder(Timestamps \ Members(given))
           cols  == given \o stamp
           args  == Given(data, given) \o [i \in 1 .. Len(stamp) |-> clock]
           new   == NewRows(InsertInto(cols, 1), cols, args)
<1>1. RunInsert(op, new)
  BY DEF Insert
<1>2. clock \in Nat
  BY InvImplied
<1>3. Len(new) = 1 /\ new[1] = RowOf(op, 1)
  BY <1>2, InsertRowIs
<1>4. op.op = "Insert" /\ op.rows = <<data>>
  OBVIOUS
<1>5. Len(<<data>>) = 1
  OBVIOUS
<1> HIDE DEF op, new
<1>6. Inserting(op)
  BY <1>4 DEF Inserting
<1>7. Len(new) = Len(op.rows) /\ \A r \in 1 .. Len(op.rows) : new[r] = RowOf(op, r)
  BY <1>3, <1>4, <1>5
<1>8. Refused \/ Inserted(op)
  BY <1>1, <1>6, <1>7, RunInsertDoes
<1> QED  BY <1>8 DEF op

LEMMA InsertManyDoes ==
    ASSUME IInv, NEW rows \in Batches, InsertMany(rows)
    PROVE  Refused \/ Inserted([op |-> "InsertMany", rows |-> rows])
<1> DEFINE op == [op |-> "InsertMany", rows |-> rows]
<1>1. op.op # "Insert" /\ op.rows = rows
  OBVIOUS
<1>2. RunInsert(op, BatchRows(op.rows))
  BY DEF InsertMany
<1> HIDE DEF op
<1>3. Inserting(op)
  BY <1>1 DEF Inserting
<1>4. Refused \/ Inserted(op)
  BY <1>1, <1>2, <1>3, BatchRowIs, RunInsertDoes DEF IInv
<1> QED  BY <1>4 DEF op

\* The columns an upsert sets in a row that is there.
SetBy(op) ==
    LET cols == UnionColumns(op.rows)
    IN  Members(Overwritten(cols, UpdateColumns(cols, op.update)))

\* They are columns, and never the key that is generated.  Where the dialect
\* can do nothing, or is not asked to, they are the ones the call names.
LEMMA SetByIs ==
    ASSUME NEW op, Inserting(op), op.op # "Insert", tags \in Taggings,
           op.update \in UpdateLists \cup {NoList}
    PROVE  /\ SetBy(op) \subseteq Columns \ {"id"}
           /\ SetBy(op) \subseteq GivenBy(op) \cup Timestamps
                                \cup (IF op.update = NoList THEN {}
                                      ELSE Members(op.update))
           /\ dialect # "mysql" \/ op.update # <<>> => SetBy(op) = ToUpdate(op)
<1> DEFINE cols == UnionColumns(op.rows)
           list == UpdateColumns(cols, op.update)
           auto == DefaultUpdates(cols)
<1>1. /\ cols \in Seq(Columns) /\ Len(cols) \in Nat \ {0}
      /\ Members(cols) = GivenBy(op) \cup Timestamps
  BY UnionColumnsIs
<1>2. GivenBy(op) \subseteq Columns \ {"id"}
  BY GivenIs
<1>3. Members(auto) = (GivenBy(op) \cup {"updated_at"}) \ {"key", "created_at"}
  <2> DEFINE S == Members(cols) \ {"key", "created_at"}
  <2>1. S = (GivenBy(op) \cup {"updated_at"}) \ {"key", "created_at"}
    BY <1>1 DEF Timestamps
  <2>2. S \subseteq Columns
    BY <1>2, <2>1 DEF Columns
  <2> HIDE DEF S
  <2>3. Members(InOrder(S)) = S
    BY <2>2, InOrderIs
  <2> QED  BY <2>1, <2>3 DEF DefaultUpdates, S
<1>4. auto # <<>>
  <2>1. "updated_at" \in Members(auto)
    BY <1>3
  <2>2. Members(<<>>) = {}
    BY DEF Members
  <2> QED  BY <2>1, <2>2
<1>5. Members(<<cols[1]>>) = {cols[1]} /\ cols[1] \in Members(cols)
  <2>1. 1 \in 1 .. Len(cols)
    BY <1>1
  <2>2. Len(<<cols[1]>>) = 1 /\ <<cols[1]>>[1] = cols[1]
    OBVIOUS
  <2> QED  BY <2>1, <2>2 DEF Members
<1>6. SetBy(op) = IF dialect = "mysql" /\ list = <<>> THEN {cols[1]} ELSE Members(list)
  BY <1>5 DEF SetBy, Overwritten
<1>7. list = IF op.update = NoList THEN auto ELSE op.update
  BY DEF UpdateColumns
<1>8. ToUpdate(op) = IF op.update # NoList THEN Members(op.update) ELSE Members(auto)
  BY <1>3 DEF ToUpdate, GivenBy
<1>9. ToUpdate(op) \subseteq Columns \ {"id"}
  <2>1. op.update # NoList => op.update \in Seq(Columns \ {"id"})
    BY ConstantsAssumption
  <2>2. op.update # NoList => Members(op.update) \subseteq Columns \ {"id"}
    BY <2>1 DEF Members
  <2>3. Members(auto) \subseteq Columns \ {"id"}
    BY <1>2, <1>3 DEF Columns
  <2> QED  BY <1>8, <2>2, <2>3
<1>10. {cols[1]} \subseteq Columns \ {"id"}
  BY <1>1, <1>2, <1>5 DEF Timestamps, Columns
<1>11. {cols[1]} \cup Members(auto) \subseteq GivenBy(op) \cup Timestamps
  BY <1>1, <1>3, <1>5 DEF Timestamps
<1> HIDE DEF cols, list, auto
<1> QED  BY <1>4, <1>6, <1>7, <1>8, <1>9, <1>10, <1>11

LEMMA UpsertDoes ==
    ASSUME IInv, NEW rows \in Batches, NEW update \in UpdateLists \cup {NoList},
           Upsert(rows, update)
    PROVE  LET op == [op |-> "Upsert", rows |-> rows, update |-> update]
           IN  last' = op /\ Merged(op, SetBy(op), table')
<1> DEFINE op  == [op |-> "Upsert", rows |-> rows, update |-> update]
           new == BatchRows(rows)
           cols == UnionColumns(rows)
           set == Members(Overwritten(cols, UpdateColumns(cols, update)))
           all == 1 .. Len(rows)
           added == {r \in 1 .. Len(new) : Clash(new[r]) = {}}
           Hits(id) == {r \in 1 .. Len(new) : id \in Clash(new[r])}
<1>1. /\ last' = op
      /\ table' =
            [id \in DOMAIN table \cup {new[r].id : r \in added} |->
                 IF id \notin DOMAIN table
                 THEN new[CHOOSE r \in added : new[r].id = id]
                 ELSE IF Hits(id) = {} THEN table[id]
                 ELSE LET r == CHOOSE r \in Hits(id) : TRUE
                      IN  [c \in Columns |-> IF c \in set THEN new[r][c]
                                             ELSE table[id][c]]]
  BY Zenon DEF Upsert, Call
<1>2. op.op # "Insert" /\ op.rows = rows
  OBVIOUS
<1>s. set = SetBy(op)
  BY DEF SetBy
<1> HIDE DEF op, set, added, Hits, new
<1>3. Inserting(op)
  BY <1>2 DEF Inserting
<1>4. Len(new) = Len(rows) /\ \A r \in all : new[r] = RowOf(op, r)
  BY <1>2, <1>3, BatchRowIs DEF IInv, new
<1>5. \A r \in all : Clash(new[r]) = Old(op, r)
  BY <1>2, <1>3, <1>4, ClashIs
<1>6. added = Free(op)
  BY <1>2, <1>4, <1>5 DEF added, Free
<1>7. \A id : Hits(id) = {r \in all : id \in Old(op, r)}
  BY <1>4, <1>5 DEF Hits
<1>8. \A r \in all : new[r].id = NewId(r) /\ NewId(r) \notin DOMAIN table
  BY <1>2, <1>3, <1>4, RowOfIs
<1>9. added \subseteq all
  BY <1>2, <1>6 DEF Free
<1>10. \A r, s \in all : NewId(r) = NewId(s) => r = s
  <2>1. all \subseteq Nat
    BY BatchIs
  <2> QED  BY <2>1, FreshIds DEF IInv, TableOK
<1> DEFINE ids == {NewId(r) : r \in added}
<1>11. {new[r].id : r \in added} = ids
  BY <1>8, <1>9
<1>12. DOMAIN table' = DOMAIN table \cup ids
  BY <1>1, <1>11
<1>13. ASSUME NEW r \in added PROVE table'[NewId(r)] = RowOf(op, r)
  <2>1. NewId(r) \in ids /\ NewId(r) \notin DOMAIN table /\ r \in all
    BY <1>8, <1>9
  <2>2. table'[NewId(r)] = new[CHOOSE s \in added : new[s].id = NewId(r)]
    <3> HIDE DEF ids
    <3> QED  BY <1>1, <1>11, <2>1
  <2>3. \A s \in added : new[s].id = NewId(r) <=> s = r
    BY <1>8, <1>9, <1>10, <2>1
  <2>4. (CHOOSE s \in added : new[s].id = NewId(r)) = r
    BY <2>3
  <2> QED  BY <1>4, <2>1, <2>2, <2>4
<1>14. ASSUME NEW id \in DOMAIN table
       PROVE  \/ table'[id] = table[id] /\ \A r \in all : id \notin Old(op, r)
              \/ \E r \in all :
                    /\ id \in Old(op, r)
                    /\ table'[id] = [c \in Columns |->
                                       IF c \in set THEN Value(op, r, c)
                                       ELSE table[id][c]]
  <2> DEFINE r == CHOOSE r \in Hits(id) : TRUE
  <2>1. table'[id] = IF Hits(id) = {} THEN table[id]
                     ELSE [c \in Columns |-> IF c \in set THEN new[r][c]
                                             ELSE table[id][c]]
    <3> HIDE DEF ids
    <3> QED  BY <1>1, <1>11, Zenon
  <2>2. CASE Hits(id) = {}
    BY <1>7, <2>1, <2>2
  <2>3. CASE Hits(id) # {}
    <3>1. r \in Hits(id)
      BY <2>3
    <3> HIDE DEF r
    <3>2. r \in all /\ id \in Old(op, r)
      BY <1>7, <3>1
    <3>3. "id" \notin set
      <4>1. op.update \in UpdateLists \cup {NoList}
        BY DEF op
      <4> QED  BY <1>2, <1>3, <1>s, <4>1, SetByIs DEF IInv
    <3>4. \A c \in Columns : c \in set => new[r][c] = Value(op, r, c)
      BY <1>4, <3>2, <3>3 DEF RowOf
    <3>5. table'[id] = [c \in Columns |-> IF c \in set THEN Value(op, r, c)
                                          ELSE table[id][c]]
      BY <2>1, <2>3, <3>4
    <3> QED  BY <3>2, <3>5
  <2> QED  BY <2>2, <2>3
<1> HIDE DEF ids
<1>15. Merged(op, set, table')
  BY <1>2, <1>6, <1>12, <1>13, <1>14 DEF Merged, ids
<1> QED  BY <1>1, <1>15, <1>s DEF op

-----------------------------------------------------------------------------
(***************************************************************************)
(* UPDATE and DELETE.                                                      *)
(***************************************************************************)
\* A table in which the columns of `set` are as it says, in the rows of `hit`.
Updated(hit, set, next) ==
    /\ DOMAIN next = DOMAIN table
    /\ \A id \in DOMAIN table :
          next[id] = IF id \in hit
                     THEN [c \in Columns |-> IF c \in DOMAIN set THEN set[c]
                                             ELSE table[id][c]]
                     ELSE table[id]

LEMMA StandsItself ==
    ASSUME NEW args \in Seq(Nat)
    PROVE  Stands(args, 0, args)
<1>1. Len(args) \in Nat
  OBVIOUS
<1>2. \A i \in 1 .. Len(args) : 0 + i = i
  BY <1>1
<1> QED  BY <1>2 DEF Stands

\* An UPDATE, as it is compiled, with its arguments.
Statement(sql, args, ctes, cols, vals, wheres) ==
    /\ ctes \in Lists /\ wheres \in Lists
    /\ cols \in Seq(Columns) /\ vals \in Seq(Nat) /\ Len(vals) = Len(cols)
    /\ args = WhereArgs[ctes] \o (vals \o WhereArgs[wheres])
    /\ sql = CompileUpdate(ctes, cols, wheres)

\* It binds the lists it was compiled from, and each column its value, whatever
\* stands before it in the text.
LEMMA StatementIs ==
    ASSUME NEW sql, NEW args, NEW ctes, NEW cols, NEW vals, NEW wheres,
           Statement(sql, args, ctes, cols, vals, wheres)
    PROVE  /\ sql.cols = cols /\ args \in Seq(Nat)
           /\ Hit(sql, args) =
                 Selected(wheres, IF ctes = <<>> THEN {} ELSE Selected(ctes, {}))
           /\ \A c \in Members(cols) :
                 Written(cols, sql.set, args, c) = vals[Place(cols, c)]
<1> DEFINE x   == WhereArgs[ctes]
           z   == WhereArgs[wheres]
           p   == Len(x)
           n   == Len(cols)
<1>0. /\ ctes \in Lists /\ wheres \in Lists
      /\ cols \in Seq(Columns) /\ vals \in Seq(Nat) /\ Len(vals) = n
      /\ args = x \o (vals \o z)
      /\ sql = CompileUpdate(ctes, cols, wheres)
  BY DEF Statement
<1>1. x \in Seq(Nat) /\ z \in Seq(Nat) /\ p \in Nat /\ n \in Nat
  BY <1>0, WhereArgsIs
<1>2. CompileWheres[ctes][0].n = p
  <2>1. CompileWheres[ctes][0].n = 0 + p
    BY <1>0, WalksAgree
  <2> QED  BY <1>1, <2>1
<1>3. sql = [ctes |-> CompileWheres[ctes][0].sql, cols |-> cols,
             set |-> [i \in 1 .. n |-> p + i], wheres |-> CompileWheres[wheres][p + n].sql]
  BY <1>0, <1>2 DEF CompileUpdate
<1> HIDE DEF x, z, p, n
<1>4. args \in Seq(Nat) /\ vals \o z \in Seq(Nat) /\ args = x \o (vals \o z)
  BY <1>0, <1>1
<1>5. Stands(args, 0, x) /\ Stands(args, p, vals) /\ Stands(args, p + n, z)
  <2>1. Stands(args, 0, args)
    BY <1>4, StandsItself, Zenon
  <2>2. Stands(args, 0, x) /\ Stands(args, 0 + Len(x), vals \o z)
    <3> DEFINE t == vals \o z
    <3>1. t \in Seq(Nat) /\ args = x \o t
      BY <1>4
    <3> HIDE DEF t
    <3>2. Stands(args, 0, x \o t) /\ 0 \in Nat
      BY <2>1, <3>1, Zenon
    <3>3. Stands(args, 0, x) /\ Stands(args, 0 + Len(x), t)
      BY <1>1, <1>4, <3>1, <3>2, StandsSplit, Zenon
    <3> QED  BY <3>3 DEF t
  <2>3. 0 + Len(x) = p /\ p \in Nat
    BY <1>1 DEF p
  <2>4. Stands(args, p, vals) /\ Stands(args, p + Len(vals), z)
    BY <1>0, <1>1, <1>4, <2>2, <2>3, StandsSplit
  <2> QED  BY <1>0, <2>2, <2>4
<1>6. Bind[CompileWheres[ctes][0].sql][args] = ctes
  BY <1>0, <1>4, <1>5, BindGivesBack DEF x
<1>7. Bind[CompileWheres[wheres][p + n].sql][args] = wheres
  <2>1. p + n \in Nat
    BY <1>1
  <2> QED  BY <1>0, <1>4, <1>5, <2>1, BindGivesBack DEF z
<1>8. CompileWheres[ctes][0].sql = <<>> <=> ctes = <<>>
  <2>1. Bind[<<>>][args] = <<>>
    BY <1>4, BindIs DEF BindEmpty
  <2>2. CompileWheres[<<>>][0].sql = <<>>
    BY CompileWheresIs DEF CompileEmpty
  <2>3. ASSUME CompileWheres[ctes][0].sql = <<>> PROVE ctes = <<>>
    BY <1>6, <2>1, <2>3, Zenon
  <2> QED  BY <2>2, <2>3, Zenon
<1>9. Hit(sql, args) =
         Selected(wheres, IF ctes = <<>> THEN {} ELSE Selected(ctes, {}))
  BY <1>3, <1>6, <1>7, <1>8 DEF Hit
<1>10. ASSUME NEW c \in Members(cols)
       PROVE  Written(cols, sql.set, args, c) = vals[Place(cols, c)]
  <2> DEFINE i == Place(cols, c)
  <2>1. i \in 1 .. n
    BY <1>0, PlaceIs DEF n
  <2>2. Written(cols, sql.set, args, c) = Argument(args, sql.set[i])
    BY DEF Written
  <2> HIDE DEF i
  <2>3. sql.set[i] = p + i
    BY <1>3, <2>1
  <2>4. p + i \in 1 .. Len(args) /\ args[p + i] = vals[i]
    BY <1>0, <1>5, <2>1 DEF Stands
  <2> QED  BY <2>2, <2>3, <2>4 DEF Argument, i
<1>11. sql.cols = cols
  BY <1>3
<1> QED  BY <1>4, <1>9, <1>10, <1>11

LEMMA AfterUpdateIs ==
    ASSUME NEW sql, NEW args, NEW ctes, NEW cols, NEW vals, NEW wheres,
           Statement(sql, args, ctes, cols, vals, wheres),
           NEW set, DOMAIN set = Members(cols),
           \A i \in 1 .. Len(cols) : vals[i] = set[cols[i]]
    PROVE  Updated(Hit(sql, args), set, AfterUpdate(sql, args))
<1>1. /\ sql.cols = cols
      /\ \A c \in Members(cols) :
            Written(cols, sql.set, args, c) = vals[Place(cols, c)]
  BY StatementIs
<1>2. \A c \in Members(cols) : Written(cols, sql.set, args, c) = set[c]
  <2>1. cols \in Seq(Columns)
    BY DEF Statement
  <2> QED  BY <1>1, <2>1, PlaceIs
<1>3. \A id \in DOMAIN table :
         AfterUpdate(sql, args)[id] =
            IF id \in Hit(sql, args)
            THEN [c \in Columns |-> IF c \in Members(cols)
                                    THEN Written(cols, sql.set, args, c)
                                    ELSE table[id][c]]
            ELSE table[id]
  BY <1>1 DEF AfterUpdate
<1>4. \A id \in DOMAIN table :
         [c \in Columns |-> IF c \in Members(cols) THEN Written(cols, sql.set, args, c)
                            ELSE table[id][c]]
          = [c \in Columns |-> IF c \in DOMAIN set THEN set[c] ELSE table[id][c]]
  BY <1>2
<1>5. DOMAIN AfterUpdate(sql, args) = DOMAIN table
  BY DEF AfterUpdate
<1> QED  BY <1>3, <1>4, <1>5 DEF Updated

\* What is selected by the list of a statement: the soft-delete filter and the
\* user's list.
LEMMA SelectedIs ==
    ASSUME TableOK(table), NEW wheres \in Seq(Nested[Nesting]), NEW cte \in SUBSET Nat
    PROVE  /\ Selected(EffectiveWheres(wheres, "none"), cte) = Selected(wheres, cte)
           /\ Selected(EffectiveWheres(wheres, "null"), cte)
                 = Selected(wheres, cte) \cap Live
           /\ Selected(EffectiveWheres(wheres, "notNull"), cte)
                 = Selected(wheres, cte) \ Live
<1>1. \A id \in DOMAIN table :
        /\ Selects(EffectiveWheres(wheres, "none"), table[id], cte)
                 <=> Selects(wheres, table[id], cte)
        /\ Selects(EffectiveWheres(wheres, "null"), table[id], cte)
                 <=> table[id].deleted_at = Null /\ Selects(wheres, table[id], cte)
        /\ Selects(EffectiveWheres(wheres, "notNull"), table[id], cte)
                 <=> table[id].deleted_at # Null /\ Selects(wheres, table[id], cte)
  BY EffectiveMeans DEF TableOK
<1> QED  BY <1>1 DEF Selected, Live

LEMMA QueryIs ==
    ASSUME NEW query \in Queries
    PROVE  query.wheres \in Seq(Nested[Nesting]) /\ query.ctes \in Seq(Nested[Nesting])
BY ConstantsAssumption

\* The list of the CTEs, and that of a statement, select what the query asks for.
LEMMA AskedIs ==
    ASSUME TableOK(table), NEW query \in Queries
    PROVE  LET ids(filter, ctes) ==
                  Selected(EffectiveWheres(query.wheres, filter),
                           IF ctes = <<>> THEN {} ELSE Selected(ctes, {}))
           IN  /\ ids("null", CteWheres(query)) = Asked(query) \cap Live
               /\ query.ctes = <<>> =>
                     /\ ids("none", <<>>) = Asked(query)
                     /\ ids("null", <<>>) = Asked(query) \cap Live
                     /\ ids("notNull", <<>>) = Asked(query) \ Live
<1> DEFINE cte  == IF query.ctes = <<>> THEN {} ELSE Live \cap Selected(query.ctes, {})
           ctes == CteWheres(query)
<1>1. query.wheres \in Seq(Nested[Nesting]) /\ query.ctes \in Seq(Nested[Nesting])
  BY QueryIs
<1>2. cte \in SUBSET Nat /\ {} \in SUBSET Nat
  BY DEF TableOK, Live
<1>3. ctes = <<>> <=> query.ctes = <<>>
  <2>1. EffectiveWheres(query.ctes, "null") # <<>>
    <3>1. EffectiveWheres(query.ctes, "null") =
             <<Clause("null", "deleted_at")>>
                \o (IF query.ctes = <<>> THEN <<>> ELSE <<Group(query.ctes)>>)
      BY DEF EffectiveWheres
    <3> DEFINE a == Clause("null", "deleted_at")
               b == Group(query.ctes)
    <3>2. /\ Len(<<a>> \o <<>>) = 1
          /\ Len(<<a>> \o <<b>>) = 2
      <4> HIDE DEF a, b
      <4> QED  OBVIOUS
    <3> HIDE DEF a, b
    <3>3. Len(<<>>) = 0
      OBVIOUS
    <3>4. <<a>> \o <<>> # <<>> /\ <<a>> \o <<b>> # <<>>
      BY <3>2, <3>3
    <3> QED  BY <3>1, <3>4 DEF a, b
  <2> QED  BY <2>1 DEF CteWheres
<1>4. ASSUME query.ctes # <<>> PROVE Selected(ctes, {}) = Live \cap Selected(query.ctes, {})
  <2>1. ctes = EffectiveWheres(query.ctes, "null")
    BY <1>4 DEF CteWheres
  <2>2. Selected(EffectiveWheres(query.ctes, "null"), {}) = Selected(query.ctes, {}) \cap Live
    BY <1>1, <1>2, SelectedIs
  <2> QED  BY <2>1, <2>2
<1>5. (IF ctes = <<>> THEN {} ELSE Selected(ctes, {})) = cte
  BY <1>3, <1>4
<1>6. Asked(query) = Selected(query.wheres, cte)
  BY DEF Asked
<1>7. /\ Selected(EffectiveWheres(query.wheres, "none"), cte) = Asked(query)
      /\ Selected(EffectiveWheres(query.wheres, "null"), cte) = Asked(query) \cap Live
      /\ Selected(EffectiveWheres(query.wheres, "notNull"), cte) = Asked(query) \ Live
  <2> HIDE DEF cte
  <2> QED  BY <1>1, <1>2, <1>6, SelectedIs
<1>8. query.ctes = <<>> => cte = {}
  OBVIOUS
<1> HIDE DEF cte, ctes
<1> QED  BY <1>5, <1>7, <1>8 DEF ctes

LEMMA CtesAreList ==
    ASSUME NEW query \in Queries
    PROVE  /\ CteWheres(query) \in Lists
           /\ CteArgs(query) = WhereArgs[CteWheres(query)]
<1>1. CteWheres(query) \in Lists
  BY QueryIs, EffectiveList, InLists DEF CteWheres
<1> QED  BY <1>1, WalksAgree DEF CteArgs

LEMMA AssignmentsIs ==
    ASSUME NEW data \in Changes, clock \in Nat
    PROVE  LET set == Assignments(data)
           IN  /\ set.cols \in Seq(Columns) /\ set.vals \in Seq(Nat)
               /\ Len(set.vals) = Len(set.cols)
               /\ DOMAIN Assigned(data) = Members(set.cols)
               /\ \A i \in 1 .. Len(set.cols) : set.vals[i] = Assigned(data)[set.cols[i]]
<1> DEFINE given == FillableOf(data)
           stamp == InOrder({"updated_at"} \ Members(given))
           cols  == given \o stamp
           args  == Given(data, given) \o [i \in 1 .. Len(stamp) |-> clock]
<1>1. Assignments(data).cols = cols /\ Assignments(data).vals = args
  BY DEF Assignments
<1>2. /\ cols \in Seq(Columns) /\ args \in Seq(Nat) /\ Len(args) = Len(cols)
      /\ Members(cols) = Fills(data) \cup {"updated_at"}
      /\ \A i \in 1 .. Len(cols) :
            args[i] = IF cols[i] \in Fills(data) THEN data[cols[i]] ELSE clock
  <2>1. {"updated_at"} \in SUBSET Columns
    BY DEF Columns
  <2> HIDE DEF given, stamp, cols, args
  <2> QED  BY <2>1, StampedIs DEF given, stamp, cols, args
<1> HIDE DEF cols, args
<1>3. \A i \in 1 .. Len(cols) : cols[i] \in Fills(data) \cup {"updated_at"}
  BY <1>2 DEF Members
<1>4. /\ DOMAIN Assigned(data) = Members(cols)
      /\ \A i \in 1 .. Len(cols) : args[i] = Assigned(data)[cols[i]]
  BY <1>2, <1>3 DEF Assigned
<1> QED  BY <1>1, <1>2, <1>4

LEMMA ConcatTwice ==
    ASSUME NEW x \in Seq(Nat), NEW y \in Seq(Nat), NEW z \in Seq(Nat)
    PROVE  x \o y \o z = x \o (y \o z)
OBVIOUS

LEMMA UpdateDoes ==
    ASSUME IInv, NEW query \in Queries, NEW data \in Changes, Update(query, data)
    PROVE  /\ last' = [op |-> "Update", query |-> query, data |-> data,
                       ids |-> Asked(query) \cap Live]
           /\ Updated(Asked(query) \cap Live, Assigned(data), table')
<1> DEFINE set    == Assignments(data)
           ctes   == CteWheres(query)
           wheres == EffectiveWheres(query.wheres, "null")
           args   == CteArgs(query) \o set.vals \o WhereArgs[wheres]
           sql    == CompileUpdate(ctes, set.cols, wheres)
<1>1. /\ table' = AfterUpdate(sql, args)
      /\ last' = [op |-> "Update", query |-> query, data |-> data, ids |-> Hit(sql, args)]
  BY Zenon DEF Update, Call
<1>2. clock \in Nat
  BY InvImplied
<1>3. /\ set.cols \in Seq(Columns) /\ set.vals \in Seq(Nat)
      /\ Len(set.vals) = Len(set.cols)
      /\ DOMAIN Assigned(data) = Members(set.cols)
      /\ \A i \in 1 .. Len(set.cols) : set.vals[i] = Assigned(data)[set.cols[i]]
  BY <1>2, AssignmentsIs
<1>4. ctes \in Lists /\ wheres \in Lists /\ CteArgs(query) = WhereArgs[ctes]
  BY CtesAreList, QueryIs, EffectiveList
<1> HIDE DEF set, ctes, wheres
<1>5. args = WhereArgs[ctes] \o (set.vals \o WhereArgs[wheres])
  <2>1. WhereArgs[ctes] \in Seq(Nat) /\ WhereArgs[wheres] \in Seq(Nat)
    BY <1>4, WhereArgsIs
  <2>2. WhereArgs[ctes] \o set.vals \o WhereArgs[wheres]
           = WhereArgs[ctes] \o (set.vals \o WhereArgs[wheres])
    BY <1>3, <2>1, ConcatTwice, Zenon
  <2> QED  BY <1>4, <2>2, Zenon
<1> HIDE DEF args, sql
<1>6. Statement(sql, args, ctes, set.cols, set.vals, wheres)
  BY <1>3, <1>4, <1>5 DEF Statement, sql
<1>7. Hit(sql, args) = Asked(query) \cap Live
  <2>1. Hit(sql, args) = Selected(wheres, IF ctes = <<>> THEN {} ELSE Selected(ctes, {}))
    BY <1>6, StatementIs
  <2>2. TableOK(table)
    BY DEF IInv
  <2> QED  BY <2>1, <2>2, AskedIs DEF ctes, wheres
<1>8. Updated(Hit(sql, args), Assigned(data), AfterUpdate(sql, args))
  BY <1>3, <1>6, AfterUpdateIs
<1> QED  BY <1>1, <1>7, <1>8

LEMMA SetDeletedDoes ==
    ASSUME IInv, NEW query \in Queries, NEW op, NEW value \in Nat,
           NEW filter \in {"null", "notNull"}, SetDeleted(op, query, value, filter),
           NEW hit, hit = IF filter = "null" THEN Asked(query) \cap Live
                          ELSE Asked(query) \ Live
    PROVE  /\ last' = [op |-> op, query |-> query, ids |-> hit]
           /\ Updated(hit, [deleted_at |-> value], table')
<1> DEFINE wheres == EffectiveWheres(query.wheres, filter)
           args   == <<value>> \o WhereArgs[wheres]
           cols   == <<"deleted_at">>
           vals   == <<value>>
           sql    == CompileUpdate(<<>>, cols, wheres)
           set    == [deleted_at |-> value]
<1>1. /\ table' = AfterUpdate(sql, args)
      /\ last' = [op |-> op, query |-> query, ids |-> Hit(sql, args)]
      /\ query.ctes = <<>>
  BY Zenon DEF SetDeleted, Call
<1>2. <<>> \in Lists /\ wheres \in Lists
  BY QueryIs, EffectiveList, InLists
<1>3. cols \in Seq(Columns) /\ vals \in Seq(Nat) /\ Len(vals) = Len(cols) /\ Len(cols) = 1
  BY DEF Columns
<1>4. DOMAIN set = Members(cols) /\ \A i \in 1 .. Len(cols) : vals[i] = set[cols[i]]
  BY <1>3 DEF Members
<1> HIDE DEF wheres, set
<1>5. args = WhereArgs[<<>>] \o (vals \o WhereArgs[wheres])
  <2>1. WhereArgs[<<>>] = <<>> /\ WhereArgs[wheres] \in Seq(Nat)
    BY <1>2, WhereArgsIs
  <2>2. vals \o WhereArgs[wheres] \in Seq(Nat)
    BY <1>3, <2>1
  <2>3. \A s \in Seq(Nat) : <<>> \o s = s
    OBVIOUS
  <2> QED  BY <2>1, <2>2, <2>3
<1> HIDE DEF args, sql, cols, vals
<1>6. Statement(sql, args, <<>>, cols, vals, wheres)
  BY <1>2, <1>3, <1>5 DEF Statement, sql
<1>7. Hit(sql, args) = hit
  <2>1. Hit(sql, args) = Selected(wheres, IF <<>> = <<>> THEN {} ELSE Selected(<<>>, {}))
    BY <1>6, StatementIs
  <2>2. TableOK(table)
    BY DEF IInv
  <2> QED  BY <1>1, <2>1, <2>2, AskedIs DEF wheres
<1>8. Updated(Hit(sql, args), set, AfterUpdate(sql, args))
  BY <1>4, <1>6, AfterUpdateIs
<1> QED  BY <1>1, <1>7, <1>8 DEF set

LEMMA ForceDeleteDoes ==
    ASSUME IInv, NEW query \in Queries, ForceDelete(query)
    PROVE  /\ last' = [op |-> "ForceDelete", query |-> query, ids |-> Asked(query)]
           /\ table' = [id \in DOMAIN table \ Asked(query) |-> table[id]]
<1> DEFINE wheres == EffectiveWheres(query.wheres, "none")
           args   == WhereArgs[query.wheres]
           sql    == CompileWheres[wheres][0].sql
           hit    == Selected(Bind[sql][args], {})
<1>1. /\ table' = [id \in DOMAIN table \ hit |-> table[id]]
      /\ last' = [op |-> "ForceDelete", query |-> query, ids |-> hit]
      /\ query.ctes = <<>>
  BY Zenon DEF ForceDelete, Call
<1>2. wheres = query.wheres /\ wheres \in Lists
  BY QueryIs, EffectiveList DEF EffectiveWheres
<1>3. args \in Seq(Nat) /\ args = WhereArgs[wheres]
  BY <1>2, WhereArgsIs
<1> HIDE DEF args, wheres
<1>4. Bind[sql][args] = wheres
  BY <1>2, <1>3, StandsItself, BindGivesBack
<1>5. hit = Asked(query)
  BY <1>1, <1>2, <1>4 DEF Asked
<1> HIDE DEF hit
<1> QED  BY <1>1, <1>5

\* It leaves every row its key.
LEMMA UpdatedOK ==
    ASSUME IInv, NEW hit, NEW set, DOMAIN set \subseteq Columns \ {"id", "key"},
           \A c \in DOMAIN set : set[c] \in Nat,
           NEW next, Updated(hit, set, next)
    PROVE  TableOK(next)
<1>1. TableOK(table)
  BY DEF IInv
<1>2. ASSUME NEW id \in DOMAIN table
      PROVE  /\ next[id] \in [Columns -> Nat]
             /\ next[id].id = id /\ next[id].key = table[id].key
  <2>1. table[id] \in [Columns -> Nat] /\ table[id].id = id
    BY <1>1 DEF TableOK
  <2>2. "id" \in Columns /\ "key" \in Columns
    BY DEF Columns
  <2>3. CASE id \notin hit
    BY <2>1, <2>3 DEF Updated
  <2>4. CASE id \in hit
    <3>1. next[id] = [c \in Columns |-> IF c \in DOMAIN set THEN set[c]
                                        ELSE table[id][c]]
      BY <2>4 DEF Updated
    <3>2. "id" \notin DOMAIN set /\ "key" \notin DOMAIN set
      OBVIOUS
    <3> QED  BY <2>1, <2>2, <3>1, <3>2
  <2> QED  BY <2>3, <2>4
<1>3. DOMAIN next = DOMAIN table
  BY DEF Updated
<1> QED  BY <1>1, <1>2, <1>3 DEF TableOK

LEMMA AssignedIs ==
    ASSUME NEW data \in Changes, clock \in Nat
    PROVE  /\ DOMAIN Assigned(data) = Fills(data) \cup {"updated_at"}
           /\ DOMAIN Assigned(data) \subseteq Columns \ {"id", "key"}
           /\ \A c \in DOMAIN Assigned(data) : Assigned(data)[c] \in Nat
<1>1. Fills(data) \subseteq DOMAIN data
  BY DEF Fills
<1>2. DOMAIN data \subseteq Columns \ {"id", "key"} /\ \A c \in DOMAIN data : data[c] \in Nat
  BY MapIs, KeysAssumption
<1>3. DOMAIN Assigned(data) = Fills(data) \cup {"updated_at"}
  BY DEF Assigned
<1>4. \A c \in DOMAIN Assigned(data) :
         Assigned(data)[c] = IF c \in Fills(data) THEN data[c] ELSE clock
  BY DEF Assigned
<1> QED  BY <1>1, <1>2, <1>3, <1>4 DEF Columns

-----------------------------------------------------------------------------
(***************************************************************************)
(* What a step does.                                                       *)
(***************************************************************************)
DoneUpdate(query, data) ==
    /\ last' = [op |-> "Update", query |-> query, data |-> data,
                ids |-> Asked(query) \cap Live]
    /\ Updated(Asked(query) \cap Live, Assigned(data), table')

DoneDelete(query) ==
    /\ last' = [op |-> "Delete", query |-> query, ids |-> Asked(query) \cap Live]
    /\ Updated(Asked(query) \cap Live, [deleted_at |-> clock], table')

DoneRestore(query) ==
    /\ last' = [op |-> "Restore", query |-> query, ids |-> Asked(query) \ Live]
    /\ Updated(Asked(query) \ Live, [deleted_at |-> Null], table')

DoneForceDelete(query) ==
    /\ last' = [op |-> "ForceDelete", query |-> query, ids |-> Asked(query)]
    /\ table' = [id \in DOMAIN table \ Asked(query) |-> table[id]]

DoneInsert(op) == op.op \in {"Insert", "InsertMany"} /\ Inserted(op)

DoneUpsert(op) ==
    /\ last' = op /\ op.op = "Upsert" /\ Inserting(op)
    /\ op.update \in UpdateLists \cup {NoList}
    /\ op.update = <<>> => dialect \in NothingOn
    /\ Merged(op, SetBy(op), table')

Done ==
    \/ Refused
    \/ \E query \in Queries :
          \/ \E data \in Changes : DoneUpdate(query, data)
          \/ DoneDelete(query) \/ DoneRestore(query) \/ DoneForceDelete(query)
    \/ \E op : DoneInsert(op) \/ DoneUpsert(op)

Ticks ==
    /\ clock < Start + MaxWrites /\ clock' = clock + 1
    /\ dialect' = dialect /\ tags' = tags

LEMMA NextDoes ==
    ASSUME IInv, Next
    PROVE  Done /\ Ticks
<1>1. ASSUME NEW query \in Queries, NEW data \in Changes, Update(query, data)
      PROVE  Done /\ Ticks
  <2>1. DoneUpdate(query, data)
    BY <1>1, UpdateDoes DEF DoneUpdate
  <2>2. Ticks
    BY <1>1, Zenon DEF Update, InBounds, Call, Ticks
  <2> QED  BY <2>1, <2>2 DEF Done
<1>2. ASSUME NEW query \in Queries, NEW data \in Changes, UpdateReturning(query, data)
      PROVE  Done /\ Ticks
  <2>1. CASE dialect = "mysql"
    <3>1. InBounds /\ Call([op |-> "Refused"]) /\ table' = table
      BY <1>2, <2>1 DEF UpdateReturning
    <3>2. Refused /\ Ticks
      BY <3>1 DEF Refused, Ticks, InBounds, Call
    <3> QED  BY <3>2 DEF Done
  <2>2. CASE dialect # "mysql"
    <3>1. Update(query, data)
      BY <1>2, <2>2, Zenon DEF UpdateReturning
    <3> QED  BY <1>1, <3>1
  <2> QED  BY <2>1, <2>2
<1>3. ASSUME NEW query \in Queries, Delete(query) PROVE Done /\ Ticks
  <2>1. SetDeleted("Delete", query, clock, "null") /\ clock \in Nat
    BY <1>3, InvImplied DEF Delete
  <2>2. DoneDelete(query)
    BY <2>1, SetDeletedDoes DEF DoneDelete
  <2>3. Ticks
    BY <2>1, Zenon DEF SetDeleted, InBounds, Call, Ticks
  <2> QED  BY <2>2, <2>3 DEF Done
<1>4. ASSUME NEW query \in Queries, Restore(query) PROVE Done /\ Ticks
  <2>1. SetDeleted("Restore", query, Null, "notNull") /\ Null \in Nat
    BY <1>4 DEF Restore, Null
  <2>2. DoneRestore(query)
    BY <2>1, SetDeletedDoes DEF DoneRestore
  <2>3. Ticks
    BY <2>1, Zenon DEF SetDeleted, InBounds, Call, Ticks
  <2> QED  BY <2>2, <2>3 DEF Done
<1>5. ASSUME NEW query \in Queries, ForceDelete(query) PROVE Done /\ Ticks
  <2>1. DoneForceDelete(query)
    BY <1>5, ForceDeleteDoes DEF DoneForceDelete
  <2>2. Ticks
    BY <1>5, Zenon DEF ForceDelete, InBounds, Call, Ticks
  <2> QED  BY <2>1, <2>2 DEF Done
<1>6. ASSUME NEW op, NEW rows, RunInsert(op, rows) PROVE Ticks
  BY <1>6 DEF RunInsert, InBounds, Call, Ticks
<1>7. ASSUME NEW data \in Maps, Insert(data) PROVE Done /\ Ticks
  <2> DEFINE op == [op |-> "Insert", rows |-> <<data>>]
  <2>1. Refused \/ Inserted(op)
    BY <1>7, InsertDoes
  <2>2. Ticks
    BY <1>6, <1>7 DEF Insert
  <2>3. op.op \in {"Insert", "InsertMany"}
    OBVIOUS
  <2> HIDE DEF op
  <2> QED  BY <2>1, <2>2, <2>3 DEF Done, DoneInsert
<1>8. ASSUME NEW rows \in Batches, InsertMany(rows) PROVE Done /\ Ticks
  <2> DEFINE op == [op |-> "InsertMany", rows |-> rows]
  <2>1. Refused \/ Inserted(op)
    BY <1>8, InsertManyDoes
  <2>2. Ticks
    BY <1>6, <1>8 DEF InsertMany
  <2>3. op.op \in {"Insert", "InsertMany"}
    OBVIOUS
  <2> HIDE DEF op
  <2> QED  BY <2>1, <2>2, <2>3 DEF Done, DoneInsert
<1>9. ASSUME NEW rows \in Batches, NEW update \in UpdateLists \cup {NoList},
             Upsert(rows, update)
      PROVE  Done /\ Ticks
  <2> DEFINE op == [op |-> "Upsert", rows |-> rows, update |-> update]
  <2>1. last' = op /\ Merged(op, SetBy(op), table')
    BY <1>9, UpsertDoes
  <2>2. Ticks /\ (update = <<>> => dialect \in NothingOn)
    BY <1>9, Zenon DEF Upsert, InBounds, Call, Ticks
  <2>3. op.op = "Upsert" /\ op.rows = rows /\ op.update = update
    OBVIOUS
  <2> HIDE DEF op
  <2>4. Inserting(op)
    BY <2>3 DEF Inserting
  <2>5. DoneUpsert(op)
    BY <2>1, <2>2, <2>3, <2>4 DEF DoneUpsert
  <2> QED  BY <2>2, <2>5 DEF Done
<1> QED  BY <1>1, <1>2, <1>3, <1>4, <1>5, <1>7, <1>8, <1>9, Zenon DEF Next

-----------------------------------------------------------------------------
(***************************************************************************)
(* The theorems.                                                           *)
(***************************************************************************)
LEMMA InitInv ==
    Init => IInv
<1>1. MaxWrites \in Nat /\ Start \in Start .. Start + MaxWrites
  BY ConstantsAssumption DEF Start
<1> QED  BY <1>1, TableAssumption DEF Init, IInv, TableOK

LEMMA DoneOK ==
    ASSUME IInv, Done
    PROVE  TableOK(table')
<1>1. TableOK(table) /\ clock \in Nat /\ Null \in Nat
  BY InvImplied DEF IInv, Null
<1>2. CASE Refused
  BY <1>1, <1>2 DEF Refused
<1>3. ASSUME NEW query \in Queries, NEW data \in Changes, DoneUpdate(query, data)
      PROVE  TableOK(table')
  <2>1. Updated(Asked(query) \cap Live, Assigned(data), table')
    BY <1>3 DEF DoneUpdate
  <2> QED  BY <1>1, <2>1, AssignedIs, UpdatedOK
<1>4. ASSUME NEW hit, NEW value \in Nat, Updated(hit, [deleted_at |-> value], table')
      PROVE  TableOK(table')
  <2> DEFINE set == [deleted_at |-> value]
  <2>1. DOMAIN set \subseteq Columns \ {"id", "key"} /\ \A c \in DOMAIN set : set[c] \in Nat
    BY DEF Columns
  <2> HIDE DEF set
  <2>2. Updated(hit, set, table')
    BY <1>4 DEF set
  <2> QED  BY <2>1, <2>2, UpdatedOK
<1>5. ASSUME NEW query \in Queries,
             DoneDelete(query) \/ DoneRestore(query)
      PROVE  TableOK(table')
  BY <1>1, <1>4, <1>5, Zenon DEF DoneDelete, DoneRestore
<1>6. ASSUME NEW query \in Queries, DoneForceDelete(query)
      PROVE  TableOK(table')
  <2> DEFINE left == DOMAIN table \ Asked(query)
  <2>1. table' = [id \in left |-> table[id]]
    BY <1>6 DEF DoneForceDelete
  <2>2. left \subseteq DOMAIN table
    OBVIOUS
  <2> HIDE DEF left
  <2>3. DOMAIN table' = left /\ \A id \in left : table'[id] = table[id]
    BY <2>1
  <2>4. IsFiniteSet(left)
    BY <1>1, <2>2, FS_Subset DEF TableOK
  <2> QED  BY <1>1, <2>2, <2>3, <2>4 DEF TableOK
<1>7. ASSUME NEW op, DoneInsert(op) PROVE TableOK(table')
  <2>1. Inserting(op) /\ Merged(op, {}, table') /\ {} \in SUBSET (Columns \ {"id"})
    BY <1>7 DEF DoneInsert, Inserted
  <2> QED  BY <2>1, MergedOK
<1>8. ASSUME NEW op, DoneUpsert(op) PROVE TableOK(table')
  <2>1. /\ Inserting(op) /\ op.op # "Insert"
        /\ op.update \in UpdateLists \cup {NoList}
        /\ Merged(op, SetBy(op), table')
    BY <1>8 DEF DoneUpsert
  <2>2. tags \in Taggings
    BY DEF IInv
  <2>3. SetBy(op) \in SUBSET (Columns \ {"id"})
    BY <2>1, <2>2, SetByIs
  <2> QED  BY <2>1, <2>3, MergedOK
<1> QED  BY <1>2, <1>3, <1>5, <1>6, <1>7, <1>8, Zenon DEF Done

LEMMA NextInv ==
    IInv /\ [Next]_vars => IInv'
<1> SUFFICES ASSUME IInv, [Next]_vars PROVE IInv'
  OBVIOUS
<1>1. CASE Next
  <2>1. Done /\ Ticks
    BY <1>1, NextDoes
  <2>2. TableOK(table')
    BY <2>1, DoneOK
  <2>3. MaxWrites \in Nat /\ Start \in Nat
    BY ConstantsAssumption DEF Start
  <2> QED  BY <2>1, <2>2, <2>3 DEF IInv, Ticks, TableOK
<1>2. CASE UNCHANGED vars
  BY <1>2 DEF vars, IInv, TableOK
<1> QED  BY <1>1, <1>2

\* Whatever writes follow one another (write_map.go), every row has the id it is
\* stored under, a key no other row has, and a number or NULL in every column.
THEOREM TypeCorrect == Spec => []TypeOK
<1>1. IInv => TypeOK
  BY InvImplied
<1> QED  BY <1>1, InitInv, NextInv, PTL DEF Spec

\* What is written in the rows that are there, and in those that are not.
LEMMA MergedRows ==
    ASSUME NEW op, NEW set, NEW next, Merged(op, set, next),
           NEW id \in DOMAIN table, NEW c \in Columns \ set
    PROVE  next[id][c] = table[id][c]
<1>1. \/ next[id] = table[id]
      \/ \E r \in 1 .. Len(op.rows) :
            next[id] = [k \in Columns |-> IF k \in set THEN Value(op, r, k)
                                          ELSE table[id][k]]
  BY DEF Merged
<1> QED  BY <1>1

LEMMA MergedNew ==
    ASSUME NEW op, NEW set, NEW next, Merged(op, set, next),
           NEW id \in DOMAIN next, id \notin DOMAIN table
    PROVE  \E r \in 1 .. Len(op.rows) : id = NewId(r) /\ next[id] = RowOf(op, r)
<1>1. PICK r \in Free(op) : id = NewId(r)
  BY DEF Merged
<1>2. r \in 1 .. Len(op.rows)
  BY DEF Free
<1>3. next[id] = RowOf(op, r)
  BY <1>1 DEF Merged
<1> QED  BY <1>1, <1>2, <1>3

LEMMA UpdatedRows ==
    ASSUME NEW hit, NEW set, NEW next, Updated(hit, set, next),
           NEW id \in DOMAIN table, NEW c \in Columns, c \notin DOMAIN set
    PROVE  id \in DOMAIN next /\ next[id][c] = table[id][c]
<1>1. next[id] = IF id \in hit
                 THEN [k \in Columns |-> IF k \in DOMAIN set THEN set[k]
                                         ELSE table[id][k]]
                 ELSE table[id]
  BY DEF Updated
<1> QED  BY <1>1 DEF Updated

\* Column c of the rows that are there is as it was: the call does not write it.
LEMMA ColumnKept ==
    ASSUME IInv, Done, NEW c \in Columns \ {"deleted_at", "updated_at"},
           \A data \in Changes : c \notin Fills(data),
           \A op : DoneUpsert(op) => c \notin SetBy(op)
    PROVE  \A id \in DOMAIN table \cap DOMAIN table' : table'[id][c] = table[id][c]
<1> SUFFICES ASSUME NEW id \in DOMAIN table, id \in DOMAIN table'
             PROVE  table'[id][c] = table[id][c]
  OBVIOUS
<1>1. clock \in Nat
  BY InvImplied
<1>2. CASE Refused
  BY <1>2 DEF Refused
<1>3. ASSUME NEW query \in Queries, NEW data \in Changes, DoneUpdate(query, data)
      PROVE  table'[id][c] = table[id][c]
  <2>1. Updated(Asked(query) \cap Live, Assigned(data), table')
    BY <1>3 DEF DoneUpdate
  <2>2. c \notin DOMAIN Assigned(data)
    BY <1>1, AssignedIs
  <2> QED  BY <2>1, <2>2, UpdatedRows
<1>4. ASSUME NEW hit, NEW value, Updated(hit, [deleted_at |-> value], table')
      PROVE  table'[id][c] = table[id][c]
  <2> DEFINE set == [deleted_at |-> value]
  <2>1. c \notin DOMAIN set
    OBVIOUS
  <2> HIDE DEF set
  <2>2. Updated(hit, set, table')
    BY <1>4 DEF set
  <2> QED  BY <2>1, <2>2, UpdatedRows
<1>5. ASSUME NEW query \in Queries, DoneDelete(query) \/ DoneRestore(query)
      PROVE  table'[id][c] = table[id][c]
  BY <1>4, <1>5, Zenon DEF DoneDelete, DoneRestore
<1>6. ASSUME NEW query \in Queries, DoneForceDelete(query)
      PROVE  table'[id][c] = table[id][c]
  <2> DEFINE left == DOMAIN table \ Asked(query)
  <2>1. table' = [i \in left |-> table[i]]
    BY <1>6 DEF DoneForceDelete
  <2> HIDE DEF left
  <2> QED  BY <2>1
<1>7. ASSUME NEW op, DoneInsert(op) PROVE table'[id][c] = table[id][c]
  <2> DEFINE none == {}
  <2>1. Merged(op, none, table') /\ c \in Columns \ none
    BY <1>7 DEF DoneInsert, Inserted
  <2> HIDE DEF none
  <2> QED  BY <2>1, MergedRows
<1>8. ASSUME NEW op, DoneUpsert(op) PROVE table'[id][c] = table[id][c]
  <2>1. Merged(op, SetBy(op), table') /\ c \in Columns \ SetBy(op)
    BY <1>8 DEF DoneUpsert
  <2> QED  BY <2>1, MergedRows
<1> QED  BY <1>2, <1>3, <1>5, <1>6, <1>7, <1>8, Zenon DEF Done

\* A row keeps its created_at, however often it is upserted, on a dialect that can
\* do nothing or is not asked to: unless the caller itself names the column, to
\* Update or in a list of update columns.
THEOREM CreatedAtOnce ==
    ASSUME "mysql" \notin NothingOn,
           \A data \in Changes : "created_at" \notin DOMAIN data,
           \A update \in UpdateLists : "created_at" \notin Members(update)
    PROVE  Spec => CreatedOnce
<1> DEFINE Kept1 == \A id \in DOMAIN table \cap DOMAIN table' :
                       table'[id].created_at = table[id].created_at
<1>1. ASSUME IInv, [Next]_vars PROVE [Kept1]_vars
  <2> SUFFICES ASSUME Next PROVE Kept1
    BY <1>1
  <2>1. Done
    BY <1>1, NextDoes
  <2>2. "created_at" \in Columns \ {"deleted_at", "updated_at"}
    BY DEF Columns
  <2>3. \A data \in Changes : "created_at" \notin Fills(data)
    BY DEF Fills
  <2>4. ASSUME NEW op, DoneUpsert(op) PROVE "created_at" \notin SetBy(op)
    <3>1. /\ Inserting(op) /\ op.op # "Insert"
          /\ op.update \in UpdateLists \cup {NoList}
          /\ op.update = <<>> => dialect \in NothingOn
      BY <2>4 DEF DoneUpsert
    <3>2. SetBy(op) = ToUpdate(op)
      BY <1>1, <3>1, SetByIs DEF IInv
    <3> QED  BY <3>1, <3>2 DEF ToUpdate
  <2> QED  BY <1>1, <2>1, <2>2, <2>3, <2>4, ColumnKept
<1> QED  BY <1>1, InitInv, NextInv, PTL DEF Spec, CreatedOnce

\* No map writes a column that may not be filled, in a row that is there or in a
\* new one; the lists of update columns the caller names are its own affair.
THEOREM GuardedAreKept ==
    ASSUME \A update \in UpdateLists, t \in Taggings : \A c \in Members(update) :
              c \in Timestamps \cup {"deleted_at"} \/ Fillable(t, c)
    PROVE  Spec => GuardedKept
<1> DEFINE Kept1 == \A id \in DOMAIN table' :
       \A c \in Columns \ ({"id", "deleted_at"} \cup Timestamps) :
          ~CanFill(c) => table'[id][c] = IF id \in DOMAIN table
                                         THEN table[id][c] ELSE Default(c)
<1>1. ASSUME IInv, [Next]_vars PROVE [Kept1]_vars
  <2> SUFFICES ASSUME Next, NEW id \in DOMAIN table',
                      NEW c \in Columns \ ({"id", "deleted_at"} \cup Timestamps),
                      ~CanFill(c)
               PROVE  table'[id][c] = IF id \in DOMAIN table
                                      THEN table[id][c] ELSE Default(c)
    BY <1>1
  <2>1. Done
    BY <1>1, NextDoes
  <2>2. tags \in Taggings /\ clock \in Nat
    BY <1>1, InvImplied DEF IInv
  <2>3. CASE id \in DOMAIN table
    <3>1. \A data \in Changes : c \notin Fills(data)
      BY DEF Fills
    <3>2. ASSUME NEW op, DoneUpsert(op) PROVE c \notin SetBy(op)
      <4>1. /\ Inserting(op) /\ op.op # "Insert"
            /\ op.update \in UpdateLists \cup {NoList}
        BY <3>2 DEF DoneUpsert
      <4>2. SetBy(op) \subseteq GivenBy(op) \cup Timestamps
                \cup (IF op.update = NoList THEN {} ELSE Members(op.update))
        BY <2>2, <4>1, SetByIs
      <4>3. c \notin GivenBy(op)
        BY <2>2, <4>1, GivenIs
      <4>4. op.update # NoList => c \notin Members(op.update)
        BY <2>2, <4>1 DEF CanFill
      <4> QED  BY <4>2, <4>3, <4>4
    <3>3. c \in Columns \ {"deleted_at", "updated_at"}
      BY DEF Timestamps
    <3>4. table'[id][c] = table[id][c]
      BY <1>1, <2>1, <2>3, <3>1, <3>2, <3>3, ColumnKept
    <3> QED  BY <2>3, <3>4
  <2>4. CASE id \notin DOMAIN table
    <3>1. PICK op : DoneInsert(op) \/ DoneUpsert(op)
      BY <2>1, <2>4, Zenon DEF Done, Refused, DoneUpdate, DoneDelete, DoneRestore,
         DoneForceDelete, Updated
    <3>2. PICK set : Inserting(op) /\ Merged(op, set, table')
      BY <3>1, Zenon DEF DoneInsert, DoneUpsert, Inserted
    <3>3. PICK r \in 1 .. Len(op.rows) : table'[id] = RowOf(op, r)
      <4>1. \E r \in 1 .. Len(op.rows) : id = NewId(r) /\ table'[id] = RowOf(op, r)
        BY <2>4, <3>2, MergedNew
      <4> QED  BY <4>1, Zenon
    <3>4. Value(op, r, c) = Default(c)
      BY <2>2, <3>2, ValueIs
    <3> QED  BY <2>4, <3>3, <3>4 DEF RowOf
  <2> QED  BY <2>3, <2>4
<1> QED  BY <1>1, InitInv, NextInv, PTL DEF Spec, GuardedKept

\* An upsert that is to do nothing changes no row that is there, on a dialect that
\* can do nothing.
THEOREM NothingIsDone ==
    ASSUME "mysql" \notin NothingOn
    PROVE  Spec => NothingMeansNothing
<1> DEFINE Nothing == last'.op = "Upsert" /\ last'.update = <<>> => Kept(DOMAIN table)
<1>1. ASSUME IInv, [Next]_vars PROVE [Nothing]_vars
  <2> SUFFICES ASSUME Next, last'.op = "Upsert", last'.update = <<>>
               PROVE  Kept(DOMAIN table)
    BY <1>1
  <2>1. Done
    BY <1>1, NextDoes
  <2>2. PICK op : DoneUpsert(op)
    <3>1. ASSUME NEW query \in Queries, DoneForceDelete(query) PROVE FALSE
      BY <3>1 DEF DoneForceDelete
    <3>2. ASSUME NEW query \in Queries, DoneDelete(query) \/ DoneRestore(query)
          PROVE  FALSE
      BY <3>2 DEF DoneDelete, DoneRestore
    <3>3. ASSUME NEW query \in Queries, NEW data \in Changes, DoneUpdate(query, data)
          PROVE  FALSE
      BY <3>3 DEF DoneUpdate
    <3>4. ASSUME NEW op, DoneInsert(op) PROVE FALSE
      BY <3>4 DEF DoneInsert, Inserted
    <3>5. ~Refused
      BY DEF Refused
    <3> QED  BY <2>1, <3>1, <3>2, <3>3, <3>4, <3>5, Zenon DEF Done
  <2>3. /\ Inserting(op) /\ op.op # "Insert"
        /\ op.update \in UpdateLists \cup {NoList} /\ op.update = <<>>
        /\ dialect # "mysql"
        /\ Merged(op, SetBy(op), table')
    BY <2>2 DEF DoneUpsert
  <2>4. op.update # NoList
    BY <2>3, ConstantsAssumption
  <2>5. SetBy(op) = {}
    <3>1. SetBy(op) = ToUpdate(op)
      BY <1>1, <2>3, SetByIs DEF IInv
    <3>2. Members(<<>>) = {}
      BY DEF Members
    <3> QED  BY <2>3, <2>4, <3>1, <3>2 DEF ToUpdate
  <2>6. ASSUME NEW id \in DOMAIN table
        PROVE  id \in DOMAIN table' /\ table'[id] = table[id]
    <3>1. table[id] \in [Columns -> Nat]
      BY <1>1 DEF IInv, TableOK
    <3>2. table[id] = [c \in Columns |-> table[id][c]]
      BY <3>1
    <3>3. \/ table'[id] = table[id]
          \/ \E r \in 1 .. Len(op.rows) :
                table'[id] = [c \in Columns |-> IF c \in {} THEN Value(op, r, c)
                                                ELSE table[id][c]]
      BY <2>3, <2>5 DEF Merged
    <3>4. id \in DOMAIN table'
      BY <2>3 DEF Merged
    <3> QED  BY <3>2, <3>3, <3>4
  <2> QED  BY <2>6 DEF Kept
<1> QED  BY <1>1, InitInv, NextInv, PTL DEF Spec, NothingMeansNothing

-----------------------------------------------------------------------------
(***************************************************************************)
(* A write does what it was asked.                                         *)
(***************************************************************************)
LEMMA UpdatedDoes ==
    ASSUME NEW hit, NEW set, Updated(hit, set, table'), hit \subseteq DOMAIN table
    PROVE  /\ DOMAIN table' = DOMAIN table
           /\ Kept(DOMAIN table \ hit)
           /\ \A id \in hit : Changed(id, set)
BY DEF Updated, Kept, Changed

LEMMA QueriesAsAsked ==
    /\ \A query \in Queries : Asked(query) \subseteq DOMAIN table
    /\ \A query \in Queries, data \in Changes : DoneUpdate(query, data) => UpdatedAs(last')
    /\ \A query \in Queries :
          DoneDelete(query) \/ DoneRestore(query) \/ DoneForceDelete(query)
             => UpdatedAs(last')
<1>1. ASSUME NEW query \in Queries PROVE Asked(query) \subseteq DOMAIN table
  BY DEF Asked, Selected
<1>2. ASSUME NEW query \in Queries, NEW data \in Changes, DoneUpdate(query, data)
      PROVE  UpdatedAs(last')
  <2> DEFINE hit == Asked(query) \cap Live
             op  == last'
  <2>1. /\ op.op = "Update" /\ op.query = query /\ op.data = data /\ op.ids = hit
        /\ Updated(hit, Assigned(data), table')
    BY <1>2 DEF DoneUpdate
  <2> HIDE DEF op
  <2>2. /\ DOMAIN table' = DOMAIN table
        /\ Kept(DOMAIN table \ hit)
        /\ \A id \in hit : Changed(id, Assigned(data))
    BY <1>1, <2>1, UpdatedDoes
  <2>3. UpdatedAs(op)
    BY <2>1, <2>2 DEF UpdatedAs
  <2> QED  BY <2>3 DEF op
<1>3. ASSUME NEW query \in Queries, DoneDelete(query) PROVE UpdatedAs(last')
  <2> DEFINE hit == Asked(query) \cap Live
             op  == last'
             set == [deleted_at |-> clock]
  <2>1. /\ op.op = "Delete" /\ op.query = query /\ op.ids = hit
        /\ Updated(hit, set, table')
    BY <1>3 DEF DoneDelete
  <2> HIDE DEF op
  <2>2. /\ DOMAIN table' = DOMAIN table
        /\ Kept(DOMAIN table \ hit)
        /\ \A id \in hit : Changed(id, set)
    <3> HIDE DEF set
    <3> QED  BY <1>1, <2>1, UpdatedDoes
  <2>3. UpdatedAs(op)
    BY <2>1, <2>2 DEF UpdatedAs
  <2> QED  BY <2>3 DEF op
<1>4. ASSUME NEW query \in Queries, DoneRestore(query) PROVE UpdatedAs(last')
  <2> DEFINE hit == Asked(query) \ Live
             op  == last'
             set == [deleted_at |-> Null]
  <2>1. /\ op.op = "Restore" /\ op.query = query /\ op.ids = hit
        /\ Updated(hit, set, table')
    BY <1>4 DEF DoneRestore
  <2> HIDE DEF op
  <2>2. /\ DOMAIN table' = DOMAIN table
        /\ Kept(DOMAIN table \ hit)
        /\ \A id \in hit : Changed(id, set)
    <3> HIDE DEF set
    <3> QED  BY <1>1, <2>1, UpdatedDoes
  <2>3. UpdatedAs(op)
    BY <2>1, <2>2 DEF UpdatedAs
  <2> QED  BY <2>3 DEF op
<1>5. ASSUME NEW query \in Queries, DoneForceDelete(query) PROVE UpdatedAs(last')
  <2> DEFINE hit  == Asked(query)
             left == DOMAIN table \ hit
             op   == last'
  <2>1. /\ op.op = "ForceDelete" /\ op.query = query /\ op.ids = hit
        /\ table' = [id \in left |-> table[id]]
    BY <1>5 DEF DoneForceDelete
  <2> HIDE DEF op
  <2>2. /\ DOMAIN table' = left
        /\ Kept(left)
    <3> HIDE DEF left
    <3> QED  BY <2>1 DEF Kept
  <2>3. UpdatedAs(op)
    BY <2>1, <2>2 DEF UpdatedAs
  <2> QED  BY <2>3 DEF op
<1> QED  BY <1>1, <1>2, <1>3, <1>4, <1>5

\* There are as many rows as keys.
LEMMA AsManyKeys ==
    ASSUME NEW rows, TableOK(rows)
    PROVE  Cardinality(DOMAIN rows) = Cardinality({rows[id].key : id \in DOMAIN rows})
<1> DEFINE ids  == DOMAIN rows
           keys == {rows[id].key : id \in ids}
           f    == [id \in ids |-> rows[id].key]
<1>1. f \in [ids -> keys]
  OBVIOUS
<1>2. \A i, j \in ids : f[i] = f[j] => i = j
  BY DEF TableOK
<1>3. \A k \in keys : \E id \in ids : f[id] = k
  OBVIOUS
<1>4. IsFiniteSet(ids)
  BY DEF TableOK
<1> HIDE DEF f, ids, keys
<1>5. ExistsBijection(ids, keys)
  BY <1>1, <1>2, <1>3
     DEF ExistsBijection, Bijection, Injection, IsInjective, Surjection
<1>6. Cardinality(keys) = Cardinality(ids)
  BY <1>4, <1>5, FS_Bijection
<1> QED  BY <1>6 DEF keys, ids

LEMMA NewAreStored ==
    ASSUME NEW op, NEW set, Merged(op, set, table'), IInv, Inserting(op),
           NEW r \in Free(op)
    PROVE  \E id \in DOMAIN table' \ DOMAIN table : Stored(op, r, id)
<1>1. r \in 1 .. Len(op.rows)
  BY DEF Free
<1>2. NewId(r) \notin DOMAIN table
  BY <1>1, RowOfIs
<1>3. NewId(r) \in DOMAIN table' /\ table'[NewId(r)] = RowOf(op, r)
  BY DEF Merged
<1>4. Stored(op, r, NewId(r))
  BY <1>3 DEF Stored, RowOf
<1> QED  BY <1>2, <1>3, <1>4

LEMMA InsertsAsAsked ==
    ASSUME IInv, NEW op, DoneInsert(op)
    PROVE  InsertedAs(op)
<1> DEFINE all == 1 .. Len(op.rows)
           ids == {NewId(r) : r \in all}
           none == {}
<1>1. /\ Inserting(op) /\ Free(op) = all /\ Merged(op, none, table')
  BY DEF DoneInsert, Inserted
<1>2. TableOK(table) /\ Len(op.rows) \in Nat
  BY <1>1, InsertingIs DEF IInv
<1>3. Kept(DOMAIN table)
  <2> SUFFICES ASSUME NEW id \in DOMAIN table
               PROVE  id \in DOMAIN table' /\ table'[id] = table[id]
    BY DEF Kept
  <2>1. id \in DOMAIN table'
    BY <1>1 DEF Merged
  <2>2. \A r \in all : Old(op, r) = {}
    BY <1>1 DEF Free
  <2>3. table'[id] = table[id]
    BY <1>1, <2>2 DEF Merged
  <2> QED  BY <2>1, <2>3
<1>4. Cardinality(DOMAIN table') = Cardinality(DOMAIN table) + Len(op.rows)
  <2>1. DOMAIN table' = DOMAIN table \cup ids
    BY <1>1 DEF Merged
  <2>2. IsFiniteSet(all) /\ Cardinality(all) = Len(op.rows) /\ all \in SUBSET Nat
    <3>1. 1 \in Int /\ Len(op.rows) \in Int
      BY <1>2
    <3>2. ASSUME NEW n \in Int
          PROVE  /\ IsFiniteSet(1 .. n)
                 /\ Cardinality(1 .. n) = IF 1 > n THEN 0 ELSE n - 1 + 1
      BY FS_Interval
    <3>3. /\ IsFiniteSet(1 .. Len(op.rows))
          /\ Cardinality(1 .. Len(op.rows))
                = IF 1 > Len(op.rows) THEN 0 ELSE Len(op.rows) - 1 + 1
      BY <3>1, <3>2
    <3> QED  BY <1>2, <3>3
  <2>3. \A r \in all : NewId(r) \notin DOMAIN table
    BY <1>1, RowOfIs
  <2>4. DOMAIN table \cap ids = {}
    BY <2>3
  <2>5. IsFiniteSet(DOMAIN table) /\ DOMAIN table \subseteq Nat
    BY <1>2 DEF TableOK
  <2> HIDE DEF all
  <2>6. IsFiniteSet(ids) /\ Cardinality(ids) = Cardinality(all)
    BY <2>2, <2>5, AsManyIds
  <2> HIDE DEF ids
  <2>7. /\ Cardinality(DOMAIN table \cup ids) =
              Cardinality(DOMAIN table) + Cardinality(ids)
                 - Cardinality(DOMAIN table \cap ids)
        /\ Cardinality(DOMAIN table) \in Nat
    BY <2>5, <2>6, FS_Union, FS_CardinalityType
  <2>8. Cardinality(DOMAIN table \cap ids) = 0
    BY <2>4, FS_EmptySet
  <2> QED  BY <1>2, <2>1, <2>2, <2>6, <2>7, <2>8
<1>5. \A r \in all : \E id \in DOMAIN table' \ DOMAIN table : Stored(op, r, id)
  BY <1>1, NewAreStored
<1> QED  BY <1>3, <1>4, <1>5 DEF InsertedAs

LEMMA UpsertsAsAsked ==
    ASSUME IInv, "mysql" \notin NothingOn, NEW op, DoneUpsert(op)
    PROVE  UpsertedAs(op)
<1> DEFINE all  == 1 .. Len(op.rows)
           keys == {op.rows[r].key : r \in all}
           set  == SetBy(op)
<1>1. /\ Inserting(op) /\ op.op # "Insert" /\ op.update \in UpdateLists \cup {NoList}
      /\ op.update = <<>> => dialect \in NothingOn
      /\ Merged(op, set, table')
  BY DEF DoneUpsert
<1>2. /\ set \in SUBSET (Columns \ {"id"})
      /\ set = ToUpdate(op)
  BY <1>1, SetByIs DEF IInv
<1> HIDE DEF set
<1>3. TableOK(table') /\ \A id \in DOMAIN table : table'[id].key = table[id].key
  <2> SUFFICES ASSUME NEW next, Merged(op, set, next)
               PROVE  TableOK(next) /\ \A id \in DOMAIN table : next[id].key = table[id].key
    BY <1>1, Zenon
  <2>1. Inserting(op)
    BY <1>1
  <2> QED  BY <1>2, <2>1, MergedOK, Zenon
<1>4. Kept({id \in DOMAIN table : table[id].key \notin keys})
  <2> SUFFICES ASSUME NEW id \in DOMAIN table, table[id].key \notin keys
               PROVE  id \in DOMAIN table' /\ table'[id] = table[id]
    BY DEF Kept
  <2>1. \A r \in all : id \notin Old(op, r)
    BY DEF Old
  <2> QED  BY <1>1, <2>1 DEF Merged
<1>5. Cardinality(DOMAIN table') =
         Cardinality({table[id].key : id \in DOMAIN table} \cup keys)
  <2>1. Cardinality(DOMAIN table') = Cardinality({table'[id].key : id \in DOMAIN table'})
    BY <1>3, AsManyKeys
  <2>2. ASSUME NEW id \in DOMAIN table'
        PROVE  table'[id].key \in {table[i].key : i \in DOMAIN table} \cup keys
    <3>1. CASE id \in DOMAIN table
      BY <1>3, <3>1
    <3>2. CASE id \notin DOMAIN table
      <4>1. PICK r \in all : table'[id] = RowOf(op, r)
        <5>1. \E r \in all : id = NewId(r) /\ table'[id] = RowOf(op, r)
          BY <1>1, <3>2, MergedNew
        <5> QED  BY <5>1, Zenon
      <4>2. RowOf(op, r).key = op.rows[r].key
        BY <1>1, RowOfIs
      <4> QED  BY <4>1, <4>2
    <3> QED  BY <3>1, <3>2
  <2>3. ASSUME NEW id \in DOMAIN table
        PROVE  table[id].key \in {table'[i].key : i \in DOMAIN table'}
    <3>1. id \in DOMAIN table'
      BY <1>1 DEF Merged
    <3> QED  BY <1>3, <3>1
  <2>4. ASSUME NEW r \in all
        PROVE  op.rows[r].key \in {table'[i].key : i \in DOMAIN table'}
    <3>1. CASE r \in Free(op)
      <4>1. NewId(r) \in DOMAIN table' /\ table'[NewId(r)] = RowOf(op, r)
        BY <1>1, <3>1 DEF Merged
      <4>2. RowOf(op, r).key = op.rows[r].key
        BY <1>1, RowOfIs
      <4> QED  BY <4>1, <4>2
    <3>2. CASE r \notin Free(op)
      <4>1. PICK id \in DOMAIN table : table[id].key = op.rows[r].key
        BY <3>2 DEF Free, Old
      <4> QED  BY <2>3, <4>1
    <3> QED  BY <3>1, <3>2
  <2>5. {table'[id].key : id \in DOMAIN table'}
           = {table[id].key : id \in DOMAIN table} \cup keys
    BY <2>2, <2>3, <2>4
  <2> QED  BY <2>1, <2>5
<1>6. ASSUME NEW r \in all, Old(op, r) = {}
      PROVE  \E id \in DOMAIN table' \ DOMAIN table : Stored(op, r, id)
  <2>1. r \in Free(op)
    BY <1>6 DEF Free
  <2> QED  BY <1>1, <2>1, NewAreStored
<1>7. ASSUME NEW r \in all, NEW id \in Old(op, r)
      PROVE  Changed(id, [c \in ToUpdate(op) |-> Value(op, r, c)])
  <2>1. id \in DOMAIN table
    BY DEF Old
  <2>2. \A s \in all : id \in Old(op, s) => s = r
    <3>1. \A s \in all : id \in Old(op, s) => op.rows[s].key = op.rows[r].key
      BY DEF Old
    <3> QED  BY <1>1, <3>1, InsertingIs
  <2>3. table'[id] = [c \in Columns |-> IF c \in set THEN Value(op, r, c)
                                        ELSE table[id][c]]
    BY <1>1, <2>1, <2>2 DEF Merged
  <2> QED  BY <1>2, <2>3 DEF Changed
<1> QED  BY <1>4, <1>5, <1>6, <1>7 DEF UpsertedAs, Old

\* A write reaches the rows its query asks for, and no other; each column of them
\* has the value its own map gave it, and every other is as it was, or the
\* database's in a new row.  The one exception is MySQL, asked to do nothing.
THEOREM WritesAreAsAsked ==
    ASSUME "mysql" \notin NothingOn
    PROVE  Spec => WrittenAsAsked
<1> DEFINE AsAsked ==
       CASE last'.op \in {"Update", "Delete", "Restore", "ForceDelete"} ->
                UpdatedAs(last')
         [] last'.op \in {"Insert", "InsertMany"} -> InsertedAs(last')
         [] last'.op = "Upsert"  -> UpsertedAs(last')
         [] last'.op = "Refused" -> Kept(DOMAIN table)
<1>1. ASSUME IInv, [Next]_vars PROVE [AsAsked]_vars
  <2> SUFFICES ASSUME Next PROVE AsAsked
    BY <1>1
  <2>1. Done
    BY <1>1, NextDoes
  <2> DEFINE op == last'
  <2>2. ASSUME Refused PROVE AsAsked
    <3>1. op.op = "Refused" /\ Kept(DOMAIN table)
      BY <2>2 DEF Refused, Kept
    <3> HIDE DEF op
    <3>2. CASE op.op = "Refused"
      BY <3>1 DEF op
    <3> QED  BY <3>1, <3>2
  <2>3. ASSUME op.op \in {"Update", "Delete", "Restore", "ForceDelete"}, UpdatedAs(op)
        PROVE  AsAsked
    BY <2>3
  <2>4. ASSUME NEW query \in Queries, NEW data \in Changes, DoneUpdate(query, data)
        PROVE  AsAsked
    BY <2>3, <2>4, QueriesAsAsked DEF DoneUpdate
  <2>5. ASSUME NEW query \in Queries,
               DoneDelete(query) \/ DoneRestore(query) \/ DoneForceDelete(query)
        PROVE  AsAsked
    <3>1. op.op \in {"Delete", "Restore", "ForceDelete"}
      BY <2>5 DEF DoneDelete, DoneRestore, DoneForceDelete
    <3>2. UpdatedAs(op)
      BY <2>5, QueriesAsAsked
    <3> QED  BY <2>3, <3>1, <3>2
  <2>6. ASSUME NEW call, DoneInsert(call) PROVE AsAsked
    <3>1. op = call /\ op.op \in {"Insert", "InsertMany"}
      BY <2>6 DEF DoneInsert, Inserted
    <3>2. InsertedAs(op)
      BY <1>1, <2>6, <3>1, InsertsAsAsked
    <3> QED  BY <3>1, <3>2
  <2>7. ASSUME NEW call, DoneUpsert(call) PROVE AsAsked
    <3>1. op = call /\ op.op = "Upsert"
      BY <2>7 DEF DoneUpsert
    <3>2. UpsertedAs(op)
      BY <1>1, <2>7, <3>1, UpsertsAsAsked
    <3> QED  BY <3>1, <3>2
  <2> QED  BY <2>1, <2>2, <2>4, <2>5, <2>6, <2>7, Zenon DEF Done
<1> QED  BY <1>1, InitInv, NextInv, PTL DEF Spec, WrittenAsAsked
=============================================================================
