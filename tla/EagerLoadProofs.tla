--------------------------- MODULE EagerLoadProofs ---------------------------
(***************************************************************************)
(* EagerLoad, for every set of tables, relations and queries and any       *)
(* number of writes by others: what hangs in the tree was linked by stored *)
(* rows, all that is linked hangs there when the call returns, and a       *)
(* deferred count agrees with it.                                          *)
(***************************************************************************)
EXTENDS EagerLoad, SequenceTheorems, FiniteSetTheorems, TLAPS

\* A list whose clauses are joined by AND holds where every clause does.
LEMMA Conjunction ==
    ASSUME NEW list, NEW row, Len(list) \in Nat \ {0}, list # <<>>,
           \A i \in 1 .. Len(list) : list[i].boolean = "AND"
    PROVE  Satisfies(list, row) <=>
               \A i \in 1 .. Len(list) : row \in list[i].test
<1>1. \A i \in 1 .. Len(list) : Opens(list, i) <=> i = 1
  BY DEF Opens
<1>2. \A j \in 1 .. Len(list) : Joined(list, 1, j)
  BY DEF Joined
<1>3. 1 \in 1 .. Len(list)
  OBVIOUS
<1> QED  BY <1>1, <1>2, <1>3 DEF Satisfies

AllAnd(list) == \A i \in 1 .. Len(list) : list[i].boolean = "AND"

\* Conjunction, for lists that may be empty.
LEMMA AndLists ==
    ASSUME NEW T, NEW list \in Seq(T), AllAnd(list), NEW row
    PROVE  Satisfies(list, row) <=>
               \A i \in 1 .. Len(list) : row \in list[i].test
<1>1. CASE list = <<>>
  <2>1. Len(list) = 0
    BY <1>1
  <2> QED  BY <1>1, <2>1 DEF Satisfies
<1>2. CASE list # <<>>
  <2>1. Len(list) \in Nat \ {0}
    BY <1>2
  <2> QED  BY <1>2, <2>1, Conjunction DEF AllAnd
<1> QED  BY <1>1, <1>2

\* The clauses of z are those of x, then those of y.
Follow(x, y, z) ==
    /\ Len(x) \in Nat /\ Len(y) \in Nat /\ Len(z) = Len(x) + Len(y)
    /\ \A i \in 1 .. Len(x) : z[i] = x[i]
    /\ \A i \in 1 .. Len(y) : z[Len(x) + i] = y[i]
    /\ \A i \in 1 .. Len(z) :
          i \in 1 .. Len(x) \/ \E k \in 1 .. Len(y) : i = Len(x) + k

LEMMA ListsJoined ==
    ASSUME NEW T, NEW x \in Seq(T), NEW y \in Seq(T)
    PROVE  x \o y \in Seq(T) /\ Follow(x, y, x \o y)
<1>1. /\ x \o y \in Seq(T) /\ Len(x \o y) = Len(x) + Len(y)
      /\ \A i \in 1 .. Len(x) + Len(y) :
            (x \o y)[i] = IF i <= Len(x) THEN x[i] ELSE y[i - Len(x)]
  BY ConcatProperties, Zenon
<1>2. Len(x) \in Nat /\ Len(y) \in Nat
  OBVIOUS
<1>3. \A i \in 1 .. Len(x) : (x \o y)[i] = x[i]
  BY <1>1, <1>2
<1>4. \A i \in 1 .. Len(y) : (x \o y)[Len(x) + i] = y[i]
  BY <1>1, <1>2
<1>5. ASSUME NEW i \in 1 .. Len(x \o y), i \notin 1 .. Len(x)
      PROVE  \E k \in 1 .. Len(y) : i = Len(x) + k
  <2>1. i - Len(x) \in 1 .. Len(y) /\ i = Len(x) + (i - Len(x))
    BY <1>1, <1>2, <1>5
  <2> QED  BY <2>1
<1> QED  BY <1>1, <1>2, <1>3, <1>4, <1>5 DEF Follow

\* Lists of ANDs: one after the other is their conjunction.
LEMMA AndConcat ==
    ASSUME NEW T, NEW x \in Seq(T), NEW y \in Seq(T), AllAnd(x), AllAnd(y),
           NEW row
    PROVE  /\ AllAnd(x \o y)
           /\ Satisfies(x \o y, row) <=> Satisfies(x, row) /\ Satisfies(y, row)
<1> DEFINE z == x \o y
<1>1. z \in Seq(T) /\ Follow(x, y, z)
  BY ListsJoined
<1> HIDE DEF z
<1>2. AllAnd(z)
  <2> SUFFICES ASSUME NEW i \in 1 .. Len(z) PROVE z[i].boolean = "AND"
    BY DEF AllAnd
  <2>1. CASE i \in 1 .. Len(x)
    BY <1>1, <2>1 DEF Follow, AllAnd
  <2>2. CASE i \notin 1 .. Len(x)
    <3>1. PICK k \in 1 .. Len(y) : i = Len(x) + k
      BY <1>1, <2>2 DEF Follow
    <3> QED  BY <1>1, <3>1 DEF Follow, AllAnd
  <2> QED  BY <2>1, <2>2
<1>3. /\ Satisfies(z, row) <=> \A i \in 1 .. Len(z) : row \in z[i].test
      /\ Satisfies(x, row) <=> \A i \in 1 .. Len(x) : row \in x[i].test
      /\ Satisfies(y, row) <=> \A i \in 1 .. Len(y) : row \in y[i].test
  BY <1>1, <1>2, AndLists
<1>4. /\ \A i \in 1 .. Len(x) : i \in 1 .. Len(z)
      /\ \A i \in 1 .. Len(y) : Len(x) + i \in 1 .. Len(z)
  BY <1>1 DEF Follow
<1>5. (\A i \in 1 .. Len(z) : row \in z[i].test) <=>
            /\ \A i \in 1 .. Len(x) : row \in x[i].test
            /\ \A i \in 1 .. Len(y) : row \in y[i].test
  BY <1>1, <1>4 DEF Follow
<1> QED  BY <1>2, <1>3, <1>5 DEF z

-----------------------------------------------------------------------------

\* The assumption of this module: constraints say AND.  A constraint that says
\* OR escapes the type predicate of a polymorphic relation.
AndClauses == Seq([boolean : {"AND"}, test : SUBSET Versions])
AndLoads   == [path : Seq(DOMAIN Relations) \ {<<>>}, closure : AndClauses]
ConstraintsSayAnd == \A query \in Requests : query.withs \in Seq(AndLoads)

\* What queryRelated returns is stored, live, of the table, and in every clause.
LEMMA Related ==
    ASSUME store \subseteq Versions,
           NEW table, NEW column, NEW keys, NEW closure \in AndClauses,
           NEW c \in QueryRelated(table, column, keys, closure)
    PROVE  /\ c \in store /\ c.table = table /\ c.live
           /\ \A i \in 1 .. Len(closure) : c \in closure[i].test
<1> DEFINE first == WhereIn(Table(table), column, keys)
           list  == <<first>> \o closure
<1>1. first \in [boolean : {"AND"}, test : SUBSET Versions]
  BY DEF WhereIn, Table, And
<1>2. /\ Len(list) \in Nat \ {0} /\ list # <<>>
      /\ \A i \in 1 .. Len(list) : list[i].boolean = "AND"
      /\ \A i \in 1 .. Len(closure) :
            i + 1 \in 1 .. Len(list) /\ list[i + 1] = closure[i]
  <2> HIDE DEF first
  <2> DEFINE clauses == [boolean : {"AND"}, test : SUBSET Versions]
  <2>1. list \in Seq(clauses) /\ Len(list) = 1 + Len(closure)
        /\ Len(closure) \in Nat
    BY <1>1 DEF AndClauses
  <2>3. \A i \in 1 .. Len(closure) : list[i + 1] = closure[i]
    BY <1>1 DEF AndClauses
  <2> HIDE DEF list, clauses
  <2>2. \A i \in 1 .. Len(list) : list[i] \in clauses
    BY <2>1
  <2>4. list # <<>>
    BY <2>1
  <2>5. \A i \in 1 .. Len(list) : list[i].boolean = "AND"
    BY <2>2 DEF clauses
  <2>6. \A i \in 1 .. Len(closure) : i + 1 \in 1 .. Len(list)
    BY <2>1
  <2>7. Len(list) \in Nat \ {0}
    BY <2>1
  <2> QED  BY <2>3, <2>4, <2>5, <2>6, <2>7
<1>3. c \in Table(table) /\ Satisfies(list, c) /\ c.live
  BY DEF QueryRelated, Matching
<1> HIDE DEF list
<1>4. \A i \in 1 .. Len(list) : c \in list[i].test
  BY <1>2, <1>3, Conjunction
<1> QED  BY <1>2, <1>3, <1>4 DEF Table

LEMMA MorphClauses ==
    ASSUME NEW rel, rel.typed \subseteq Versions, NEW closure \in AndClauses
    PROVE  /\ MorphClosure(rel, closure) \in AndClauses
           /\ 1 \in 1 .. Len(MorphClosure(rel, closure))
           /\ MorphClosure(rel, closure)[1].test = rel.typed
<1>1. And(rel.typed) \in [boolean : {"AND"}, test : SUBSET Versions]
  BY DEF And
<1> QED  BY <1>1 DEF MorphClosure, AndClauses, And

LEMMA ChildNode ==
    ASSUME NEW p \in Nodes, NEW name \in DOMAIN Relations, NEW c \in Versions
    PROVE  LET n == Child(p, name, c) IN
           /\ n \in Nodes /\ Len(n) = Len(p) + 1 /\ Len(n) > 1
           /\ Row(n) = c /\ n[Len(n)].rel = name
           /\ n[Len(n) - 1].row = Row(p)
<1>1. Node(name, c) \in [rel : DOMAIN Relations \cup {"root"}, row : Versions]
  BY DEF Node
<1>2. p \in Seq([rel : DOMAIN Relations \cup {"root"}, row : Versions])
      /\ p # <<>> /\ Len(p) \in Nat /\ Len(p) > 0
  BY DEF Nodes
<1> QED  BY <1>1, <1>2 DEF Child, Nodes, Node, Row

LEMMA AssignedNodes ==
    ASSUME NEW name, NEW found, tree' \in Assigned(name, found)
    PROVE  /\ \A n \in tree' : \/ n \in tree
                               \/ \E p \in parents : \E c \in found[p] :
                                     n = Child(p, name, c)
           /\ \A n \in tree : (\A p \in parents : n \notin Below(tree, p, name))
                                 => n \in tree'
<1>1. CASE Single(name)
  BY <1>1 DEF Assigned
<1>2. CASE ~Single(name)
  BY <1>2 DEF Assigned
<1> QED  BY <1>1, <1>2

-----------------------------------------------------------------------------
(***************************************************************************)
(* The invariant.  Parents are of one depth, so that what is hung below    *)
(* one replaces no other, and the models stay, so that the next path has   *)
(* where to start.  What was stored and typed stays so in `seen`.          *)
(***************************************************************************)
Walking == phase \in {"load", "related"}

PairsStored ==
    phase = "related" =>
        /\ Relations[path[1]].kind \in PivotKinds
        /\ \A pr \in pairs : \E v \in seen :
              /\ v.table = Relations[path[1]].via
              /\ v \in Relations[path[1]].typed
              /\ v.col[Relations[path[1]].viaParent] = pr.parent
              /\ v.col[Relations[path[1]].viaRelated] = pr.related

TreeOK ==
    /\ \A n \in tree : Len(n) > 1 => n[Len(n)].rel \in DOMAIN Relations
    /\ NothingInvented

LoadInv ==
    /\ TypeOK /\ store \subseteq seen
    /\ withs \in Seq(AndLoads) /\ path \in Seq(DOMAIN Relations)
    /\ \A p, q \in parents : Len(p) = Len(q)
    /\ Walking => Roots(tree) # {}
    /\ phase = "query" => tree = {}
    /\ PairsStored
    /\ TreeOK

LEMMA LinkedMonotone ==
    ASSUME NEW name \in DOMAIN Relations, NEW p, NEW c, NEW rows, NEW more,
           rows \subseteq more, Linked(Relations[name], p, c, rows)
    PROVE  Linked(Relations[name], p, c, more)
<1> DEFINE rel == Relations[name]
<1>1. rel.kind \in DirectKinds \/ rel.kind \in PivotKinds \/ rel.kind = "morphTo"
  BY RelationsAssumption
<1>3. CASE rel.kind \in DirectKinds
  BY <1>3 DEF Linked, DirectKinds, PivotKinds
<1>4. CASE rel.kind \in PivotKinds
  BY <1>4 DEF Linked, DirectKinds, PivotKinds
<1>5. CASE rel.kind = "morphTo"
  BY <1>5 DEF Linked, DirectKinds, PivotKinds
<1> QED  BY <1>1, <1>3, <1>4, <1>5

LEMMA InitInv == Init => LoadInv
<1> SUFFICES ASSUME Init PROVE LoadInv
  OBVIOUS
<1>1. /\ <<>> \in Seq(AndLoads) /\ <<>> \in Seq(DOMAIN Relations)
      /\ Len(<<>>) = 0
  OBVIOUS
<1>2. TypeOK
  BY <1>1, ConstantsAssumption DEF Init, TypeOK
<1> QED  BY <1>1, <1>2
         DEF Init, LoadInv, Walking, PairsStored, TreeOK, NothingInvented

\* Rows that are linked and stored are hung below the parents.
LEMMA Hang ==
    ASSUME LoadInv, Walking, NEW found, tree' \in Assigned(path[1], found),
           seen' = seen,
           \A p \in parents : \A c \in found[p] :
              /\ c \in store /\ c.live
              /\ Linked(Relations[path[1]], Row(p), c, seen)
    PROVE  /\ tree' \subseteq Nodes /\ TreeOK'
           /\ parents \subseteq tree' /\ Roots(tree') # {}
<1>1. /\ path[1] \in DOMAIN Relations /\ tree \subseteq Nodes
      /\ parents \subseteq tree /\ store \subseteq Versions /\ store \subseteq seen
      /\ \A p \in Nodes : Len(p) \in Nat /\ Len(p) >= 1
  <2>1. path \in Seq(DOMAIN Relations) /\ path # <<>>
    BY DEF LoadInv, TypeOK, Walking
  <2>2. path[1] \in DOMAIN Relations
    BY <2>1
  <2>3. \A p \in Nodes : Len(p) \in Nat /\ Len(p) >= 1
    BY DEF Nodes
  <2>4. /\ tree \subseteq Nodes /\ parents \subseteq tree
        /\ store \subseteq Versions /\ store \subseteq seen
    BY DEF LoadInv, TypeOK
  <2> QED  BY <2>2, <2>3, <2>4
<1>2. ASSUME NEW p \in parents, NEW c \in found[p]
      PROVE  LET n == Child(p, path[1], c) IN
             /\ n \in Nodes /\ Len(n) > 1 /\ n[Len(n)].rel \in DOMAIN Relations
             /\ Row(n).live /\ Row(n) \in seen
             /\ Linked(Relations[n[Len(n)].rel], n[Len(n) - 1].row, Row(n), seen)
  <2>1. p \in Nodes /\ c \in Versions
    BY <1>1, <1>2
  <2>2. c \in seen /\ c.live /\ Linked(Relations[path[1]], Row(p), c, seen)
    BY <1>1, <1>2
  <2> DEFINE n == Child(p, path[1], c)
  <2>3. /\ n \in Nodes /\ Len(n) > 1 /\ Row(n) = c /\ n[Len(n)].rel = path[1]
        /\ n[Len(n) - 1].row = Row(p)
    BY <1>1, <2>1, ChildNode
  <2> HIDE DEF n
  <2> QED  BY <1>1, <2>2, <2>3 DEF n
<1>3. \A n \in tree' : \/ n \in tree
                       \/ \E p \in parents : \E c \in found[p] :
                             n = Child(p, path[1], c)
  BY AssignedNodes
<1>4. tree' \subseteq Nodes
  BY <1>1, <1>2, <1>3
<1>5. TreeOK'
  <2> SUFFICES ASSUME NEW n \in tree', Len(n) > 1
               PROVE  /\ n[Len(n)].rel \in DOMAIN Relations
                      /\ Row(n).live /\ Row(n) \in seen
                      /\ Linked(Relations[n[Len(n)].rel], n[Len(n) - 1].row,
                                Row(n), seen)
    BY DEF TreeOK, NothingInvented, Linked, Connects, Row
  <2>1. CASE n \in tree
    BY <2>1 DEF LoadInv, TreeOK, NothingInvented
  <2> QED  BY <1>2, <1>3, <2>1
<1>6. \A n \in tree : \A p \in parents :
         n \in Below(tree, p, path[1]) => Len(n) > Len(p)
  BY DEF Below
<1>7. parents \subseteq tree'
  <2>1. \A n \in parents : n \in tree /\ \A p \in parents : Len(n) = Len(p)
    BY DEF LoadInv, TypeOK
  <2> QED  BY <1>1, <1>6, <2>1, AssignedNodes
<1>8. Roots(tree') # {}
  <2>1. PICK n \in tree : Len(n) = 1
    BY DEF LoadInv, Roots
  <2>2. \A p \in parents : n \notin Below(tree, p, path[1])
    <3>1. ASSUME NEW p \in parents, n \in Below(tree, p, path[1]) PROVE FALSE
      <4>1. Len(n) > Len(p)
        BY <1>6, <2>1, <3>1
      <4>2. p \in Nodes
        BY <1>1
      <4>3. Len(p) \in Nat /\ Len(p) >= 1
        BY <1>1, <4>2
      <4> QED  BY <2>1, <4>1, <4>3
    <3> QED  BY <3>1
  <2>3. n \in tree'
    BY <2>1, <2>2, AssignedNodes
  <2> QED  BY <2>1, <2>3 DEF Roots
<1> QED  BY <1>4, <1>5, <1>7, <1>8

-----------------------------------------------------------------------------
(***************************************************************************)
(* Where a walk goes on.                                                   *)
(***************************************************************************)
\* What of the invariant the walk itself has to keep.
Course ==
    /\ withs \in Seq(AndLoads) /\ path \in Seq(DOMAIN Relations)
    /\ phase \in {"load", "done"}
    /\ phase = "load" => withs # <<>> /\ path # <<>> /\ parents # {}
    /\ parents \subseteq tree
    /\ \A p, q \in parents : Len(p) = Len(q)
    /\ \A i \in 1 .. Len(withs) : \E j \in 1 .. Len(request.withs) :
          withs[i] = request.withs[j]

LEMMA Rest ==
    ASSUME NEW S, NEW s \in Seq(S), s # <<>>
    PROVE  /\ Tail(s) \in Seq(S) /\ Len(Tail(s)) \in Nat
           /\ Len(s) \in Nat /\ Len(Tail(s)) = Len(s) - 1
           /\ \A i \in 1 .. Len(Tail(s)) :
                 i + 1 \in 1 .. Len(s) /\ Tail(s)[i] = s[i + 1]
           /\ Len(s) > 1 => Tail(s) # <<>> /\ s[2] \in S
           /\ 1 \in 1 .. Len(s) /\ s[1] \in S
<1>1. Len(s) \in Nat /\ Len(s) > 0
  OBVIOUS
<1>2. Tail(s) \in Seq(S) /\ Len(Tail(s)) = Len(s) - 1
  BY <1>1
<1>3. \A i \in 1 .. Len(Tail(s)) : Tail(s)[i] = s[i + 1]
  BY <1>1, <1>2
<1>4. \A i \in 1 .. Len(s) : s[i] \in S
  OBVIOUS
<1>5. Len(s) > 1 => Tail(s) # <<>>
  <2>1. ASSUME Len(s) > 1 PROVE Tail(s) # <<>>
    <3>1. Len(Tail(s)) # 0
      BY <1>1, <1>2, <2>1
    <3>2. Len(<<>>) = 0
      OBVIOUS
    <3> QED  BY <3>1, <3>2, Zenon
  <2> QED  BY <2>1
<1> QED  BY <1>1, <1>2, <1>3, <1>4, <1>5

LEMMA NextPathKeeps ==
    ASSUME LoadInv, Walking, NextPath, Roots(tree') # {},
           request' = request
    PROVE  Course'
<1>1. withs \in Seq(AndLoads) /\ withs # <<>>
  BY DEF LoadInv, TypeOK, Walking
<1>2. /\ withs' = Tail(withs) /\ Tail(withs) \in Seq(AndLoads)
      /\ Len(Tail(withs)) \in Nat /\ Len(withs) \in Nat
      /\ \A i \in 1 .. Len(Tail(withs)) :
            i + 1 \in 1 .. Len(withs) /\ Tail(withs)[i] = withs[i + 1]
      /\ Len(withs) > 1 => Tail(withs) # <<>> /\ withs[2] \in AndLoads
  BY <1>1, Rest DEF NextPath
<1>3. \A i \in 1 .. Len(withs') : \E j \in 1 .. Len(request'.withs) :
         withs'[i] = request'.withs[j]
  BY <1>2 DEF LoadInv, TypeOK
<1>4. CASE Len(withs) > 1
  <2>1. /\ path' = withs[2].path /\ parents' = Roots(tree') /\ phase' = "load"
        /\ withs[2].path \in Seq(DOMAIN Relations) /\ withs[2].path # <<>>
    BY <1>2, <1>4 DEF NextPath, AndLoads
  <2> QED  BY <1>2, <1>3, <1>4, <2>1 DEF Course, Roots
<1>5. CASE ~(Len(withs) > 1)
  <2>1. path' = <<>> /\ parents' = {} /\ phase' = "done"
    BY <1>5 DEF NextPath
  <2> QED  BY <1>2, <1>3, <2>1 DEF Course
<1> QED  BY <1>4, <1>5

LEMMA DescendKeeps ==
    ASSUME LoadInv, Walking, Descend, Roots(tree') # {},
           request' = request
    PROVE  Course'
<1> DEFINE children == Children(tree', path[1])
<1>1. CASE Len(path) > 1 /\ children # {}
  <2>1. /\ path' = Tail(path) /\ parents' = children /\ phase' = "load"
        /\ withs' = withs
    BY <1>1 DEF Descend
  <2>2. path \in Seq(DOMAIN Relations) /\ path # <<>>
    BY DEF LoadInv, TypeOK, Walking
  <2>3. Tail(path) \in Seq(DOMAIN Relations) /\ Tail(path) # <<>>
    BY <1>1, <2>2, Rest
  <2>4. /\ children \subseteq tree'
        /\ \A n \in children : \E p \in parents : Len(n) = Len(p) + 1
    BY DEF Children, Below
  <2>5. \A p, q \in parents : Len(p) = Len(q)
    BY DEF LoadInv
  <2>6. \A m, n \in children : Len(m) = Len(n)
    BY <2>4, <2>5
  <2>7. /\ withs \in Seq(AndLoads) /\ withs # <<>>
        /\ \A i \in 1 .. Len(withs) : \E j \in 1 .. Len(request.withs) :
              withs[i] = request.withs[j]
    BY DEF LoadInv, TypeOK, Walking
  <2> HIDE DEF children
  <2> QED  BY <1>1, <2>1, <2>3, <2>4, <2>6, <2>7 DEF Course
<1>2. CASE ~(Len(path) > 1 /\ children # {})
  BY <1>2, NextPathKeeps DEF Descend
<1> QED  BY <1>1, <1>2

-----------------------------------------------------------------------------
(***************************************************************************)
(* The actions.                                                            *)
(***************************************************************************)
\* The current relation, and the constraint if it is the last of its path.
LEMMA Current ==
    ASSUME LoadInv, Walking
    PROVE  /\ path[1] \in DOMAIN Relations
           /\ Closure \in AndClauses
           /\ Relations[path[1]].kind # "morphTo" =>
                 Relations[path[1]].typed \subseteq Versions
           /\ store \subseteq Versions /\ store \subseteq seen
<1>1. /\ path \in Seq(DOMAIN Relations) /\ path # <<>>
      /\ withs \in Seq(AndLoads) /\ withs # <<>>
      /\ store \subseteq Versions /\ store \subseteq seen
  BY DEF LoadInv, TypeOK, Walking
<1>2. path[1] \in DOMAIN Relations /\ withs[1] \in AndLoads
  BY <1>1, Rest
<1>3. <<>> \in AndClauses
  BY DEF AndClauses
<1>4. Closure \in AndClauses
  BY <1>2, <1>3 DEF Closure, AndLoads
<1> QED  BY <1>1, <1>2, <1>4, RelationsAssumption

\* A relation that was loaded by one query, or by the second of two.
LEMMA HungInv ==
    ASSUME LoadInv, Walking, NEW found, tree' \in Assigned(path[1], found),
           \A p \in parents : \A c \in found[p] :
              /\ c \in store /\ c.live
              /\ Linked(Relations[path[1]], Row(p), c, seen),
           Descend,
           UNCHANGED <<store, request, writes, seen>>
    PROVE  LoadInv'
<1>1. /\ tree' \subseteq Nodes /\ TreeOK'
      /\ Roots(tree') # {}
  BY Hang
<1>2. Course'
  BY <1>1, DescendKeeps
<1>3. TypeOK'
  BY <1>1, <1>2 DEF Course, LoadInv, TypeOK
<1>4. PairsStored' /\ (Walking => Roots(tree) # {})'
  BY <1>1, <1>2 DEF Course, PairsStored, Roots
<1>5. (store \subseteq seen)'
  BY DEF LoadInv
<1> QED  BY <1>1, <1>2, <1>3, <1>4, <1>5 DEF Course, LoadInv

LEMMA LoadRelationInv ==
    ASSUME LoadInv, LoadRelation
    PROVE  LoadInv'
<1> DEFINE rel     == Relations[path[1]]
           clauses == MorphClosure(rel, Closure)
           related == QueryRelated(rel.table, rel.foreign,
                                   DistinctKeys(parents, rel.local), clauses)
           found   == [p \in parents |->
                         {c \in related : SameKey(rel, c.col[rel.foreign],
                                                  Row(p).col[rel.local])}]
<1>1. /\ Walking /\ rel.kind \in DirectKinds /\ Descend
      /\ tree' \in Assigned(path[1], found)
      /\ UNCHANGED <<store, request, writes, seen>>
  BY DEF LoadRelation, Loading, Walking
<1>2. rel.kind # "morphTo" /\ rel.kind \notin PivotKinds
  BY <1>1 DEF DirectKinds, PivotKinds
<1>3. /\ Closure \in AndClauses /\ rel.typed \subseteq Versions
      /\ store \subseteq Versions
  BY <1>1, <1>2, Current
<1>4. /\ clauses \in AndClauses /\ 1 \in 1 .. Len(clauses)
      /\ clauses[1].test = rel.typed
  BY <1>3, MorphClauses
<1>5. ASSUME NEW p \in parents, NEW c \in found[p]
      PROVE  c \in store /\ c.live /\ Linked(rel, Row(p), c, seen)
  <2>1. c \in related /\ c.col[rel.foreign] = Row(p).col[rel.local]
    BY <1>5 DEF SameKey
  <2> HIDE DEF clauses, rel
  <2>2. /\ c \in store /\ c.table = rel.table /\ c.live
        /\ \A i \in 1 .. Len(clauses) : c \in clauses[i].test
    BY <1>3, <1>4, <2>1, Related
  <2>3. c \in rel.typed
    BY <1>4, <2>2
  <2> QED  BY <1>1, <1>2, <2>1, <2>2, <2>3 DEF Linked
<1> HIDE DEF found, rel
<1> QED  BY <1>1, <1>5, HungInv DEF rel

LEMMA LoadPivotInv ==
    ASSUME LoadInv, LoadPivot
    PROVE  LoadInv'
<1> DEFINE rel == Relations[path[1]]
<1>1. /\ phase = "load" /\ rel.kind \in PivotKinds
      /\ pairs' \subseteq QueryPivot(rel, DistinctKeys(parents, rel.local))
      /\ phase' = "related"
      /\ UNCHANGED <<store, request, withs, path, parents, tree, writes, seen>>
  BY DEF LoadPivot, Loading, Mapped
<1>2. /\ path[1] \in DOMAIN Relations /\ rel.kind # "morphTo"
      /\ rel.typed \subseteq Versions
      /\ store \subseteq Versions /\ store \subseteq seen
  BY <1>1, Current DEF Walking, PivotKinds
<1>3. ASSUME NEW pr \in pairs'
      PROVE  \E v \in seen : /\ v.table = rel.via /\ v \in rel.typed
                             /\ v.col[rel.viaParent] = pr.parent
                             /\ v.col[rel.viaRelated] = pr.related
  <2> HIDE DEF rel
  <2> DEFINE keys == DistinctKeys(parents, rel.local)
             list == <<WhereIn(Table(rel.via), rel.viaParent, keys),
                       And(rel.typed)>>
  <2>1. PICK v \in Matching(list, Table(rel.via)) :
            pr = [parent |-> v.col[rel.viaParent], related |-> v.col[rel.viaRelated]]
    BY <1>1, <1>3 DEF QueryPivot
  <2>2. v \in store /\ v.table = rel.via /\ Satisfies(list, v)
    BY DEF Matching, Table
  <2>3. /\ Len(list) = 2 /\ list # <<>>
        /\ \A i \in 1 .. Len(list) : list[i].boolean = "AND"
        /\ list[2].test = rel.typed
    BY DEF WhereIn, And
  <2> HIDE DEF list
  <2>4. \A i \in 1 .. Len(list) : v \in list[i].test
    BY <2>2, <2>3, Conjunction
  <2>5. v \in rel.typed
    BY <2>3, <2>4
  <2> QED  BY <1>2, <2>1, <2>2, <2>5
<1>4. TypeOK'
  BY <1>1 DEF LoadInv, TypeOK
<1>5. PairsStored'
  BY <1>1, <1>3 DEF PairsStored
<1>6. TreeOK'
  BY <1>1 DEF LoadInv, TreeOK, NothingInvented, Linked, Connects, Row
<1> QED  BY <1>1, <1>4, <1>5, <1>6 DEF LoadInv, Walking, Roots

LEMMA LoadThroughPivotInv ==
    ASSUME LoadInv, LoadThroughPivot
    PROVE  LoadInv'
<1> DEFINE rel     == Relations[path[1]]
           related == QueryRelated(rel.table, rel.foreign,
                                   {pr.related : pr \in pairs}, Closure)
           found   == [p \in parents |->
                         {c \in related : \E pr \in pairs :
                            /\ SameKey(rel, pr.parent, Row(p).col[rel.local])
                            /\ SameKey(rel, pr.related, c.col[rel.foreign])}]
<1>1. /\ Walking /\ phase = "related" /\ Descend
      /\ tree' \in Assigned(path[1], found)
      /\ UNCHANGED <<store, request, writes, seen>>
  BY DEF LoadThroughPivot, Walking
<1>2. /\ Closure \in AndClauses /\ store \subseteq Versions
  BY <1>1, Current
<1>3. /\ rel.kind \in PivotKinds
      /\ \A pr \in pairs : \E v \in seen :
            /\ v.table = rel.via /\ v \in rel.typed
            /\ v.col[rel.viaParent] = pr.parent
            /\ v.col[rel.viaRelated] = pr.related
  BY <1>1 DEF LoadInv, PairsStored
<1>4. rel.kind \notin DirectKinds /\ rel.kind # "morphTo"
  BY <1>3 DEF DirectKinds, PivotKinds
<1>5. ASSUME NEW p \in parents, NEW c \in found[p]
      PROVE  c \in store /\ c.live /\ Linked(rel, Row(p), c, seen)
  <2> HIDE DEF rel
  <2>1. PICK pr \in pairs : /\ c \in related
                            /\ pr.parent = Row(p).col[rel.local]
                            /\ pr.related = c.col[rel.foreign]
    BY <1>5 DEF SameKey
  <2>2. c \in store /\ c.table = rel.table /\ c.live
    BY <1>2, <2>1, Related
  <2>3. \E v \in seen : Connects(rel, v, Row(p), c)
    BY <1>3, <2>1 DEF Connects
  <2> QED  BY <1>3, <1>4, <2>2, <2>3 DEF Linked
<1> HIDE DEF found, rel
<1> QED  BY <1>1, <1>5, HungInv DEF rel

LEMMA LoadMorphOwnersInv ==
    ASSUME LoadInv, LoadMorphOwners
    PROVE  LoadInv'
<1> DEFINE rel == Relations[path[1]]
<1>1. /\ Walking /\ rel.kind = "morphTo"
      /\ UNCHANGED <<store, request, phase, withs, path, parents, pairs, writes,
                     seen>>
  BY DEF LoadMorphOwners, Loading, Walking
<1> DEFINE group(type)  == {p \in parents : Row(p).col[rel.typeCol] = type}
           owners(type) == QueryRelated(rel.owners[type], "id",
                              DistinctKeys(group(type), rel.idCol), Closure)
           found(type)  == [p \in parents |->
                              {o \in owners(type) : p \in group(type) /\
                                 SameKey(rel, o.col.id, Row(p).col[rel.idCol])}]
<1>2. PICK type \in TypesLeft : tree' \in Assigned(path[1], found(type))
  BY DEF LoadMorphOwners
<1>3. type \in DOMAIN rel.owners
  BY DEF TypesLeft
<1>4. /\ Closure \in AndClauses /\ store \subseteq Versions
  BY <1>1, Current
<1>5. rel.kind \notin DirectKinds /\ rel.kind \notin PivotKinds
  BY <1>1 DEF DirectKinds, PivotKinds
<1>6. ASSUME NEW p \in parents, NEW c \in found(type)[p]
      PROVE  c \in store /\ c.live /\ Linked(rel, Row(p), c, seen)
  <2> HIDE DEF rel
  <2>1. /\ c \in owners(type) /\ Row(p).col[rel.typeCol] = type
        /\ c.col.id = Row(p).col[rel.idCol]
    BY <1>6 DEF SameKey
  <2>2. c \in store /\ c.table = rel.owners[type] /\ c.live
    BY <1>4, <2>1, Related
  <2> QED  BY <1>1, <1>3, <1>5, <2>1, <2>2 DEF Linked
<1> HIDE DEF found, rel
<1>7. /\ tree' \subseteq Nodes /\ TreeOK'
      /\ parents \subseteq tree' /\ Roots(tree') # {}
  BY <1>1, <1>2, <1>6, Hang DEF rel
<1>8. TypeOK'
  BY <1>1, <1>7 DEF LoadInv, TypeOK
<1>9. PairsStored'
  BY <1>1 DEF LoadInv, PairsStored
<1>10. (Walking => Roots(tree) # {})' /\ phase' # "query"
  BY <1>1, <1>7 DEF Roots, Walking
<1> QED  BY <1>1, <1>7, <1>8, <1>9, <1>10 DEF LoadInv

LEMMA MorphToEndsInv ==
    ASSUME LoadInv, MorphToEnds
    PROVE  LoadInv'
<1>1. /\ Walking /\ tree' = tree
      /\ UNCHANGED <<store, request, pairs, writes, seen>>
      /\ \/ NextPath
         \/ phase' = "failed" /\ UNCHANGED <<withs, path, parents>>
  BY DEF MorphToEnds, OwnersLoaded, Loading, Walking
<1>2. TreeOK' /\ Roots(tree') # {}
  BY <1>1 DEF LoadInv, TreeOK, NothingInvented, Linked, Connects, Row, Roots
<1>3. CASE NextPath
  <2>1. Course'
    BY <1>1, <1>2, <1>3, NextPathKeeps
  <2>2. TypeOK' /\ PairsStored' /\ (Walking => Roots(tree) # {})'
    BY <1>1, <1>2, <2>1 DEF Course, LoadInv, TypeOK, PairsStored, Roots
  <2> QED  BY <1>1, <1>2, <2>1, <2>2 DEF Course, LoadInv
<1>4. CASE phase' = "failed" /\ UNCHANGED <<withs, path, parents>>
  <2>1. TypeOK' /\ PairsStored'
    BY <1>1, <1>4 DEF LoadInv, TypeOK, PairsStored
  <2> QED  BY <1>1, <1>2, <1>4, <2>1 DEF LoadInv, Walking
<1> QED  BY <1>1, <1>3, <1>4

LEMMA GetInv ==
    ASSUME ConstraintsSayAnd, LoadInv, Get
    PROVE  LoadInv'
<1>1. /\ tree' = {<<Node("root", r)>> : r \in {r \in Table(request.model) : r.live}}
      /\ UNCHANGED <<store, request, pairs, writes, seen>>
      /\ store \subseteq Versions
  BY DEF LoadInv, TypeOK, Get
<1>2. /\ request.withs \in Seq(AndLoads) /\ request \in Requests
  BY DEF LoadInv, TypeOK, ConstraintsSayAnd
<1>3. \A n \in tree' : n \in Nodes /\ Len(n) = 1
  <2>1. \A r \in Versions :
           Node("root", r) \in [rel : DOMAIN Relations \cup {"root"}, row : Versions]
    BY DEF Node
  <2>2. ASSUME NEW r \in Versions
        PROVE  <<Node("root", r)>> \in Nodes /\ Len(<<Node("root", r)>>) = 1
    BY <2>1 DEF Nodes
  <2> QED  BY <1>1, <2>2 DEF Table
<1>4. TreeOK'
  BY <1>3 DEF TreeOK, NothingInvented
<1>5. CASE tree' = {} \/ request.withs = <<>>
  <2>1. phase' = "done" /\ UNCHANGED <<withs, path, parents>>
    BY <1>5 DEF Get
  <2>2. parents = {}
    BY DEF Get, LoadInv, TypeOK
  <2> QED  BY <1>1, <1>3, <1>4, <2>1, <2>2
           DEF LoadInv, TypeOK, Walking, PairsStored
<1>6. CASE ~(tree' = {} \/ request.withs = <<>>)
  <2>1. /\ withs' = request.withs /\ path' = request.withs[1].path
        /\ parents' = tree' /\ phase' = "load"
    BY <1>6 DEF Get
  <2>2. request.withs[1] \in AndLoads /\ 1 \in 1 .. Len(request.withs)
    BY <1>2, <1>6, Rest
  <2>3. path' \in Seq(DOMAIN Relations) /\ path' # <<>>
    BY <2>1, <2>2 DEF AndLoads
  <2>4. TypeOK'
    BY <1>1, <1>2, <1>3, <1>6, <2>1, <2>3 DEF LoadInv, TypeOK
  <2>5. (Walking => Roots(tree) # {})' /\ PairsStored'
    BY <1>3, <1>6, <2>1 DEF Roots, PairsStored
  <2> QED  BY <1>1, <1>2, <1>3, <1>4, <2>1, <2>3, <2>4, <2>5 DEF LoadInv
<1> QED  BY <1>5, <1>6

\* What others write is not in the tree, and what was seen stays seen.
LEMMA OthersWriteInv ==
    ASSUME LoadInv, OthersWrite
    PROVE  LoadInv'
<1>1. /\ UNCHANGED <<request, phase, withs, path, parents, pairs, tree>>
      /\ seen' = seen \cup store' /\ writes' = writes + 1 /\ writes < MaxWrites
  BY DEF OthersWrite
<1>2. store' \subseteq Versions /\ Consistent(store')
  <2>1. PICK v \in Written :
            \/ store' = {r \in store : Key(r) # Key(v)} \cup {v}
            \/ store' = {r \in store : Key(r) # Key(v)}
    BY DEF OthersWrite
  <2> QED  BY <2>1, ConstantsAssumption DEF LoadInv, TypeOK, Consistent
<1>3. TypeOK'
  BY <1>1, <1>2, ConstantsAssumption DEF LoadInv, TypeOK, Consistent
<1>4. PairsStored'
  BY <1>1 DEF LoadInv, PairsStored
<1>5. TreeOK'
  <2> SUFFICES ASSUME NEW n \in tree, Len(n) > 1
               PROVE  /\ Row(n).live /\ Row(n) \in seen'
                      /\ Linked(Relations[n[Len(n)].rel], n[Len(n) - 1].row,
                                Row(n), seen')
    BY <1>1 DEF LoadInv, TreeOK, NothingInvented, Linked, Connects, Row
  <2>1. /\ n[Len(n)].rel \in DOMAIN Relations
        /\ Row(n).live /\ Row(n) \in seen
        /\ Linked(Relations[n[Len(n)].rel], n[Len(n) - 1].row, Row(n), seen)
    BY DEF LoadInv, TreeOK, NothingInvented
  <2> QED  BY <1>1, <2>1, LinkedMonotone
<1> QED  BY <1>1, <1>3, <1>4, <1>5 DEF LoadInv, Walking, Roots

LEMMA NextInv == ConstraintsSayAnd /\ LoadInv /\ [Next]_vars => LoadInv'
<1> SUFFICES ASSUME ConstraintsSayAnd, LoadInv, [Next]_vars PROVE LoadInv'
  OBVIOUS
<1>1. CASE Statement
  BY <1>1, GetInv, LoadRelationInv, LoadPivotInv, LoadThroughPivotInv,
     LoadMorphOwnersInv, MorphToEndsInv
  DEF Statement
<1>2. ASSUME \/ phase' = "failed" \/ phase' = phase,
             UNCHANGED <<store, request, withs, path, parents, pairs, tree,
                         writes, seen>>
      PROVE  LoadInv'
  <2>1. TypeOK'
    BY <1>2 DEF LoadInv, TypeOK
  <2>2. PairsStored' /\ TreeOK'
    BY <1>2 DEF LoadInv, PairsStored, TreeOK, NothingInvented, Linked, Connects,
                Row
  <2> QED  BY <1>2, <2>1, <2>2 DEF LoadInv, Walking, Roots
<1>3. CASE StatementFails
  BY <1>2, <1>3 DEF StatementFails
<1>4. CASE LoadCount
  BY <1>2, <1>4 DEF LoadCount
<1>5. CASE UNCHANGED vars
  BY <1>2, <1>5 DEF vars
<1> QED  BY <1>1, <1>3, <1>4, <1>5, OthersWriteInv DEF Next

\* TypeOK, if constraints say AND.
THEOREM TypeCorrect ==
    ASSUME ConstraintsSayAnd
    PROVE  Spec => []TypeOK
<1>1. LoadInv => TypeOK
  BY DEF LoadInv
<1> QED  BY <1>1, InitInv, NextInv, PTL DEF Spec

\* A row hangs below another only if it was live and linked to it by rows that
\* were stored during the call, if constraints say AND (relations.go).
THEOREM OnlyLinkedIsLoaded ==
    ASSUME ConstraintsSayAnd
    PROVE  Spec => []NothingInvented
<1>1. LoadInv => NothingInvented
  BY DEF LoadInv, TreeOK
<1> QED  BY <1>1, InitInv, NextInv, PTL DEF Spec

-----------------------------------------------------------------------------
(***************************************************************************)
(* Nodes and their children.                                               *)
(***************************************************************************)
Entries   == [rel : DOMAIN Relations \cup {"root"}, row : Versions]
Parent(n) == SubSeq(n, 1, Len(n) - 1)

LEMMA NodeParts ==
    ASSUME NEW n \in Nodes
    PROVE  /\ n \in Seq(Entries) /\ Len(n) \in Nat \ {0}
           /\ Row(n) \in Versions
           /\ Len(n) > 1 =>
                 /\ Parent(n) \in Nodes /\ Len(Parent(n)) = Len(n) - 1
                 /\ \A j \in 1 .. Len(n) - 1 : Parent(n)[j] = n[j]
                 /\ n = Child(Parent(n), n[Len(n)].rel, Row(n))
<1>1. n \in Seq(Entries) /\ n # <<>>
  BY DEF Nodes, Entries
<1>2. Len(n) \in Nat \ {0} /\ n[Len(n)] \in Entries
  BY <1>1
<1>3. Row(n) \in Versions /\ Node(n[Len(n)].rel, Row(n)) = n[Len(n)]
  BY <1>2 DEF Row, Node, Entries
<1>4. ASSUME Len(n) > 1
      PROVE  /\ Parent(n) \in Nodes /\ Len(Parent(n)) = Len(n) - 1
             /\ \A j \in 1 .. Len(n) - 1 : Parent(n)[j] = n[j]
             /\ n = Child(Parent(n), n[Len(n)].rel, Row(n))
  <2>1. /\ Parent(n) \in Seq(Entries) /\ Len(Parent(n)) = Len(n) - 1
        /\ \A j \in 1 .. Len(n) - 1 : Parent(n)[j] = n[j]
    BY <1>1, <1>2, <1>4 DEF Parent
  <2>2. Parent(n) \in Nodes
    <3>1. Parent(n) # <<>>
      BY <1>2, <1>4, <2>1
    <3> QED  BY <2>1, <3>1 DEF Nodes, Entries
  <2> DEFINE front == Parent(n)
             last  == n[Len(n)]
  <2>3. Child(front, n[Len(n)].rel, Row(n)) = Append(front, last)
    BY <1>3 DEF Child
  <2> HIDE DEF front
  <2>4. Append(front, last) = n
    <3>1. /\ Append(front, last) \in Seq(Entries)
          /\ Len(Append(front, last)) = Len(n)
      BY <1>2, <2>1 DEF front
    <3>2. \A j \in 1 .. Len(n) : Append(front, last)[j] = n[j]
      BY <1>2, <2>1 DEF front
    <3> QED  BY <1>1, <3>1, <3>2, SeqEqual
  <2> QED  BY <2>1, <2>2, <2>3, <2>4 DEF front
<1> QED  BY <1>1, <1>2, <1>3, <1>4

LEMMA ChildParts ==
    ASSUME NEW p \in Nodes, NEW name \in DOMAIN Relations, NEW c \in Versions,
           NEW n, n = Child(p, name, c)
    PROVE  /\ n \in Nodes /\ Len(n) = Len(p) + 1
           /\ Row(n) = c /\ n[Len(p) + 1].rel = name
           /\ Parent(n) = p
           /\ \A j \in 1 .. Len(p) : n[j] = p[j]
<1>1. /\ n \in Nodes /\ Len(n) = Len(p) + 1 /\ Len(n) > 1
      /\ Row(n) = c /\ n[Len(n)].rel = name
  BY ChildNode
<1>2. p \in Seq(Entries) /\ Len(p) \in Nat \ {0} /\ Node(name, c) \in Entries
  BY NodeParts DEF Entries, Node
<1>3. \A j \in 1 .. Len(p) : n[j] = p[j]
  BY <1>2 DEF Child
<1>4. /\ Parent(n) \in Seq(Entries) /\ Len(Parent(n)) = Len(p)
      /\ \A j \in 1 .. Len(p) : Parent(n)[j] = p[j]
  BY <1>1, <1>2, <1>3, NodeParts
<1>5. Parent(n) = p
  BY <1>2, <1>4, SeqEqual
<1> QED  BY <1>1, <1>3, <1>5

\* The rows that hang below a node under a name.
HungBelow(nodes, n, name) == {c \in Versions : Child(n, name, c) \in nodes}

\* The relation `name` leads from node n to the node m.
Under(m, n, name) ==
    /\ Len(m) > Len(n) /\ m[Len(n) + 1].rel = name
    /\ \A j \in 1 .. Len(n) : m[j] = n[j]

\* Of the nodes below n, those one level down are its children.
LEMMA LevelBelow ==
    ASSUME NEW nodes, nodes \subseteq Nodes, NEW n \in Nodes, NEW name,
           NEW m \in Below(nodes, n, name)
    PROVE  /\ m \in nodes /\ m \in Nodes /\ Under(m, n, name)
           /\ Len(m) = Len(n) + 1 => m = Child(n, name, Row(m))
<1>0. n \in Seq(Entries) /\ Len(n) \in Nat \ {0}
  BY NodeParts
<1>1. /\ m \in nodes /\ Len(m) > Len(n) /\ SubSeq(m, 1, Len(n)) = n
      /\ m[Len(n) + 1].rel = name
  BY DEF Below
<1>2. m \in Nodes /\ m \in Seq(Entries) /\ Len(m) \in Nat \ {0}
  BY <1>1, NodeParts
<1>3. \A j \in 1 .. Len(n) : m[j] = SubSeq(m, 1, Len(n))[j]
  BY <1>0, <1>1, <1>2
<1>4. \A j \in 1 .. Len(n) : m[j] = n[j]
  BY <1>1, <1>3
<1>5. ASSUME Len(m) = Len(n) + 1
      PROVE  m = Child(n, name, Row(m))
  <2>1. Parent(m) = n
    BY <1>0, <1>1, <1>5 DEF Parent
  <2>2. m = Child(Parent(m), m[Len(m)].rel, Row(m))
    BY <1>0, <1>1, <1>2, NodeParts
  <2> QED  BY <1>1, <1>5, <2>1, <2>2
<1> QED  BY <1>1, <1>2, <1>4, <1>5 DEF Under

LEMMA ChildIsBelow ==
    ASSUME NEW nodes, NEW n \in Nodes, NEW name \in DOMAIN Relations,
           NEW c \in Versions, Child(n, name, c) \in nodes
    PROVE  Child(n, name, c) \in Below(nodes, n, name)
<1> DEFINE m == Child(n, name, c)
<1>0. Len(n) \in Nat \ {0}
  BY NodeParts
<1>1. Len(m) = Len(n) + 1 /\ Parent(m) = n /\ m[Len(n) + 1].rel = name
  BY ChildParts
<1>2. m \in nodes
  OBVIOUS
<1> HIDE DEF m
<1>3. Len(m) > Len(n) /\ SubSeq(m, 1, Len(n)) = n
  BY <1>0, <1>1 DEF Parent
<1>4. m \in Below(nodes, n, name)
  BY <1>1, <1>2, <1>3 DEF Below
<1> QED  BY <1>4 DEF m

LEMMA LoadedBelow ==
    ASSUME NEW nodes, nodes \subseteq Nodes, NEW n \in Nodes,
           NEW name \in DOMAIN Relations
    PROVE  {Row(m) : m \in {m \in Below(nodes, n, name) : Len(m) = Len(n) + 1}}
              = HungBelow(nodes, n, name)
<1>1. ASSUME NEW m \in Below(nodes, n, name), Len(m) = Len(n) + 1
      PROVE  Row(m) \in HungBelow(nodes, n, name)
  <2>1. m \in nodes /\ m \in Nodes /\ m = Child(n, name, Row(m))
    BY <1>1, LevelBelow
  <2>2. Row(m) \in Versions
    BY <2>1, NodeParts
  <2> QED  BY <2>1, <2>2 DEF HungBelow
<1>2. ASSUME NEW c \in HungBelow(nodes, n, name)
      PROVE  \E m \in Below(nodes, n, name) : Len(m) = Len(n) + 1 /\ Row(m) = c
  <2>1. c \in Versions /\ Child(n, name, c) \in nodes
    BY DEF HungBelow
  <2> QED  BY <2>1, ChildIsBelow, ChildParts
<1> QED  BY <1>1, <1>2

-----------------------------------------------------------------------------
(***************************************************************************)
(* The order of the walk.  Load a of the query is at its step s: what the  *)
(* tree holds was hung by earlier loads, or by earlier steps of this one,  *)
(* or below the parents whose morph type is loaded.                        *)
(***************************************************************************)
\* The relations that lead to node n are the first of the load's path.
Along(n, with) == \A j \in 2 .. Len(n) : n[j].rel = with.path[j - 1]

MorphLoading == phase = "load" /\ Relations[path[1]].kind = "morphTo"
TypeDone(p)  == Row(p).col[Relations[path[1]].typeCol] \in types

InOrder(query, a, s) ==
    \A n \in tree : Len(n) > 1 =>
        \E w \in 1 .. Len(query.withs) :
            /\ w <= a /\ Along(n, query.withs[w])
            /\ w = a => \/ Len(n) <= s
                        \/ Len(n) = s + 1 /\ MorphLoading /\ TypeDone(Parent(n))

OnCourse(query, a, s) ==
    /\ a \in 1 .. Len(query.withs) /\ s \in 1 .. Len(query.withs[a].path)
    /\ Len(withs) = Len(query.withs) - a + 1
    /\ \A j \in 1 .. Len(withs) : withs[j] = query.withs[a + j - 1]
    /\ Len(path) = Len(query.withs[a].path) - s + 1
    /\ \A j \in 1 .. Len(path) : path[j] = query.withs[a].path[s + j - 1]
    /\ parents = Starts(query.withs[a], s)
    /\ InOrder(query, a, s)
    /\ types # {} => MorphLoading

\* The assumption for what is loaded: no two paths of a query begin with the
\* same relation, as the second replaces what the first hung.
PathsApart ==
    \A query \in Requests : \A v, w \in 1 .. Len(query.withs) :
        query.withs[v].path[1] = query.withs[w].path[1] => v = w

\* And the second: a through key is of one row of its table, as the map of
\* through keys has one parent for each.
ThroughKeysApart ==
    \A name \in DOMAIN Relations :
        LET rel == Relations[name] IN
        rel.kind \in ThroughKinds =>
            \A v, w \in Versions :
               /\ v.table = rel.via /\ w.table = rel.via
               /\ v.col[rel.viaRelated] = w.col[rel.viaRelated]
               => Key(v) = Key(w)

\* Then the map loses no row.
LEMMA MappedKeeps ==
    ASSUME NEW kind, NEW read, NEW kept \in Mapped(kind, read),
           kind \in ThroughKinds =>
               \A p1, p2 \in read : p1.related = p2.related => p1 = p2
    PROVE  kept = read
<1>1. CASE kind \notin ThroughKinds
  BY <1>1 DEF Mapped
<1>2. CASE kind \in ThroughKinds
  <2>1. kept \subseteq read
    BY <1>2 DEF Mapped
  <2>2. ASSUME NEW pr \in read PROVE pr \in kept
    <3> DEFINE same == {k \in kept : k.related = pr.related}
    <3>1. Cardinality(same) = 1
      BY <1>2 DEF Mapped
    <3>2. same # {}
      <4> HIDE DEF same
      <4> QED  BY <3>1, FS_EmptySet
    <3>3. PICK k \in kept : k.related = pr.related
      BY <3>2
    <3> QED  BY <1>2, <2>1, <3>3
  <2> QED  BY <2>1, <2>2
<1> QED  BY <1>1, <1>2

\* Where the walk is.
LEMMA Position ==
    ASSUME ConstraintsSayAnd, NEW query \in Requests, NEW a, NEW s,
           OnCourse(query, a, s), LoadInv, Walking
    PROVE  /\ a \in 1 .. Len(query.withs) /\ Len(query.withs) \in Nat
           /\ query.withs[a] \in AndLoads /\ withs[1] = query.withs[a]
           /\ Len(query.withs[a].path) \in Nat
           /\ s \in 1 .. Len(query.withs[a].path)
           /\ path[1] = query.withs[a].path[s] /\ path[1] \in DOMAIN Relations
           /\ Len(path) = 1 <=> s = Len(query.withs[a].path)
           /\ Len(path) \in Nat \ {0} /\ Len(withs) \in Nat \ {0}
<1>1. /\ query.withs \in Seq(AndLoads) /\ a \in 1 .. Len(query.withs)
      /\ s \in 1 .. Len(query.withs[a].path)
  BY DEF ConstraintsSayAnd, OnCourse
<1>2. query.withs[a] \in AndLoads /\ Len(query.withs) \in Nat
  BY <1>1
<1>3. Len(query.withs[a].path) \in Nat
  BY <1>2 DEF AndLoads
<1>4. /\ path # <<>> /\ path \in Seq(DOMAIN Relations)
      /\ withs # <<>> /\ withs \in Seq(AndLoads)
  BY DEF LoadInv, TypeOK, Walking
<1>5. /\ Len(path) \in Nat \ {0} /\ path[1] \in DOMAIN Relations
      /\ Len(withs) \in Nat \ {0}
  BY <1>4
<1>6. withs[1] = query.withs[a]
  <2>1. 1 \in 1 .. Len(withs) /\ a + 1 - 1 = a
    BY <1>1, <1>2, <1>5
  <2> QED  BY <2>1 DEF OnCourse
<1>7. path[1] = query.withs[a].path[s]
  <2>1. 1 \in 1 .. Len(path) /\ s + 1 - 1 = s
    BY <1>1, <1>3, <1>5
  <2> QED  BY <2>1 DEF OnCourse
<1>8. Len(path) = 1 <=> s = Len(query.withs[a].path)
  BY <1>1, <1>3 DEF OnCourse
<1> QED  BY <1>1, <1>2, <1>3, <1>5, <1>6, <1>7, <1>8

\* A node that begins with the first relation of load a is none of another's.
LEMMA OneLoad ==
    ASSUME PathsApart, NEW query \in Requests, NEW a \in 1 .. Len(query.withs),
           NEW w \in 1 .. Len(query.withs), NEW n \in Nodes, Len(n) > 1,
           n[2].rel = query.withs[a].path[1], Along(n, query.withs[w])
    PROVE  w = a
<1>1. 2 \in 2 .. Len(n) /\ 2 - 1 = 1
  BY NodeParts
<1>2. n[2].rel = query.withs[w].path[1]
  BY <1>1 DEF Along
<1> QED  BY <1>2 DEF PathsApart

\* A node below a parent, through the current relation.
BelowParent(n, p) == p \in parents /\ Under(n, p, path[1])

LEMMA BelowParents ==
    ASSUME ConstraintsSayAnd, NEW query \in Requests, NEW a, NEW s,
           OnCourse(query, a, s), LoadInv, Walking,
           NEW n \in Nodes, NEW p, BelowParent(n, p)
    PROVE  /\ p \in Nodes /\ Len(p) = s /\ Len(n) > 1
           /\ n[2].rel = query.withs[a].path[1]
           /\ Len(n) = s + 1 => Along(n, query.withs[a])
<1> DEFINE load == query.withs[a].path
<1>1. /\ s \in 1 .. Len(load) /\ Len(load) \in Nat /\ path[1] = load[s]
  BY Position
<1>2. p \in Nodes /\ Len(p) = s /\ Along(p, query.withs[a])
  BY DEF OnCourse, BelowParent, Starts, Along, LoadInv, TypeOK
<1>3. Len(n) \in Nat
  BY NodeParts
<1>4. /\ n[s + 1].rel = load[s] /\ Len(n) > s
      /\ \A j \in 2 .. s : n[j].rel = load[j - 1]
  <2>1. \A j \in 2 .. s : n[j] = p[j]
    BY <1>1, <1>2 DEF BelowParent, Under
  <2>2. \A j \in 2 .. s : p[j].rel = load[j - 1]
    BY <1>2 DEF Along
  <2> QED  BY <1>1, <1>2, <2>1, <2>2 DEF BelowParent, Under
<1> HIDE DEF load
<1>5. n[2].rel = load[1]
  BY <1>1, <1>4
<1>6. Len(n) = s + 1 => \A j \in 2 .. Len(n) : n[j].rel = load[j - 1]
  BY <1>1, <1>4
<1> QED  BY <1>1, <1>2, <1>3, <1>4, <1>5, <1>6 DEF load, Along

\* Nothing hangs yet where the current relation is to be loaded.
LEMMA Fresh ==
    ASSUME ConstraintsSayAnd, PathsApart,
           NEW query \in Requests, NEW a, NEW s, OnCourse(query, a, s),
           LoadInv, Walking, NEW p \in parents, ~(MorphLoading /\ TypeDone(p))
    PROVE  Below(tree, p, path[1]) = {}
<1> SUFFICES ASSUME NEW n \in Below(tree, p, path[1]) PROVE FALSE
  OBVIOUS
<1>1. p \in Nodes /\ tree \subseteq Nodes
  BY DEF LoadInv, TypeOK
<1>2. /\ n \in tree /\ n \in Nodes /\ BelowParent(n, p)
      /\ Len(n) = Len(p) + 1 => n = Child(p, path[1], Row(n))
  <2>1. /\ n \in tree /\ n \in Nodes /\ Under(n, p, path[1])
        /\ Len(n) = Len(p) + 1 => n = Child(p, path[1], Row(n))
    BY <1>1, LevelBelow
  <2> QED  BY <2>1 DEF BelowParent
<1>3. /\ Len(p) = s /\ Len(n) > 1 /\ n[2].rel = query.withs[a].path[1]
  <2>1. n \in Nodes /\ BelowParent(n, p)
    BY <1>2
  <2> QED  BY <2>1, BelowParents
<1>4. a \in 1 .. Len(query.withs) /\ path[1] \in DOMAIN Relations
      /\ s \in 1 .. Len(query.withs[a].path) /\ Len(query.withs[a].path) \in Nat
  BY Position
<1>5. PICK w \in 1 .. Len(query.withs) :
         /\ Along(n, query.withs[w])
         /\ w = a => \/ Len(n) <= s
                     \/ Len(n) = s + 1 /\ MorphLoading /\ TypeDone(Parent(n))
  BY <1>2, <1>3 DEF OnCourse, InOrder
<1>6. w = a
  BY <1>2, <1>3, <1>4, <1>5, OneLoad
<1>7. Len(n) > s /\ Len(n) \in Nat
  BY <1>2, <1>3, NodeParts DEF BelowParent, Under
<1>8. Len(n) = s + 1 /\ MorphLoading /\ TypeDone(Parent(n))
  BY <1>4, <1>5, <1>6, <1>7
<1>9. Parent(n) = p
  <2>1. n = Child(p, path[1], Row(n)) /\ Row(n) \in Versions
    BY <1>2, <1>3, <1>8, NodeParts
  <2> QED  BY <1>1, <1>4, <2>1, ChildParts
<1> QED  BY <1>8, <1>9

-----------------------------------------------------------------------------
(***************************************************************************)
(* What a loaded relation adds to the tree.                                *)
(***************************************************************************)
\* Each parent is given all it was found, or one of it if a single field.
Gives(name, found, given) ==
    /\ given \in [parents -> SUBSET Versions]
    /\ \A p \in parents :
          /\ given[p] \subseteq found[p]
          /\ IF Single(name)
             THEN /\ Cardinality(given[p]) <= 1
                  /\ found[p] # {} => given[p] # {}
             ELSE given[p] = found[p]
    /\ tree' = tree \cup UNION {{Child(p, name, c) : c \in given[p]} : p \in parents}

LEMMA Grown ==
    ASSUME NEW name, NEW found \in [parents -> SUBSET Versions],
           \A p \in parents : \/ Below(tree, p, name) = {}
                              \/ Single(name) /\ found[p] = {},
           tree' \in Assigned(name, found)
    PROVE  \E given : Gives(name, found, given)
<1>1. CASE Single(name)
  <2> DEFINE set == {p \in parents : found[p] # {}}
  <2>0. {p \in parents : Single(name) => found[p] # {}} = set
    BY <1>1
  <2>1. PICK given \in [parents -> SUBSET UNION {found[p] : p \in parents}] :
           /\ \A p \in parents :
                 /\ given[p] \subseteq found[p]
                 /\ Cardinality(given[p]) = IF found[p] = {} THEN 0 ELSE 1
           /\ tree' = (tree \ UNION {Below(tree, p, name) : p \in set})
                         \cup UNION {{Child(p, name, c) : c \in given[p]} : p \in set}
    <3> HIDE DEF set
    <3> QED  BY <1>1, <2>0 DEF Assigned
  <2>2. given \in [parents -> SUBSET Versions]
    BY <2>1
  <2>3. UNION {Below(tree, p, name) : p \in set} = {}
    OBVIOUS
  <2>4. \A p \in parents : p \notin set => given[p] = {}
    BY <2>1
  <2>5. ASSUME NEW p \in parents
        PROVE  /\ Cardinality(given[p]) <= 1
               /\ found[p] # {} => given[p] # {}
    <3>1. Cardinality(given[p]) = IF found[p] = {} THEN 0 ELSE 1
      BY <2>1
    <3>2. Cardinality({}) = 0
      BY FS_EmptySet
    <3>3. CASE found[p] = {}
      BY <3>1, <3>3
    <3>4. CASE found[p] # {}
      <4>1. Cardinality(given[p]) = 1
        BY <3>1, <3>4
      <4>2. given[p] # {}
        <5>1. 0 # 1
          OBVIOUS
        <5> QED  BY <3>2, <4>1, <5>1, Zenon
      <4> QED  BY <4>1, <4>2
    <3> QED  BY <3>3, <3>4
  <2>6. UNION {{Child(p, name, c) : c \in given[p]} : p \in set}
           = UNION {{Child(p, name, c) : c \in given[p]} : p \in parents}
    BY <2>4
  <2> HIDE DEF set
  <2>7. tree' = tree \cup
                   UNION {{Child(p, name, c) : c \in given[p]} : p \in parents}
    BY <2>1, <2>3, <2>6
  <2>8. Gives(name, found, given)
    BY <1>1, <2>1, <2>2, <2>5, <2>7 DEF Gives
  <2> QED  BY <2>8
<1>2. CASE ~Single(name)
  <2>1. tree' = (tree \ UNION {Below(tree, p, name) : p \in parents})
                   \cup UNION {{Child(p, name, c) : c \in found[p]} : p \in parents}
    <3>1. {p \in parents : Single(name) => found[p] # {}} = parents
      BY <1>2
    <3> QED  BY <1>2, <3>1 DEF Assigned
  <2>2. UNION {Below(tree, p, name) : p \in parents} = {}
    BY <1>2
  <2>3. Gives(name, found, found)
    BY <1>2, <2>1, <2>2 DEF Gives
  <2> QED  BY <2>3
<1> QED  BY <1>1, <1>2

\* What hangs below a node afterwards.
LEMMA HungAfter ==
    ASSUME NEW name \in DOMAIN Relations, NEW found, NEW given,
           Gives(name, found, given), parents \subseteq Nodes,
           NEW n \in Nodes, NEW other \in DOMAIN Relations
    PROVE  /\ n \notin parents \/ other # name =>
                 HungBelow(tree', n, other) = HungBelow(tree, n, other)
           /\ n \in parents =>
                 HungBelow(tree', n, name) = HungBelow(tree, n, name) \cup given[n]
<1>1. /\ given \in [parents -> SUBSET Versions]
      /\ tree' = tree \cup
                    UNION {{Child(p, name, c) : c \in given[p]} : p \in parents}
  BY DEF Gives
<1>2. ASSUME NEW c \in Versions, NEW p \in parents, NEW d \in given[p],
             NEW r \in DOMAIN Relations, Child(n, r, c) = Child(p, name, d)
      PROVE  n = p /\ r = name /\ c = d
  <2>1. p \in Nodes /\ d \in Versions
    BY <1>1
  <2>2. /\ Parent(Child(n, r, c)) = n /\ Row(Child(n, r, c)) = c
        /\ Child(n, r, c)[Len(n) + 1].rel = r
    BY ChildParts
  <2>3. /\ Parent(Child(p, name, d)) = p /\ Row(Child(p, name, d)) = d
        /\ Child(p, name, d)[Len(p) + 1].rel = name
    BY <2>1, ChildParts
  <2> QED  BY <1>2, <2>2, <2>3
<1>3. ASSUME n \notin parents \/ other # name
      PROVE  HungBelow(tree', n, other) = HungBelow(tree, n, other)
  BY <1>1, <1>2, <1>3 DEF HungBelow
<1>4. ASSUME n \in parents
      PROVE  HungBelow(tree', n, name) = HungBelow(tree, n, name) \cup given[n]
  <2>1. given[n] \subseteq Versions
    BY <1>1, <1>4
  <2>2. \A c \in given[n] : Child(n, name, c) \in tree'
    BY <1>1, <1>4
  <2>3. \A c \in Versions : Child(n, name, c) \in tree' =>
            Child(n, name, c) \in tree \/ c \in given[n]
    BY <1>1, <1>2
  <2>4. tree \subseteq tree'
    BY <1>1
  <2> QED  BY <2>1, <2>2, <2>3, <2>4 DEF HungBelow
<1> QED  BY <1>3, <1>4

LEMMA NothingHung ==
    ASSUME NEW n \in Nodes, NEW name \in DOMAIN Relations,
           Below(tree, n, name) = {}
    PROVE  HungBelow(tree, n, name) = {}
BY ChildIsBelow DEF HungBelow

LEMMA LoadedIsHung ==
    ASSUME NEW n \in Nodes, NEW name \in DOMAIN Relations
    PROVE  /\ tree \subseteq Nodes => Loaded(n, name) = HungBelow(tree, n, name)
           /\ tree' \subseteq Nodes => Loaded(n, name)' = HungBelow(tree', n, name)
<1>1. tree \subseteq Nodes => Loaded(n, name) = HungBelow(tree, n, name)
  BY LoadedBelow DEF Loaded
<1>2. tree' \subseteq Nodes => Loaded(n, name)' = HungBelow(tree', n, name)
  BY LoadedBelow DEF Loaded
<1> QED  BY <1>1, <1>2

-----------------------------------------------------------------------------
(***************************************************************************)
(* What the queries find is what a step is to hang.                        *)
(***************************************************************************)
\* A clause before the constraint's is one more test.
LEMMA OneMore ==
    ASSUME NEW rows \in SUBSET Versions, NEW closure \in AndClauses, NEW r
    PROVE  /\ <<And(rows)>> \o closure \in AndClauses
           /\ Satisfies(<<And(rows)>> \o closure, r)
                 <=> r \in rows /\ Satisfies(closure, r)
<1> DEFINE T     == [boolean : {"AND"}, test : SUBSET Versions]
           first == And(rows)
<1>1. first \in T /\ first.test = rows
  BY DEF And
<1>2. closure \in Seq(T)
  BY DEF AndClauses
<1>3. \A clause \in T : clause.boolean = "AND"
  OBVIOUS
<1> HIDE DEF first, T
<1>4. <<first>> \in Seq(T) /\ Len(<<first>>) = 1 /\ <<first>>[1] = first
  BY <1>1
<1>5. AllAnd(<<first>>)
  BY <1>1, <1>3, <1>4 DEF AllAnd
<1>6. AllAnd(closure)
  <2>1. \A i \in 1 .. Len(closure) : closure[i] \in T
    BY <1>2
  <2> QED  BY <1>3, <2>1 DEF AllAnd
<1>7. Satisfies(<<first>>, r) <=> r \in rows
  <2>1. Satisfies(<<first>>, r) <=>
            \A i \in 1 .. Len(<<first>>) : r \in <<first>>[i].test
    BY <1>4, <1>5, AndLists
  <2> QED  BY <1>1, <1>4, <2>1
<1>8. Satisfies(<<first>> \o closure, r)
         <=> r \in rows /\ Satisfies(closure, r)
  BY <1>2, <1>4, <1>5, <1>6, <1>7, AndConcat
<1>9. <<first>> \o closure \in Seq(T)
  BY <1>2, <1>4
<1> QED  BY <1>8, <1>9 DEF first, T, AndClauses

LEMMA RelatedExactly ==
    ASSUME store \subseteq Versions,
           NEW table, NEW column, NEW keys, NEW closure \in AndClauses
    PROVE  QueryRelated(table, column, keys, closure)
              = {r \in store : /\ r.table = table /\ r.col[column] \in keys
                               /\ r.live /\ Satisfies(closure, r)}
<1> DEFINE rows == {r \in Table(table) : r.col[column] \in keys}
<1>1. rows \in SUBSET Versions /\ WhereIn(Table(table), column, keys) = And(rows)
  BY DEF Table, WhereIn
<1> HIDE DEF rows
<1>2. QueryRelated(table, column, keys, closure)
         = {r \in Matching(<<And(rows)>> \o closure, Table(table)) : r.live}
  BY <1>1 DEF QueryRelated
<1>3. \A r : Satisfies(<<And(rows)>> \o closure, r)
                <=> r \in rows /\ Satisfies(closure, r)
  BY <1>1, OneMore
<1> QED  BY <1>2, <1>3 DEF Matching, Table, rows

LEMMA MorphMeans ==
    ASSUME NEW rel, rel.typed \subseteq Versions, NEW closure \in AndClauses,
           NEW r
    PROVE  /\ MorphClosure(rel, closure) \in AndClauses
           /\ Satisfies(MorphClosure(rel, closure), r)
                 <=> r \in rel.typed /\ Satisfies(closure, r)
BY OneMore DEF MorphClosure

LEMMA ClosureMeans ==
    ASSUME ConstraintsSayAnd, NEW query \in Requests, NEW a, NEW s,
           OnCourse(query, a, s), LoadInv, Walking, NEW r
    PROVE  Satisfies(Closure, r) <=>
              (s = Len(query.withs[a].path) => Satisfies(query.withs[a].closure, r))
<1>1. withs[1] = query.withs[a] /\ (Len(path) = 1 <=> s = Len(query.withs[a].path))
  BY Position
<1>2. Satisfies(<<>>, r)
  BY DEF Satisfies
<1> QED  BY <1>1, <1>2 DEF Closure

\* The rows found for a row suffice for its slice, and each of them will do.
Meets(with, i, row, rows) ==
    LET rel == Relations[with.path[i]]
    IN  rel.comparable =>
        /\ Due(with, i, row) \subseteq rows
        /\ \A c \in rows :
              \/ ~Steady(c)
              \/ rel.kind \in PivotKinds /\ \E k \in touched : k[1] = rel.via
              \/ c \in Wanted(with, i, row)

LEMMA DirectMeets ==
    ASSUME ConstraintsSayAnd, NEW query \in Requests, NEW a, NEW s,
           OnCourse(query, a, s), LoadInv, Walking,
           Relations[path[1]].kind \in DirectKinds, NEW p \in parents
    PROVE  LET rel     == Relations[path[1]]
               related == QueryRelated(rel.table, rel.foreign,
                                       DistinctKeys(parents, rel.local),
                                       MorphClosure(rel, Closure))
           IN  Meets(query.withs[a], s, Row(p),
                     {c \in related : SameKey(rel, c.col[rel.foreign],
                                              Row(p).col[rel.local])})
<1> DEFINE rel     == Relations[path[1]]
           related == QueryRelated(rel.table, rel.foreign,
                                   DistinctKeys(parents, rel.local),
                                   MorphClosure(rel, Closure))
           with    == query.withs[a]
           found   == {c \in related : SameKey(rel, c.col[rel.foreign],
                                               Row(p).col[rel.local])}
<1>1. /\ path[1] = with.path[s] /\ store \subseteq Versions
      /\ rel.kind \notin PivotKinds /\ rel.kind # "morphTo"
      /\ Closure \in AndClauses
  BY Position, Current DEF DirectKinds, PivotKinds
<1>2. rel.typed \subseteq Versions
  BY <1>1, Current
<1>3. related = {r \in store : /\ r.table = rel.table
                               /\ r.col[rel.foreign] \in DistinctKeys(parents, rel.local)
                               /\ r.live /\ Satisfies(MorphClosure(rel, Closure), r)}
  <2> HIDE DEF rel
  <2> QED  BY <1>1, <1>2, RelatedExactly, MorphMeans
<1>4. \A r : Satisfies(MorphClosure(rel, Closure), r) <=>
                r \in rel.typed
                /\ (s = Len(with.path) => Satisfies(with.closure, r))
  <2> HIDE DEF rel
  <2> QED  BY <1>1, <1>2, MorphMeans, ClosureMeans
<1>5. Row(p).col[rel.local] \in DistinctKeys(parents, rel.local)
  BY DEF DistinctKeys
<1>6. rel.comparable => found = Wanted(with, s, Row(p))
  <2>1. \A c : Linked(rel, Row(p), c, store) <=>
                  /\ c.table = rel.table /\ c \in rel.typed
                  /\ c.col[rel.foreign] = Row(p).col[rel.local]
    <3> HIDE DEF rel
    <3> QED  BY <1>1 DEF Linked, rel
  <2>2. Wanted(with, s, Row(p)) =
           {c \in store : /\ c.live /\ Linked(rel, Row(p), c, store)
                          /\ s = Len(with.path) => Satisfies(with.closure, c)}
    BY <1>1 DEF Wanted
  <2> HIDE DEF rel, related, with
  <2> QED  BY <1>3, <1>4, <1>5, <2>1, <2>2 DEF SameKey
<1>7. Due(with, s, Row(p)) \subseteq Wanted(with, s, Row(p))
  BY DEF Due
<1> HIDE DEF found, with
<1> QED  BY <1>1, <1>6, <1>7 DEF Meets, found, with

\* The pairs that were read are the join table's, but for what others wrote.
PairsTrue ==
    phase = "related" =>
        LET rel == Relations[path[1]] IN
        /\ \A p \in parents, v \in store :
              /\ Steady(v) /\ v.table = rel.via /\ v \in rel.typed
              /\ v.col[rel.viaParent] = Row(p).col[rel.local]
              => [parent |-> v.col[rel.viaParent],
                  related |-> v.col[rel.viaRelated]] \in pairs
        /\ \A pr \in pairs :
              \/ \E k \in touched : k[1] = rel.via
              \/ \E v \in store : /\ v.table = rel.via /\ v \in rel.typed
                                  /\ v.col[rel.viaParent] = pr.parent
                                  /\ v.col[rel.viaRelated] = pr.related

LEMMA PivotMeets ==
    ASSUME ConstraintsSayAnd, NEW query \in Requests, NEW a, NEW s,
           OnCourse(query, a, s), LoadInv, phase = "related", PairsTrue,
           NEW p \in parents
    PROVE  LET rel     == Relations[path[1]]
               related == QueryRelated(rel.table, rel.foreign,
                                       {pr.related : pr \in pairs}, Closure)
           IN  Meets(query.withs[a], s, Row(p),
                     {c \in related : \E pr \in pairs :
                        /\ SameKey(rel, pr.parent, Row(p).col[rel.local])
                        /\ SameKey(rel, pr.related, c.col[rel.foreign])})
<1> DEFINE rel     == Relations[path[1]]
           related == QueryRelated(rel.table, rel.foreign,
                                   {pr.related : pr \in pairs}, Closure)
           with    == query.withs[a]
           found   == {c \in related : \E pr \in pairs :
                        /\ SameKey(rel, pr.parent, Row(p).col[rel.local])
                        /\ SameKey(rel, pr.related, c.col[rel.foreign])}
<1>0. Walking
  BY DEF Walking
<1>1. /\ path[1] = with.path[s] /\ store \subseteq Versions
      /\ Closure \in AndClauses
  BY <1>0, Position, Current
<1>2. rel.kind \in PivotKinds /\ rel.kind \notin DirectKinds
  BY DEF LoadInv, PairsStored, DirectKinds, PivotKinds
<1>3. related = {r \in store : /\ r.table = rel.table
                               /\ r.col[rel.foreign] \in {pr.related : pr \in pairs}
                               /\ r.live /\ Satisfies(Closure, r)}
  <2> HIDE DEF rel
  <2> QED  BY <1>1, RelatedExactly
<1>4. \A r : Satisfies(Closure, r) <=>
                (s = Len(with.path) => Satisfies(with.closure, r))
  BY <1>0, ClosureMeans
<1>5. \A c : Linked(rel, Row(p), c, store) <=>
                /\ c.table = rel.table
                /\ \E v \in store : Connects(rel, v, Row(p), c)
  <2> SUFFICES ASSUME NEW c
               PROVE  Linked(rel, Row(p), c, store) <=>
                         /\ c.table = rel.table
                         /\ \E v \in store : Connects(rel, v, Row(p), c)
    OBVIOUS
  <2> HIDE DEF rel
  <2> QED  BY <1>2 DEF Linked, DirectKinds, PivotKinds
<1>6. Wanted(with, s, Row(p)) =
         {c \in store : /\ c.live /\ Linked(rel, Row(p), c, store)
                        /\ s = Len(with.path) => Satisfies(with.closure, c)}
  BY <1>1 DEF Wanted
<1>7. Due(with, s, Row(p)) =
         {c \in Wanted(with, s, Row(p)) : /\ Steady(c)
              /\ \E v \in store : Steady(v) /\ Connects(rel, v, Row(p), c)}
  BY <1>1, <1>2 DEF Due
<1>8. /\ \A v \in store :
            /\ Steady(v) /\ v.table = rel.via /\ v \in rel.typed
            /\ v.col[rel.viaParent] = Row(p).col[rel.local]
            => [parent |-> v.col[rel.viaParent],
                related |-> v.col[rel.viaRelated]] \in pairs
      /\ \A pr \in pairs :
            \/ \E k \in touched : k[1] = rel.via
            \/ \E v \in store : /\ v.table = rel.via /\ v \in rel.typed
                                /\ v.col[rel.viaParent] = pr.parent
                                /\ v.col[rel.viaRelated] = pr.related
  BY DEF PairsTrue
<1> HIDE DEF rel, related, with
<1>9. ASSUME rel.comparable, NEW c \in Due(with, s, Row(p))
      PROVE  c \in found
  <2>1. PICK v \in store : Steady(v) /\ Connects(rel, v, Row(p), c)
    BY <1>7
  <2> DEFINE pr == [parent |-> v.col[rel.viaParent],
                    related |-> v.col[rel.viaRelated]]
  <2>2. /\ pr \in pairs /\ pr.parent = Row(p).col[rel.local]
        /\ pr.related = c.col[rel.foreign]
    BY <1>8, <2>1 DEF Connects
  <2>3. /\ c \in store /\ c.table = rel.table /\ c.live
        /\ s = Len(with.path) => Satisfies(with.closure, c)
    BY <1>5, <1>6, <1>7
  <2> HIDE DEF pr
  <2>4. c \in related
    BY <1>3, <1>4, <2>2, <2>3
  <2> QED  BY <1>9, <2>2, <2>4 DEF SameKey
<1>10. ASSUME NEW c \in found, ~\E k \in touched : k[1] = rel.via
       PROVE  c \in Wanted(with, s, Row(p))
  <2>1. PICK pr \in pairs : /\ c \in related
                            /\ pr.parent = Row(p).col[rel.local]
                            /\ pr.related = c.col[rel.foreign]
    BY DEF SameKey
  <2>2. \E v \in store : Connects(rel, v, Row(p), c)
    BY <1>8, <1>10, <2>1 DEF Connects
  <2> QED  BY <1>3, <1>4, <1>5, <1>6, <2>1, <2>2
<1>11. with.path[s] = path[1] /\ Relations[path[1]] = rel
  BY <1>1 DEF rel
<1> HIDE DEF found
<1>12. Meets(with, s, Row(p), found)
  BY <1>2, <1>9, <1>10, <1>11 DEF Meets
<1> QED  BY <1>12 DEF found, related, with, rel

\* What LoadMorphOwners assigns to node p of those that name a type.
OwnerOf(type, p) ==
    LET rel    == Relations[path[1]]
        group  == {q \in parents : Row(q).col[rel.typeCol] = type}
        owners == QueryRelated(rel.owners[type], "id",
                               DistinctKeys(group, rel.idCol), Closure)
    IN  {o \in owners : p \in group /\ SameKey(rel, o.col.id, Row(p).col[rel.idCol])}

LEMMA MorphMeets ==
    ASSUME ConstraintsSayAnd, NEW query \in Requests, NEW a, NEW s,
           OnCourse(query, a, s), LoadInv, Walking,
           Relations[path[1]].kind = "morphTo",
           NEW type \in DOMAIN Relations[path[1]].owners, NEW p \in parents,
           Row(p).col[Relations[path[1]].typeCol] = type
    PROVE  Meets(query.withs[a], s, Row(p), OwnerOf(type, p))
<1> DEFINE rel    == Relations[path[1]]
           group  == {q \in parents : Row(q).col[rel.typeCol] = type}
           owners == QueryRelated(rel.owners[type], "id",
                                  DistinctKeys(group, rel.idCol), Closure)
           with   == query.withs[a]
           found  == {o \in owners : p \in group /\
                        SameKey(rel, o.col.id, Row(p).col[rel.idCol])}
<1>1. /\ path[1] = with.path[s] /\ store \subseteq Versions
      /\ Closure \in AndClauses
      /\ rel.kind \notin PivotKinds /\ rel.kind \notin DirectKinds
  BY Position, Current DEF DirectKinds, PivotKinds
<1>2. owners = {r \in store : /\ r.table = rel.owners[type]
                              /\ r.col.id \in DistinctKeys(group, rel.idCol)
                              /\ r.live /\ Satisfies(Closure, r)}
  <2> HIDE DEF rel
  <2> QED  BY <1>1, RelatedExactly
<1>3. \A r : Satisfies(Closure, r) <=>
                (s = Len(with.path) => Satisfies(with.closure, r))
  BY ClosureMeans
<1>4. p \in group /\ Row(p).col[rel.idCol] \in DistinctKeys(group, rel.idCol)
  BY DEF DistinctKeys
<1>5. \A c : Linked(rel, Row(p), c, store) <=>
                /\ c.table = rel.owners[type]
                /\ c.col.id = Row(p).col[rel.idCol]
  <2>1. rel.kind = "morphTo" /\ Row(p).col[rel.typeCol] = type
        /\ type \in DOMAIN rel.owners
    OBVIOUS
  <2> HIDE DEF rel
  <2> QED  BY <1>1, <2>1 DEF Linked
<1>6. Wanted(with, s, Row(p)) =
         {c \in store : /\ c.live /\ Linked(rel, Row(p), c, store)
                        /\ s = Len(with.path) => Satisfies(with.closure, c)}
  BY <1>1 DEF Wanted
<1>7. Due(with, s, Row(p)) \subseteq Wanted(with, s, Row(p))
  BY DEF Due
<1>8. with.path[s] = path[1] /\ Relations[path[1]] = rel
  BY <1>1
<1> HIDE DEF rel, owners, with, group
<1>9. rel.comparable => found = Wanted(with, s, Row(p))
  BY <1>2, <1>3, <1>4, <1>5, <1>6 DEF SameKey
<1> HIDE DEF found
<1>10. Meets(with, s, Row(p), found)
  BY <1>7, <1>8, <1>9 DEF Meets
<1> QED  BY <1>10 DEF OwnerOf, found, owners, with, rel, group

-----------------------------------------------------------------------------
(***************************************************************************)
(* What is right, and stays so.                                            *)
(***************************************************************************)
\* The relations before step s of load a.
RightUpTo(query, a, s) ==
    \A w \in 1 .. Len(query.withs) : \A i \in 1 .. Len(query.withs[w].path) :
        w < a \/ (w = a /\ i < s) =>
            \A n \in Starts(query.withs[w], i) : Right(query.withs[w], i, n)

LEMMA RightStays ==
    ASSUME NEW with, NEW i, NEW n, UNCHANGED <<store, touched>>,
           Loaded(n, with.path[i])' = Loaded(n, with.path[i]),
           Right(with, i, n)
    PROVE  Right(with, i, n)'
<1>1. Due(with, i, Row(n))' = Due(with, i, Row(n))
  BY DEF Due, Wanted, Linked, Connects, Steady, Row
<1>2. Wanted(with, i, Row(n))' = Wanted(with, i, Row(n))
  BY DEF Wanted, Linked, Connects, Row
<1>3. \A c : Steady(c)' <=> Steady(c)
  BY DEF Steady
<1> QED  BY <1>1, <1>2, <1>3 DEF Right

LEMMA GivenRight ==
    ASSUME NEW with, NEW i, NEW name \in DOMAIN Relations, with.path[i] = name,
           NEW found, NEW given, Gives(name, found, given),
           tree \subseteq Nodes, tree' \subseteq Nodes, parents \subseteq Nodes,
           UNCHANGED <<store, touched>>, NEW p \in parents,
           Below(tree, p, name) = {}, Meets(with, i, Row(p), found[p])
    PROVE  Right(with, i, p)'
<1>1. p \in Nodes /\ given[p] \in SUBSET Versions
  BY DEF Gives
<1>2. Loaded(p, name)' = given[p]
  <2>1. HungBelow(tree, p, name) = {}
    BY <1>1, NothingHung
  <2>2. HungBelow(tree', p, name) = HungBelow(tree, p, name) \cup given[p]
    BY <1>1, HungAfter
  <2> QED  BY <1>1, <2>1, <2>2, LoadedIsHung
<1>3. /\ given[p] \subseteq found[p]
      /\ IF Single(name)
         THEN Cardinality(given[p]) <= 1 /\ (found[p] # {} => given[p] # {})
         ELSE given[p] = found[p]
  BY DEF Gives
<1>4. Due(with, i, Row(p))' = Due(with, i, Row(p))
  BY DEF Due, Wanted, Linked, Connects, Steady, Row
<1>5. Wanted(with, i, Row(p))' = Wanted(with, i, Row(p))
  BY DEF Wanted, Linked, Connects, Row
<1>6. \A c : Steady(c)' <=> Steady(c)
  BY DEF Steady
<1> DEFINE rel == Relations[name]
<1>7. CASE rel.comparable
  <2>1. /\ Due(with, i, Row(p)) \subseteq found[p]
        /\ \A c \in found[p] :
              \/ ~Steady(c)
              \/ rel.kind \in PivotKinds /\ \E k \in touched : k[1] = rel.via
              \/ c \in Wanted(with, i, Row(p))
    BY <1>7 DEF Meets
  <2>2. Due(with, i, Row(p)) # {} => found[p] # {}
    BY <2>1
  <2> QED  BY <1>2, <1>3, <1>4, <1>5, <1>6, <2>1, <2>2 DEF Right, Single
<1>8. CASE ~rel.comparable
  BY <1>8 DEF Right
<1> QED  BY <1>7, <1>8

\* The nodes a relation adds.
LEMMA Added ==
    ASSUME ConstraintsSayAnd, NEW query \in Requests, NEW a, NEW s,
           OnCourse(query, a, s), LoadInv, Walking,
           NEW found, NEW given, Gives(path[1], found, given),
           NEW n \in tree', n \notin tree
    PROVE  /\ n \in Nodes /\ Len(n) = s + 1 /\ Len(n) > 1
           /\ n[2].rel = query.withs[a].path[1] /\ Along(n, query.withs[a])
           /\ BelowParent(n, Parent(n)) /\ Parent(n) \in parents
           /\ found[Parent(n)] # {}
<1>1. /\ path[1] \in DOMAIN Relations /\ parents \subseteq Nodes
      /\ s \in 1 .. Len(query.withs[a].path) /\ Len(query.withs[a].path) \in Nat
  BY Position DEF LoadInv, TypeOK
<1>2. PICK p \in parents : \E c \in given[p] : n = Child(p, path[1], c)
  BY DEF Gives
<1>3. PICK c \in given[p] : n = Child(p, path[1], c)
  BY <1>2
<1>4. c \in Versions /\ p \in Nodes /\ c \in found[p]
  BY <1>1, <1>3 DEF Gives
<1>5. /\ n \in Nodes /\ Len(n) = Len(p) + 1 /\ n[Len(p) + 1].rel = path[1]
      /\ Parent(n) = p /\ \A j \in 1 .. Len(p) : n[j] = p[j]
  BY <1>1, <1>3, <1>4, ChildParts
<1>6. BelowParent(n, p)
  <2>1. Len(p) \in Nat
    BY <1>4, NodeParts
  <2> QED  BY <1>2, <1>5, <2>1 DEF BelowParent, Under
<1>7. /\ Len(p) = s /\ Len(n) > 1 /\ n[2].rel = query.withs[a].path[1]
      /\ Len(n) = s + 1 => Along(n, query.withs[a])
  BY <1>5, <1>6, BelowParents
<1> QED  BY <1>2, <1>4, <1>5, <1>6, <1>7

\* Other relations, and those of other loads, stay as they are.
LEMMA Elsewhere ==
    ASSUME ConstraintsSayAnd, PathsApart, NEW query \in Requests, NEW a, NEW s,
           OnCourse(query, a, s), LoadInv, Walking, RightUpTo(query, a, s),
           NEW found, NEW given, Gives(path[1], found, given),
           tree' \subseteq Nodes, UNCHANGED <<store, touched>>
    PROVE  RightUpTo(query, a, s)' /\ Starts(query.withs[a], s)' = parents
<1>1. /\ path[1] \in DOMAIN Relations /\ path[1] = query.withs[a].path[s]
      /\ a \in 1 .. Len(query.withs) /\ Len(query.withs) \in Nat
      /\ s \in 1 .. Len(query.withs[a].path) /\ Len(query.withs[a].path) \in Nat
  BY Position
<1>2. /\ parents \subseteq Nodes /\ tree \subseteq Nodes
      /\ parents = Starts(query.withs[a], s) /\ tree \subseteq tree'
  BY DEF LoadInv, TypeOK, OnCourse, Gives
<1>3. Starts(query.withs[a], s)' = parents
  <2>1. \A n \in tree' : Len(n) = s => n \in tree
    BY <1>1, Added
  <2> QED  BY <1>2, <2>1 DEF Starts
<1>4. ASSUME NEW w \in 1 .. Len(query.withs),
             NEW i \in 1 .. Len(query.withs[w].path),
             w < a \/ (w = a /\ i < s),
             NEW n \in Starts(query.withs[w], i)'
      PROVE  Right(query.withs[w], i, n)'
  <2> DEFINE with == query.withs[w]
             name == with.path[i]
  <2>1. n \in tree' /\ n \in Nodes /\ Len(n) = i /\ Along(n, with)
    BY DEF Starts, Along
  <2>2. with \in AndLoads /\ name \in DOMAIN Relations
    <3>1. with \in AndLoads
      BY DEF ConstraintsSayAnd
    <3>2. with.path \in Seq(DOMAIN Relations)
      BY <3>1 DEF AndLoads
    <3> QED  BY <3>1, <3>2
  <2>3. n \in tree
    <3>1. SUFFICES ASSUME n \notin tree PROVE FALSE
      OBVIOUS
    <3>2. Len(n) = s + 1 /\ Len(n) > 1 /\ n[2].rel = query.withs[a].path[1]
      BY <2>1, <3>1, Added
    <3>3. w = a
      BY <1>1, <2>1, <3>2, OneLoad
    <3> QED  BY <1>1, <1>4, <2>1, <3>2, <3>3
  <2>4. n \in Starts(with, i)
    BY <2>1, <2>3 DEF Starts, Along
  <2>5. Right(with, i, n)
    BY <1>4, <2>4 DEF RightUpTo
  <2>6. n \notin parents \/ name # path[1]
    <3>1. SUFFICES ASSUME n \in parents, name = path[1] PROVE FALSE
      OBVIOUS
    <3>2. Len(n) = s /\ Along(n, query.withs[a])
      BY <1>2, <3>1 DEF Starts, Along
    <3>3. w # a
      BY <1>1, <1>4, <2>1, <3>2
    <3>4. CASE s = 1
      <4>1. query.withs[w].path[1] = query.withs[a].path[1]
        BY <1>1, <2>1, <3>1, <3>2, <3>4
      <4> QED  BY <1>1, <3>3, <4>1 DEF PathsApart
    <3>5. CASE s # 1
      <4>1. 2 \in 2 .. Len(n) /\ Len(n) > 1 /\ 2 - 1 = 1
        BY <1>1, <3>2, <3>5
      <4>2. n[2].rel = query.withs[a].path[1]
        BY <3>2, <4>1 DEF Along
      <4> QED  BY <1>1, <2>1, <3>3, <4>1, <4>2, OneLoad
    <3> QED  BY <3>4, <3>5
  <2>7. Loaded(n, name)' = Loaded(n, name)
    <3>1. HungBelow(tree', n, name) = HungBelow(tree, n, name)
      BY <1>1, <1>2, <2>1, <2>2, <2>6, HungAfter
    <3> QED  BY <1>2, <2>1, <2>2, <3>1, LoadedIsHung
  <2> QED  BY <2>5, <2>7, RightStays
<1> QED  BY <1>3, <1>4 DEF RightUpTo

-----------------------------------------------------------------------------
(***************************************************************************)
(* The walk goes on, or the call returns.                                  *)
(***************************************************************************)
\* What hangs was hung by the loads before a, or its steps before s.
HungUpTo(query, a, s) ==
    \A n \in tree : Len(n) > 1 =>
        \E w \in 1 .. Len(query.withs) :
            /\ w <= a /\ Along(n, query.withs[w])
            /\ w = a => Len(n) <= s

\* The owners that are loaded.
TypesRight(with, s) ==
    \A p \in parents : MorphLoading /\ TypeDone(p) => Right(with, s, p)

OnWay(query) ==
    /\ Walking => \E a \in Nat, s \in Nat :
                     /\ OnCourse(query, a, s) /\ RightUpTo(query, a, s)
                     /\ TypesRight(query.withs[a], s)
    /\ phase = "done" => RightUpTo(query, Len(query.withs) + 1, 1)

\* A relation of one query, or of two, is loaded.
LEMMA StepDone ==
    ASSUME ConstraintsSayAnd, PathsApart, NEW query \in Requests, NEW a, NEW s,
           OnCourse(query, a, s), LoadInv, Walking, RightUpTo(query, a, s),
           ~MorphLoading, NEW found \in [parents -> SUBSET Versions],
           \A p \in parents : Meets(query.withs[a], s, Row(p), found[p]),
           tree' \in Assigned(path[1], found), tree' \subseteq Nodes,
           UNCHANGED <<store, touched>>
    PROVE  /\ RightUpTo(query, a, s + 1)' /\ HungUpTo(query, a, s + 1)'
           /\ Children(tree', path[1]) = Starts(query.withs[a], s + 1)'
<1>1. /\ path[1] \in DOMAIN Relations /\ path[1] = query.withs[a].path[s]
      /\ a \in 1 .. Len(query.withs) /\ Len(query.withs) \in Nat
      /\ s \in 1 .. Len(query.withs[a].path) /\ Len(query.withs[a].path) \in Nat
      /\ parents \subseteq Nodes /\ tree \subseteq Nodes
  <2>1. parents \subseteq Nodes /\ tree \subseteq Nodes
    BY DEF LoadInv, TypeOK
  <2> QED  BY <2>1, Position
<1>2. \A p \in parents : Below(tree, p, path[1]) = {}
  BY Fresh
<1>3. PICK given : Gives(path[1], found, given)
  BY <1>2, Grown
<1>4. RightUpTo(query, a, s)' /\ Starts(query.withs[a], s)' = parents
  BY <1>3, Elsewhere
<1>5. \A p \in parents : Right(query.withs[a], s, p)'
  BY <1>1, <1>2, <1>3, GivenRight
<1>6. RightUpTo(query, a, s + 1)'
  <2> SUFFICES ASSUME NEW w \in 1 .. Len(query.withs),
                      NEW i \in 1 .. Len(query.withs[w].path),
                      w < a \/ (w = a /\ i < s + 1),
                      NEW n \in Starts(query.withs[w], i)'
               PROVE  Right(query.withs[w], i, n)'
    BY DEF RightUpTo
  <2>1. CASE w < a \/ (w = a /\ i < s)
    BY <1>4, <2>1 DEF RightUpTo
  <2>2. CASE w = a /\ i = s
    <3>1. n \in Starts(query.withs[a], s)'
      BY <2>2
    <3>2. Right(query.withs[a], s, n)'
      BY <1>4, <1>5, <3>1
    <3> QED  BY <2>2, <3>2
  <2> QED  BY <1>1, <2>1, <2>2
<1>7. ASSUME NEW n \in tree, Len(n) > 1
      PROVE  \E w \in 1 .. Len(query.withs) :
                /\ w <= a /\ Along(n, query.withs[w])
                /\ w = a => Len(n) <= s
  BY <1>7 DEF OnCourse, InOrder
<1>8. HungUpTo(query, a, s + 1)'
  <2> SUFFICES ASSUME NEW n \in tree', Len(n) > 1
               PROVE  \E w \in 1 .. Len(query.withs) :
                         /\ w <= a /\ Along(n, query.withs[w])
                         /\ w = a => Len(n) <= s + 1
    BY DEF HungUpTo, Along
  <2>1. CASE n \in tree
    <3>1. Len(n) \in Nat
      BY <1>1, <2>1, NodeParts
    <3> QED  BY <1>1, <1>7, <2>1, <3>1
  <2>2. CASE n \notin tree
    <3>1. Len(n) = s + 1 /\ Along(n, query.withs[a])
      BY <1>3, <2>2, Added
    <3> QED  BY <1>1, <3>1
  <2> QED  BY <2>1, <2>2
<1>9. Children(tree', path[1]) = Starts(query.withs[a], s + 1)'
  <2>1. ASSUME NEW p \in parents, NEW n \in Below(tree', p, path[1]),
               Len(n) = Len(p) + 1
        PROVE  n \in Starts(query.withs[a], s + 1)'
    <3>1. n \in tree' /\ n \in Nodes /\ BelowParent(n, p)
      BY <1>1, LevelBelow DEF BelowParent
    <3>2. Len(p) = s /\ (Len(n) = s + 1 => Along(n, query.withs[a]))
      BY <3>1, BelowParents
    <3> QED  BY <2>1, <3>1, <3>2 DEF Starts, Along
  <2>2. ASSUME NEW n \in Starts(query.withs[a], s + 1)'
        PROVE  /\ Parent(n) \in parents /\ Len(n) = Len(Parent(n)) + 1
               /\ n \in Below(tree', Parent(n), path[1])
    <3>1. /\ n \in tree' /\ n \in Nodes /\ Len(n) = s + 1 /\ Len(n) > 1
          /\ Along(n, query.withs[a])
      BY <1>1 DEF Starts, Along
    <3>2. n \notin tree
      <4>1. SUFFICES ASSUME n \in tree PROVE FALSE
        OBVIOUS
      <4>2. PICK w \in 1 .. Len(query.withs) :
               Along(n, query.withs[w]) /\ (w = a => Len(n) <= s)
        BY <1>7, <3>1, <4>1
      <4>3. 2 \in 2 .. Len(n) /\ 2 - 1 = 1
        BY <1>1, <3>1
      <4>4. n[2].rel = query.withs[a].path[1]
        BY <3>1, <4>3 DEF Along
      <4>5. w = a
        BY <1>1, <3>1, <4>2, <4>4, OneLoad
      <4> QED  BY <1>1, <3>1, <4>2, <4>5
    <3>3. /\ BelowParent(n, Parent(n)) /\ Parent(n) \in parents
      BY <1>3, <3>1, <3>2, Added
    <3>4. /\ Len(Parent(n)) = s /\ n = Child(Parent(n), n[Len(n)].rel, Row(n))
          /\ Row(n) \in Versions /\ Parent(n) \in Nodes
      BY <1>1, <3>1, NodeParts
    <3>5. n[Len(n)].rel = path[1]
      BY <3>1, <3>3, <3>4 DEF BelowParent, Under
    <3>6. n \in Below(tree', Parent(n), path[1])
      BY <1>1, <3>1, <3>4, <3>5, ChildIsBelow
    <3> QED  BY <3>1, <3>3, <3>4, <3>6
  <2> QED  BY <2>1, <2>2 DEF Children
<1> QED  BY <1>6, <1>8, <1>9

\* The end of a path: the next load starts at the models.
LEMMA NextPathOnWay ==
    ASSUME ConstraintsSayAnd, NEW query \in Requests, NEW a, NEW s,
           OnCourse(query, a, s), LoadInv, Walking, NextPath, types' = {},
           RightUpTo(query, a + 1, 1)', HungUpTo(query, a, s + 1)'
    PROVE  OnWay(query)'
<1>1. /\ a \in 1 .. Len(query.withs) /\ Len(query.withs) \in Nat
      /\ Len(withs) = Len(query.withs) - a + 1
      /\ \A j \in 1 .. Len(withs) : withs[j] = query.withs[a + j - 1]
  BY Position DEF OnCourse
<1>2. withs \in Seq(AndLoads) /\ withs # <<>>
  BY DEF LoadInv, TypeOK, Walking
<1>3. /\ withs' = Tail(withs) /\ Len(Tail(withs)) = Len(withs) - 1
      /\ Len(withs) \in Nat
      /\ \A j \in 1 .. Len(Tail(withs)) :
            j + 1 \in 1 .. Len(withs) /\ Tail(withs)[j] = withs[j + 1]
  BY <1>2, Rest DEF NextPath
<1>4. CASE Len(withs) > 1
  <2> DEFINE with == query.withs[a + 1]
  <2>1. /\ path' = withs[2].path /\ parents' = Roots(tree') /\ phase' = "load"
    BY <1>4 DEF NextPath
  <2>2. withs[2] = with /\ a + 1 \in 1 .. Len(query.withs)
    <3>1. 2 \in 1 .. Len(withs) /\ a + 2 - 1 = a + 1
      BY <1>1, <1>3, <1>4
    <3> QED  BY <1>1, <1>3, <1>4, <3>1
  <2>3. with \in AndLoads
    BY <2>2 DEF ConstraintsSayAnd
  <2>4. /\ with.path \in Seq(DOMAIN Relations) /\ with.path # <<>>
        /\ path' = with.path
    BY <2>1, <2>2, <2>3 DEF AndLoads
  <2>5. /\ 1 \in 1 .. Len(with.path) /\ Len(path') = Len(with.path) - 1 + 1
        /\ \A j \in 1 .. Len(path') : path'[j] = with.path[1 + j - 1]
    <3> HIDE DEF with
    <3>1. Len(with.path) \in Nat \ {0}
      BY <2>4
    <3>2. \A j \in 1 .. Len(with.path) : 1 + j - 1 = j
      BY <3>1
    <3> QED  BY <2>4, <3>1, <3>2
  <2>6. parents' = Starts(with, 1)'
    <3>1. \A n : \A j \in 2 .. 1 : n[j].rel = with.path[j - 1]
      OBVIOUS
    <3> QED  BY <2>1, <3>1 DEF Roots, Starts
  <2>7. /\ Len(withs') = Len(query.withs) - (a + 1) + 1
        /\ \A j \in 1 .. Len(withs') : withs'[j] = query.withs[(a + 1) + j - 1]
    <3>1. \A j \in 1 .. Len(withs') : a + (j + 1) - 1 = (a + 1) + j - 1
      BY <1>1, <1>3
    <3> QED  BY <1>1, <1>3, <3>1
  <2>8. InOrder(query, a + 1, 1)'
    <3> SUFFICES ASSUME NEW n \in tree', Len(n) > 1
                 PROVE  \E w \in 1 .. Len(query.withs) :
                           /\ w <= a + 1 /\ Along(n, query.withs[w])
                           /\ w # a + 1
      BY DEF InOrder, Along
    <3>1. PICK w \in 1 .. Len(query.withs) : w <= a /\ Along(n, query.withs[w])
      BY DEF HungUpTo, Along
    <3>2. w <= a + 1 /\ w # a + 1
      BY <1>1, <3>1
    <3> QED  BY <3>1, <3>2
  <2>9. OnCourse(query, a + 1, 1)'
    BY <2>2, <2>5, <2>6, <2>7, <2>8 DEF OnCourse
  <2>10. TypesRight(query.withs[a + 1], 1)'
    BY DEF TypesRight, TypeDone
  <2>11. a + 1 \in Nat /\ 1 \in Nat
    BY <1>1
  <2>12. phase' # "done"
    BY <2>1
  <2> QED  BY <2>9, <2>10, <2>11, <2>12 DEF OnWay
<1>5. CASE ~(Len(withs) > 1)
  <2>1. phase' = "done"
    BY <1>5 DEF NextPath
  <2>2. a + 1 = Len(query.withs) + 1
    BY <1>1, <1>2, <1>3, <1>5
  <2>3. RightUpTo(query, Len(query.withs) + 1, 1)'
    BY <2>2
  <2> QED  BY <2>1, <2>3 DEF OnWay, Walking
<1> QED  BY <1>4, <1>5

\* The end of a relation.
LEMMA DescendOnWay ==
    ASSUME ConstraintsSayAnd, PathsApart, NEW query \in Requests, NEW a, NEW s,
           OnCourse(query, a, s), LoadInv, Walking, Descend, types' = {},
           tree' \subseteq Nodes,
           RightUpTo(query, a, s + 1)', HungUpTo(query, a, s + 1)',
           Children(tree', path[1]) = Starts(query.withs[a], s + 1)'
    PROVE  OnWay(query)'
<1> DEFINE with     == query.withs[a]
           children == Children(tree', path[1])
<1>1. /\ a \in 1 .. Len(query.withs) /\ Len(query.withs) \in Nat
      /\ s \in 1 .. Len(with.path) /\ Len(with.path) \in Nat
      /\ Len(path) \in Nat \ {0} /\ (Len(path) = 1 <=> s = Len(with.path))
  BY Position
<1>2. /\ Len(withs) = Len(query.withs) - a + 1
      /\ \A j \in 1 .. Len(withs) : withs[j] = query.withs[a + j - 1]
      /\ Len(path) = Len(with.path) - s + 1
      /\ \A j \in 1 .. Len(path) : path[j] = with.path[s + j - 1]
  BY DEF OnCourse
<1>3. CASE Len(path) > 1 /\ children # {}
  <2>1. /\ path' = Tail(path) /\ parents' = children /\ phase' = "load"
        /\ withs' = withs
    BY <1>3 DEF Descend
  <2>2. path \in Seq(DOMAIN Relations) /\ path # <<>>
    BY DEF LoadInv, TypeOK, Walking
  <2>3. /\ Len(path') = Len(path) - 1
        /\ \A j \in 1 .. Len(path') :
              j + 1 \in 1 .. Len(path) /\ path'[j] = path[j + 1]
    BY <2>1, <2>2, Rest
  <2> HIDE DEF with
  <2>4. s + 1 \in 1 .. Len(with.path) /\ Len(path') = Len(with.path) - (s + 1) + 1
    BY <1>1, <1>2, <1>3, <2>3
  <2>5. \A j \in 1 .. Len(path') : path'[j] = with.path[(s + 1) + j - 1]
    <3>1. \A j \in 1 .. Len(path') : s + (j + 1) - 1 = (s + 1) + j - 1
      BY <1>1, <2>4
    <3> QED  BY <1>2, <2>3, <3>1
  <2>6. InOrder(query, a, s + 1)'
    BY DEF InOrder, HungUpTo, Along
  <2>7. OnCourse(query, a, s + 1)'
    BY <1>1, <1>2, <2>1, <2>4, <2>5, <2>6 DEF OnCourse, with
  <2>8. TypesRight(query.withs[a], s + 1)'
    BY DEF TypesRight, TypeDone
  <2>9. a \in Nat /\ s + 1 \in Nat /\ phase' # "done"
    BY <1>1, <2>1
  <2> QED  BY <2>7, <2>8, <2>9 DEF OnWay
<1>4. CASE ~(Len(path) > 1 /\ children # {})
  <2>1. NextPath
    BY <1>4 DEF Descend
  <2>2. ASSUME NEW i \in 1 .. Len(with.path), i > s, NEW n \in Starts(with, i)'
        PROVE  FALSE
    <3>1. children = {}
      <4>1. Len(path) > 1
        BY <1>1, <1>2, <2>2
      <4> HIDE DEF children
      <4> QED  BY <1>4, <4>1
    <3>2. n \in tree' /\ n \in Nodes /\ Len(n) = i /\ Along(n, with) /\ Len(n) > 1
      BY <1>1, <2>2 DEF Starts, Along
    <3>3. i # s + 1
      BY <2>2, <3>1
    <3>4. PICK w \in 1 .. Len(query.withs) :
             Along(n, query.withs[w]) /\ (w = a => Len(n) <= s + 1)
      BY <3>2 DEF HungUpTo, Along
    <3>5. 2 \in 2 .. Len(n) /\ 2 - 1 = 1
      BY <1>1, <3>2
    <3>6. n[2].rel = with.path[1]
      BY <3>2, <3>5 DEF Along
    <3>7. w = a
      BY <1>1, <3>2, <3>4, <3>6, OneLoad
    <3> QED  BY <1>1, <2>2, <3>2, <3>3, <3>4, <3>7
  <2>3. RightUpTo(query, a + 1, 1)'
    <3> SUFFICES ASSUME NEW w \in 1 .. Len(query.withs),
                        NEW i \in 1 .. Len(query.withs[w].path),
                        w < a + 1 \/ (w = a + 1 /\ i < 1),
                        NEW n \in Starts(query.withs[w], i)'
                 PROVE  Right(query.withs[w], i, n)'
      BY DEF RightUpTo
    <3>1. CASE w < a \/ (w = a /\ i < s + 1)
      BY <3>1 DEF RightUpTo
    <3>2. CASE w = a /\ i > s
      BY <2>2, <3>2
    <3> QED  BY <1>1, <3>1, <3>2
  <2> QED  BY <2>1, <2>3, NextPathOnWay
<1> QED  BY <1>3, <1>4

-----------------------------------------------------------------------------
(***************************************************************************)
(* The actions, and what they leave right.                                 *)
(***************************************************************************)
\* A deferred count is of what is wanted, when nobody writes.
CountsTrue(query) ==
    counted # NotCounted =>
        /\ phase = "done"
        /\ \E i \in 1 .. Len(query.withs) :
              /\ counted = <<i>> /\ Len(query.withs[i].path) = 1
              /\ Relations[query.withs[i].path[1]].kind \in DirectKinds
              /\ touched = {} => \A p \in Roots(tree) :
                    counts[p] = Cardinality(Wanted(query.withs[i], 1, Row(p)))

Linkage(query) ==
    /\ request = query /\ OnWay(query)
    /\ phase = "query" => types = {}
    /\ PairsTrue /\ CountsTrue(query)

LinkInv == \E query \in Requests : Linkage(query)

LEMMA RightUpToStays ==
    ASSUME NEW query, NEW a, NEW s, UNCHANGED <<tree, store, touched>>,
           RightUpTo(query, a, s)
    PROVE  RightUpTo(query, a, s)'
<1> SUFFICES ASSUME NEW w \in 1 .. Len(query.withs),
                    NEW i \in 1 .. Len(query.withs[w].path),
                    w < a \/ (w = a /\ i < s),
                    NEW n \in Starts(query.withs[w], i)'
             PROVE  Right(query.withs[w], i, n)'
  BY DEF RightUpTo
<1>1. n \in Starts(query.withs[w], i)
  BY DEF Starts
<1>2. Right(query.withs[w], i, n)
  BY <1>1 DEF RightUpTo
<1>3. \A name : Loaded(n, name)' = Loaded(n, name)
  BY DEF Loaded, Below, Row
<1> QED  BY <1>2, <1>3, RightStays

LEMMA GetLinks ==
    ASSUME ConstraintsSayAnd, LoadInv, NEW query \in Requests, Linkage(query),
           Get
    PROVE  Linkage(query)'
<1>1. /\ tree' = {<<Node("root", r)>> : r \in {r \in Table(query.model) : r.live}}
      /\ request = query /\ request' = query /\ types = {} /\ types' = {}
      /\ phase = "query" /\ counted = NotCounted /\ counted' = NotCounted
  BY DEF Get, Linkage, CountsTrue
<1>2. \A n \in tree' : Len(n) = 1
  BY <1>1
<1>3. query.withs \in Seq(AndLoads) /\ Len(query.withs) \in Nat
  BY DEF ConstraintsSayAnd
<1>4. CASE tree' = {} \/ query.withs = <<>>
  <2>1. phase' = "done"
    BY <1>1, <1>4 DEF Get
  <2>2. RightUpTo(query, Len(query.withs) + 1, 1)'
    <3>1. CASE tree' = {}
      BY <3>1 DEF RightUpTo, Starts
    <3>2. CASE query.withs = <<>>
      <4>1. Len(query.withs) = 0
        BY <3>2
      <4> QED  BY <4>1 DEF RightUpTo
    <3> QED  BY <1>4, <3>1, <3>2
  <2>3. OnWay(query)'
    BY <2>1, <2>2 DEF OnWay, Walking
  <2> QED  BY <1>1, <2>1, <2>3 DEF Linkage, PairsTrue, CountsTrue
<1>5. CASE ~(tree' = {} \/ query.withs = <<>>)
  <2> DEFINE with == query.withs[1]
  <2>1. /\ withs' = query.withs /\ path' = with.path
        /\ parents' = tree' /\ phase' = "load"
    BY <1>1, <1>5 DEF Get
  <2>2. with \in AndLoads /\ 1 \in 1 .. Len(query.withs)
    BY <1>3, <1>5, Rest
  <2>3. Len(with.path) \in Nat \ {0}
    BY <2>2 DEF AndLoads
  <2>4. parents' = Starts(with, 1)'
    <3>1. \A n : \A j \in 2 .. 1 : n[j].rel = with.path[j - 1]
      OBVIOUS
    <3> QED  BY <1>2, <2>1, <3>1 DEF Starts
  <2>5. /\ Len(withs') = Len(query.withs) - 1 + 1
        /\ \A j \in 1 .. Len(withs') : withs'[j] = query.withs[1 + j - 1]
    <3>1. \A j \in 1 .. Len(query.withs) : 1 + j - 1 = j
      BY <1>3
    <3> QED  BY <1>3, <2>1, <3>1
  <2>6. /\ 1 \in 1 .. Len(with.path) /\ Len(path') = Len(with.path) - 1 + 1
        /\ \A j \in 1 .. Len(path') : path'[j] = with.path[1 + j - 1]
    <3> HIDE DEF with
    <3>1. \A j \in 1 .. Len(with.path) : 1 + j - 1 = j
      BY <2>3
    <3> QED  BY <2>1, <2>3, <3>1
  <2>7. InOrder(query, 1, 1)'
    BY <1>2 DEF InOrder
  <2>8. OnCourse(query, 1, 1)'
    BY <1>1, <2>2, <2>4, <2>5, <2>6, <2>7 DEF OnCourse
  <2>9. RightUpTo(query, 1, 1)' /\ TypesRight(query.withs[1], 1)'
    <3>1. \A w \in 1 .. Len(query.withs) : \A i \in 1 .. Len(query.withs[w].path) :
             ~(w < 1 \/ (w = 1 /\ i < 1))
      OBVIOUS
    <3> QED  BY <1>1, <3>1 DEF RightUpTo, TypesRight, TypeDone
  <2>10. OnWay(query)'
    BY <2>1, <2>8, <2>9 DEF OnWay
  <2> QED  BY <1>1, <2>1, <2>10 DEF Linkage, PairsTrue, CountsTrue
<1> QED  BY <1>4, <1>5

LEMMA LoadRelationLinks ==
    ASSUME ConstraintsSayAnd, PathsApart, LoadInv, LoadInv',
           NEW query \in Requests, Linkage(query), LoadRelation
    PROVE  Linkage(query)'
<1> DEFINE rel     == Relations[path[1]]
           related == QueryRelated(rel.table, rel.foreign,
                                   DistinctKeys(parents, rel.local),
                                   MorphClosure(rel, Closure))
           found   == [p \in parents |->
                         {c \in related : SameKey(rel, c.col[rel.foreign],
                                                  Row(p).col[rel.local])}]
<1>1. /\ Walking /\ rel.kind \in DirectKinds /\ Descend
      /\ tree' \in Assigned(path[1], found)
      /\ UNCHANGED <<store, request, types, touched, counted>>
      /\ phase = "load"
  BY DEF LoadRelation, Loading, Walking
<1>2. ~MorphLoading /\ rel.typed \subseteq Versions
      /\ Closure \in AndClauses /\ store \subseteq Versions
  BY <1>1, Current DEF DirectKinds, MorphLoading
<1>3. PICK a \in Nat, s \in Nat : OnCourse(query, a, s) /\ RightUpTo(query, a, s)
  BY <1>1 DEF Linkage, OnWay
<1>4. types = {}
  BY <1>2, <1>3 DEF OnCourse
<1>5. related \subseteq Versions
  <2> HIDE DEF rel
  <2>1. MorphClosure(rel, Closure) \in AndClauses
    BY <1>2, MorphClauses
  <2> QED  BY <1>2, <2>1, Related
<1>6. \A p \in parents : Meets(query.withs[a], s, Row(p), found[p])
  BY <1>1, <1>3, DirectMeets
<1>7. tree' \subseteq Nodes
  BY DEF LoadInv, TypeOK
<1>8. found \in [parents -> SUBSET Versions]
  <2> HIDE DEF related
  <2> QED  BY <1>5
<1> HIDE DEF found, rel, related
<1>9. OnWay(query)'
  <2>1. /\ RightUpTo(query, a, s + 1)' /\ HungUpTo(query, a, s + 1)'
        /\ Children(tree', path[1]) = Starts(query.withs[a], s + 1)'
    BY <1>1, <1>2, <1>3, <1>6, <1>7, <1>8, StepDone
  <2> QED  BY <1>1, <1>3, <1>4, <1>7, <2>1, DescendOnWay
<1>10. phase' \in {"load", "done"}
  BY <1>1 DEF Descend, NextPath
<1>11. counted' = NotCounted
  BY <1>1 DEF Linkage, CountsTrue
<1> QED  BY <1>1, <1>9, <1>10, <1>11 DEF Linkage, PairsTrue, CountsTrue

LEMMA LoadThroughPivotLinks ==
    ASSUME ConstraintsSayAnd, PathsApart, LoadInv, LoadInv',
           NEW query \in Requests, Linkage(query), LoadThroughPivot
    PROVE  Linkage(query)'
<1> DEFINE rel     == Relations[path[1]]
           related == QueryRelated(rel.table, rel.foreign,
                                   {pr.related : pr \in pairs}, Closure)
           found   == [p \in parents |->
                         {c \in related : \E pr \in pairs :
                            /\ SameKey(rel, pr.parent, Row(p).col[rel.local])
                            /\ SameKey(rel, pr.related, c.col[rel.foreign])}]
<1>1. /\ Walking /\ phase = "related" /\ Descend
      /\ tree' \in Assigned(path[1], found)
      /\ UNCHANGED <<store, request, types, touched, counted>>
  BY DEF LoadThroughPivot, Walking
<1>2. ~MorphLoading /\ Closure \in AndClauses /\ store \subseteq Versions
      /\ PairsTrue
  BY <1>1, Current DEF MorphLoading, Linkage
<1>3. PICK a \in Nat, s \in Nat : OnCourse(query, a, s) /\ RightUpTo(query, a, s)
  BY <1>1 DEF Linkage, OnWay
<1>4. types = {}
  BY <1>2, <1>3 DEF OnCourse
<1>5. related \subseteq Versions
  <2> HIDE DEF rel
  <2> QED  BY <1>2, Related
<1>6. \A p \in parents : Meets(query.withs[a], s, Row(p), found[p])
  BY <1>1, <1>2, <1>3, PivotMeets
<1>7. tree' \subseteq Nodes
  BY DEF LoadInv, TypeOK
<1>8. found \in [parents -> SUBSET Versions]
  <2> HIDE DEF related
  <2> QED  BY <1>5
<1> HIDE DEF found, rel, related
<1>9. OnWay(query)'
  <2>1. /\ RightUpTo(query, a, s + 1)' /\ HungUpTo(query, a, s + 1)'
        /\ Children(tree', path[1]) = Starts(query.withs[a], s + 1)'
    BY <1>1, <1>2, <1>3, <1>6, <1>7, <1>8, StepDone
  <2> QED  BY <1>1, <1>3, <1>4, <1>7, <2>1, DescendOnWay
<1>10. phase' \in {"load", "done"}
  BY <1>1 DEF Descend, NextPath
<1>11. counted' = NotCounted
  BY <1>1 DEF Linkage, CountsTrue
<1> QED  BY <1>1, <1>9, <1>10, <1>11 DEF Linkage, PairsTrue, CountsTrue

LEMMA LoadPivotLinks ==
    ASSUME ConstraintsSayAnd, ThroughKeysApart, LoadInv, NEW query \in Requests, Linkage(query),
           LoadPivot
    PROVE  Linkage(query)'
<1> DEFINE rel == Relations[path[1]]
<1>1. /\ Walking /\ phase = "load" /\ phase' = "related" /\ rel.kind \in PivotKinds
      /\ pairs' \in Mapped(rel.kind,
                           QueryPivot(rel, DistinctKeys(parents, rel.local)))
      /\ UNCHANGED <<store, request, withs, path, parents, tree, types, touched,
                     counted>>
  BY DEF LoadPivot, Loading, Walking
<1>2. rel.kind # "morphTo"
  BY <1>1 DEF PivotKinds
<1>3. /\ ~MorphLoading /\ path[1] \in DOMAIN Relations
      /\ rel.typed \subseteq Versions /\ store \subseteq Versions
  BY <1>1, <1>2, Current DEF MorphLoading
<1>4. PICK a \in Nat, s \in Nat : OnCourse(query, a, s) /\ RightUpTo(query, a, s)
  BY <1>1 DEF Linkage, OnWay
<1>5. types = {} /\ types' = {}
  BY <1>1, <1>3, <1>4 DEF OnCourse
<1>6. OnWay(query)'
  <2>1. InOrder(query, a, s)'
    BY <1>1, <1>3, <1>4 DEF OnCourse, InOrder, Along
  <2>2. OnCourse(query, a, s)'
    BY <1>1, <1>4, <1>5, <2>1 DEF OnCourse, Starts
  <2>3. RightUpTo(query, a, s)'
    BY <1>1, <1>4, RightUpToStays
  <2>4. TypesRight(query.withs[a], s)'
    BY <1>5 DEF TypesRight, TypeDone
  <2> QED  BY <1>1, <2>2, <2>3, <2>4 DEF OnWay
<1> DEFINE keys == DistinctKeys(parents, rel.local)
           list == <<WhereIn(Table(rel.via), rel.viaParent, keys), And(rel.typed)>>
<1>7. \A v : v \in Matching(list, Table(rel.via)) <=>
                /\ v \in store /\ v.table = rel.via /\ v \in rel.typed
                /\ v.col[rel.viaParent] \in keys
  <2> HIDE DEF rel
  <2> SUFFICES ASSUME NEW v
               PROVE  v \in Matching(list, Table(rel.via)) <=>
                         /\ v \in store /\ v.table = rel.via /\ v \in rel.typed
                         /\ v.col[rel.viaParent] \in keys
    OBVIOUS
  <2>1. /\ Len(list) = 2 /\ list # <<>>
        /\ \A i \in 1 .. Len(list) : list[i].boolean = "AND"
        /\ list[2].test = rel.typed
        /\ list[1].test = {r \in Table(rel.via) : r.col[rel.viaParent] \in keys}
    BY DEF WhereIn, And
  <2> HIDE DEF list
  <2>2. Satisfies(list, v) <=> \A i \in 1 .. Len(list) : v \in list[i].test
    BY <2>1, Conjunction
  <2>3. Satisfies(list, v) <=> v \in list[1].test /\ v \in list[2].test
    BY <2>1, <2>2
  <2> QED  BY <2>1, <2>3 DEF Matching, Table
<1>8. pairs' = {[parent |-> v.col[rel.viaParent], related |-> v.col[rel.viaRelated]] :
                  v \in Matching(list, Table(rel.via))}
  <2> DEFINE read == {[parent |-> v.col[rel.viaParent],
                       related |-> v.col[rel.viaRelated]] :
                         v \in Matching(list, Table(rel.via))}
  <2>1. pairs' \in Mapped(rel.kind, read)
    BY <1>1 DEF QueryPivot
  <2>2. ASSUME rel.kind \in ThroughKinds, NEW p1 \in read, NEW p2 \in read,
               p1.related = p2.related
        PROVE  p1 = p2
    <3> HIDE DEF list, rel
    <3>1. PICK v \in Matching(list, Table(rel.via)) :
             p1 = [parent |-> v.col[rel.viaParent], related |-> v.col[rel.viaRelated]]
      OBVIOUS
    <3>2. PICK w \in Matching(list, Table(rel.via)) :
             p2 = [parent |-> w.col[rel.viaParent], related |-> w.col[rel.viaRelated]]
      OBVIOUS
    <3>3. v \in store /\ w \in store /\ v.table = rel.via /\ w.table = rel.via
      BY <1>7
    <3>4. v.col[rel.viaRelated] = w.col[rel.viaRelated]
      BY <2>2, <3>1, <3>2
    <3>5. Key(v) = Key(w)
      BY <1>1, <1>3, <2>2, <3>3, <3>4 DEF ThroughKeysApart, rel
    <3>6. v = w
      BY <3>3, <3>5 DEF LoadInv, TypeOK, Consistent
    <3> QED  BY <3>1, <3>2, <3>6
  <2> HIDE DEF read
  <2> QED  BY <2>1, <2>2, MappedKeeps DEF read
<1>9. \A p \in parents : Row(p).col[rel.local] \in keys
  BY DEF DistinctKeys
<1>10. PairsTrue'
  <2> HIDE DEF list, keys
  <2>1. ASSUME NEW p \in parents, NEW v \in store, v.table = rel.via,
               v \in rel.typed, v.col[rel.viaParent] = Row(p).col[rel.local]
        PROVE  [parent |-> v.col[rel.viaParent],
                related |-> v.col[rel.viaRelated]] \in pairs'
    BY <1>7, <1>8, <1>9, <2>1
  <2>2. ASSUME NEW pr \in pairs'
        PROVE  \E v \in store : /\ v.table = rel.via /\ v \in rel.typed
                                /\ v.col[rel.viaParent] = pr.parent
                                /\ v.col[rel.viaRelated] = pr.related
    BY <1>7, <1>8
  <2> QED  BY <1>1, <2>1, <2>2 DEF PairsTrue, Steady, Key, Row
<1>11. counted' = NotCounted
  BY <1>1 DEF Linkage, CountsTrue
<1> QED  BY <1>1, <1>6, <1>10, <1>11 DEF Linkage, CountsTrue

LEMMA LoadMorphOwnersLinks ==
    ASSUME ConstraintsSayAnd, PathsApart, LoadInv, LoadInv',
           NEW query \in Requests, Linkage(query), LoadMorphOwners
    PROVE  Linkage(query)'
<1> DEFINE rel == Relations[path[1]]
           group(type)  == {p \in parents : Row(p).col[rel.typeCol] = type}
           owners(type) == QueryRelated(rel.owners[type], "id",
                              DistinctKeys(group(type), rel.idCol), Closure)
           found(type)  == [p \in parents |->
                              {o \in owners(type) : p \in group(type) /\
                                 SameKey(rel, o.col.id, Row(p).col[rel.idCol])}]
<1>1. /\ Walking /\ phase = "load" /\ phase' = "load" /\ rel.kind = "morphTo"
      /\ UNCHANGED <<store, request, withs, path, parents, touched, counted>>
  BY DEF LoadMorphOwners, Loading, Walking
<1>2. PICK type \in TypesLeft : /\ tree' \in Assigned(path[1], found(type))
                                /\ types' = types \cup {type}
  BY DEF LoadMorphOwners
<1>3. type \in DOMAIN rel.owners /\ type \notin types
  BY <1>2 DEF TypesLeft
<1>4. /\ MorphLoading /\ MorphLoading' /\ Single(path[1])
      /\ path[1] \in DOMAIN Relations /\ store \subseteq Versions
      /\ Closure \in AndClauses
  BY <1>1, Current DEF MorphLoading, Single, SingleKinds
<1>5. PICK a \in Nat, s \in Nat :
         /\ OnCourse(query, a, s) /\ RightUpTo(query, a, s)
         /\ TypesRight(query.withs[a], s)
  BY <1>1 DEF Linkage, OnWay
<1>6. /\ tree' \subseteq Nodes /\ tree \subseteq Nodes /\ parents \subseteq Nodes
      /\ path[1] = query.withs[a].path[s]
  <2>1. tree' \subseteq Nodes /\ tree \subseteq Nodes /\ parents \subseteq Nodes
    BY DEF LoadInv, TypeOK
  <2> QED  BY <1>1, <1>5, <2>1, Position
<1>7. found(type) \in [parents -> SUBSET Versions]
  <2>1. owners(type) \subseteq Versions
    <3> HIDE DEF rel
    <3> QED  BY <1>4, Related
  <2> HIDE DEF owners
  <2> QED  BY <2>1
<1>8. \A p \in parents : p \in group(type) => Below(tree, p, path[1]) = {}
  BY <1>1, <1>3, <1>5, Fresh DEF TypeDone
<1>9. \A p \in parents : p \notin group(type) => found(type)[p] = {}
  OBVIOUS
<1>10. \A p \in parents : p \in group(type) =>
          Meets(query.withs[a], s, Row(p), found(type)[p])
  <2> SUFFICES ASSUME NEW p \in parents, p \in group(type)
               PROVE  Meets(query.withs[a], s, Row(p), found(type)[p])
    OBVIOUS
  <2>1. found(type)[p] = OwnerOf(type, p)
    BY DEF OwnerOf
  <2>2. Row(p).col[rel.typeCol] = type
    OBVIOUS
  <2> HIDE DEF owners, found, group
  <2> QED  BY <1>1, <1>3, <1>5, <2>1, <2>2, MorphMeets
<1>11. \A p \in parents : p \in group(type) <=> Row(p).col[rel.typeCol] = type
  OBVIOUS
<1>12. \A p \in parents : TypeDone(p)' <=> TypeDone(p) \/ p \in group(type)
  <2>1. UNCHANGED <<path, parents>> /\ types' = types \cup {type}
    BY <1>1, <1>2
  <2>2. \A p : Row(p)' = Row(p)
    BY DEF Row
  <2> HIDE DEF owners, found, group
  <2> QED  BY <2>1, <2>2, <1>11 DEF TypeDone
<1>13. PICK of : of = found(type)
  OBVIOUS
<1>14. PICK given : Gives(path[1], of, given)
  <2> HIDE DEF found, group
  <2> QED  BY <1>2, <1>4, <1>7, <1>8, <1>9, <1>13, Grown
<1> HIDE DEF found, group, rel
<1>15. RightUpTo(query, a, s)' /\ Starts(query.withs[a], s)' = parents
  BY <1>1, <1>5, <1>6, <1>14, Elsewhere
<1>16. InOrder(query, a, s)'
  <2> SUFFICES ASSUME NEW n \in tree', Len(n) > 1
               PROVE  \E w \in 1 .. Len(query.withs) :
                         /\ w <= a /\ Along(n, query.withs[w])
                         /\ w = a => \/ Len(n) <= s
                                     \/ Len(n) = s + 1 /\ TypeDone(Parent(n))'
    BY <1>4 DEF InOrder, Along
  <2>1. CASE n \in tree
    <3>1. PICK w \in 1 .. Len(query.withs) :
             /\ w <= a /\ Along(n, query.withs[w])
             /\ w = a => \/ Len(n) <= s
                         \/ Len(n) = s + 1 /\ TypeDone(Parent(n))
      BY <1>5, <2>1 DEF OnCourse, InOrder
    <3>2. TypeDone(Parent(n)) => TypeDone(Parent(n))'
      BY <1>1, <1>2 DEF TypeDone, Row, Parent
    <3> QED  BY <3>1, <3>2
  <2>2. CASE n \notin tree
    <3>1. /\ Len(n) = s + 1 /\ Along(n, query.withs[a])
          /\ Parent(n) \in parents /\ of[Parent(n)] # {}
      BY <1>1, <1>5, <1>14, <2>2, Added
    <3>2. Parent(n) \in group(type)
      BY <1>9, <1>13, <3>1
    <3>3. TypeDone(Parent(n))'
      BY <1>12, <3>1, <3>2
    <3>4. a \in 1 .. Len(query.withs)
      BY <1>5 DEF OnCourse
    <3> QED  BY <3>1, <3>3, <3>4
  <2> QED  BY <2>1, <2>2
<1>17. OnCourse(query, a, s)'
  <2>1. parents' = Starts(query.withs[a], s)'
    BY <1>1, <1>15
  <2> QED  BY <1>1, <1>4, <1>5, <1>16, <2>1 DEF OnCourse
<1>18. TypesRight(query.withs[a], s)'
  <2> SUFFICES ASSUME NEW p \in parents, TypeDone(p)'
               PROVE  Right(query.withs[a], s, p)'
    BY <1>1 DEF TypesRight
  <2>1. CASE p \in group(type)
    BY <1>1, <1>4, <1>6, <1>8, <1>10, <1>13, <1>14, <2>1, GivenRight
  <2>2. CASE p \notin group(type)
    <3>1. Right(query.withs[a], s, p)
      BY <1>4, <1>5, <1>12, <2>2 DEF TypesRight
    <3>2. given[p] = {}
      BY <1>9, <1>13, <1>14, <2>2 DEF Gives
    <3>3. PICK name \in DOMAIN Relations : name = path[1]
      BY <1>4
    <3>4. HungBelow(tree', p, name) = HungBelow(tree, p, name) \cup given[p]
      BY <1>4, <1>6, <1>14, <3>3, HungAfter
    <3>5. Loaded(p, name)' = Loaded(p, name)
      BY <1>6, <3>2, <3>4, LoadedIsHung
    <3> QED  BY <1>1, <1>6, <3>1, <3>3, <3>5, RightStays
  <2> QED  BY <2>1, <2>2
<1>19. OnWay(query)'
  BY <1>1, <1>15, <1>17, <1>18 DEF OnWay
<1>20. counted' = NotCounted
  BY <1>1 DEF Linkage, CountsTrue
<1> QED  BY <1>1, <1>19, <1>20 DEF Linkage, PairsTrue, CountsTrue

LEMMA MorphToEndsLinks ==
    ASSUME ConstraintsSayAnd, PathsApart, LoadInv, NEW query \in Requests,
           Linkage(query), MorphToEnds
    PROVE  Linkage(query)'
<1> DEFINE rel == Relations[path[1]]
<1>1. /\ Walking /\ phase = "load" /\ rel.kind = "morphTo" /\ MorphLoading
      /\ TypesLeft = {} /\ types' = {} /\ tree' = tree
      /\ UNCHANGED <<store, request, touched, counted>>
  BY DEF MorphToEnds, OwnersLoaded, Loading, Walking, MorphLoading
<1>2. PICK a \in Nat, s \in Nat :
         /\ OnCourse(query, a, s) /\ RightUpTo(query, a, s)
         /\ TypesRight(query.withs[a], s)
  BY <1>1 DEF Linkage, OnWay
<1>3. counted' = NotCounted
  BY <1>1 DEF Linkage, CountsTrue
<1>4. CASE Len(path) # 1
  <2>1. phase' = "failed"
    BY <1>4 DEF MorphToEnds
  <2> QED  BY <1>1, <1>3, <2>1 DEF Linkage, OnWay, Walking, PairsTrue, CountsTrue
<1>5. CASE Len(path) = 1
  <2>1. NextPath
    BY <1>5 DEF MorphToEnds
  <2>2. /\ path[1] = query.withs[a].path[s] /\ path[1] \in DOMAIN Relations
        /\ s = Len(query.withs[a].path)
        /\ a \in 1 .. Len(query.withs) /\ Len(query.withs) \in Nat
    BY <1>1, <1>2, <1>5, Position
  <2>3. tree \subseteq Nodes /\ parents \subseteq Nodes
    BY DEF LoadInv, TypeOK
  <2>4. ASSUME NEW p \in parents
        PROVE  Right(query.withs[a], s, p)
    <3>1. CASE TypeDone(p)
      BY <1>1, <1>2, <3>1 DEF TypesRight
    <3>2. CASE ~TypeDone(p)
      <4>1. Row(p).col[rel.typeCol] \notin DOMAIN rel.owners
        BY <1>1, <3>2 DEF TypesLeft, DistinctKeys, TypeDone
      <4>2. rel.kind \notin DirectKinds /\ rel.kind \notin PivotKinds
        BY <1>1 DEF DirectKinds, PivotKinds
      <4>3. \A c : ~Linked(rel, Row(p), c, store)
        <5>1. rel.kind = "morphTo"
          BY <1>1
        <5> HIDE DEF rel
        <5> QED  BY <4>1, <4>2, <5>1 DEF Linked
      <4>4. Wanted(query.withs[a], s, Row(p)) = {}
        BY <2>2, <4>3 DEF Wanted
      <4>5. Due(query.withs[a], s, Row(p)) = {}
        BY <4>4 DEF Due
      <4>6. Loaded(p, path[1]) = {}
        <5>1. Below(tree, p, path[1]) = {}
          BY <1>1, <1>2, <3>2, Fresh
        <5> QED  BY <2>2, <2>3, <5>1, NothingHung, LoadedIsHung
      <4>7. Cardinality({}) <= 1
        BY FS_EmptySet
      <4> QED  BY <2>2, <4>5, <4>6, <4>7 DEF Right
    <3> QED  BY <3>1, <3>2
  <2>5. RightUpTo(query, a + 1, 1)
    <3> SUFFICES ASSUME NEW w \in 1 .. Len(query.withs),
                        NEW i \in 1 .. Len(query.withs[w].path),
                        w < a + 1 \/ (w = a + 1 /\ i < 1),
                        NEW n \in Starts(query.withs[w], i)
                 PROVE  Right(query.withs[w], i, n)
      BY DEF RightUpTo
    <3>1. CASE w < a \/ (w = a /\ i < s)
      BY <1>2, <3>1 DEF RightUpTo
    <3>2. CASE w = a /\ i = s
      BY <1>2, <2>4, <3>2 DEF OnCourse
    <3> QED  BY <2>2, <3>1, <3>2
  <2>6. RightUpTo(query, a + 1, 1)'
    BY <1>1, <2>5, RightUpToStays
  <2>7. HungUpTo(query, a, s + 1)'
    <3> SUFFICES ASSUME NEW n \in tree, Len(n) > 1
                 PROVE  \E w \in 1 .. Len(query.withs) :
                           /\ w <= a /\ Along(n, query.withs[w])
                           /\ w = a => Len(n) <= s + 1
      BY <1>1 DEF HungUpTo, Along
    <3>1. PICK w \in 1 .. Len(query.withs) :
             /\ w <= a /\ Along(n, query.withs[w])
             /\ w = a => Len(n) <= s \/ Len(n) = s + 1
      BY <1>2 DEF OnCourse, InOrder
    <3>2. Len(n) \in Nat
      BY <2>3, NodeParts
    <3> QED  BY <3>1, <3>2
  <2>8. OnWay(query)'
    BY <1>1, <1>2, <2>1, <2>6, <2>7, NextPathOnWay
  <2>9. phase' \in {"load", "done"}
    BY <2>1 DEF NextPath
  <2> QED  BY <1>1, <1>3, <2>8, <2>9 DEF Linkage, PairsTrue, CountsTrue
<1> QED  BY <1>4, <1>5

\* What others write, they touch.
LEMMA OthersTouch ==
    ASSUME LoadInv, OthersWrite
    PROVE  /\ touched \subseteq touched'
           /\ \A c : Steady(c)' => Steady(c)
           /\ \A c \in store' : Steady(c)' => c \in store
           /\ \A c \in store : Steady(c)' => c \in store'
<1>1. PICK v \in Written :
         /\ \/ store' = {r \in store : Key(r) # Key(v)} \cup {v}
            \/ store' = {r \in store : Key(r) # Key(v)}
         /\ touched' = touched \cup {Key(v)}
  BY DEF OthersWrite
<1>2. \A c : Steady(c)' <=> Key(c) \notin touched'
  BY DEF Steady, Key
<1> QED  BY <1>1, <1>2 DEF Steady

LEMMA OthersLeaveRight ==
    ASSUME LoadInv, OthersWrite, NEW with, NEW i, NEW n,
           with.path[i] \in DOMAIN Relations, Right(with, i, n)
    PROVE  Right(with, i, n)'
<1> DEFINE name == with.path[i]
           rel  == Relations[name]
<1>1. /\ touched \subseteq touched'
      /\ \A c : Steady(c)' => Steady(c)
      /\ \A c \in store' : Steady(c)' => c \in store
      /\ \A c \in store : Steady(c)' => c \in store'
  BY OthersTouch
<1>2. rel.kind \in DirectKinds \/ rel.kind \in PivotKinds \/ rel.kind = "morphTo"
  BY RelationsAssumption
<1>3. \A c : Steady(c)' <=> Key(c) \notin touched'
  BY DEF Steady, Key
<1>4. /\ Due(with, i, Row(n))' =
            {c \in Wanted(with, i, Row(n))' :
               /\ Steady(c)'
               /\ rel.kind \in PivotKinds =>
                     \E v \in store' : Steady(v)' /\ Connects(rel, v, Row(n), c)}
      /\ Wanted(with, i, Row(n))' =
            {c \in store' : /\ c.live /\ Linked(rel, Row(n), c, store')
                            /\ i = Len(with.path) => Satisfies(with.closure, c)}
  BY DEF Due, Wanted, Linked, Connects, Row
<1>5. /\ Due(with, i, Row(n)) =
            {c \in Wanted(with, i, Row(n)) :
               /\ Steady(c)
               /\ rel.kind \in PivotKinds =>
                     \E v \in store : Steady(v) /\ Connects(rel, v, Row(n), c)}
      /\ Wanted(with, i, Row(n)) =
            {c \in store : /\ c.live /\ Linked(rel, Row(n), c, store)
                           /\ i = Len(with.path) => Satisfies(with.closure, c)}
  BY DEF Due, Wanted
<1>6. \A c : Linked(rel, Row(n), c, store') <=>
                \/ rel.kind \notin PivotKinds /\ Linked(rel, Row(n), c, store)
                \/ /\ rel.kind \in PivotKinds /\ c.table = rel.table
                   /\ \E v \in store' : Connects(rel, v, Row(n), c)
  <2> HIDE DEF rel
  <2> QED  BY <1>2 DEF Linked, DirectKinds, PivotKinds
<1>7. rel.kind \in PivotKinds =>
         \A c : Linked(rel, Row(n), c, store) <=>
                   /\ c.table = rel.table
                   /\ \E v \in store : Connects(rel, v, Row(n), c)
  <2> HIDE DEF rel
  <2> QED  BY DEF Linked, DirectKinds, PivotKinds
<1> HIDE DEF rel
<1>8. Due(with, i, Row(n))' \subseteq Due(with, i, Row(n))
  <2> SUFFICES ASSUME NEW c \in Due(with, i, Row(n))'
               PROVE  c \in Due(with, i, Row(n))
    OBVIOUS
  <2>1. /\ c \in store' /\ Steady(c)' /\ c \in store /\ Steady(c) /\ c.live
        /\ Linked(rel, Row(n), c, store')
        /\ i = Len(with.path) => Satisfies(with.closure, c)
    BY <1>1, <1>4
  <2>2. CASE rel.kind \in PivotKinds
    <3>1. PICK v \in store' : Steady(v)' /\ Connects(rel, v, Row(n), c)
      BY <1>4, <2>2
    <3>2. v \in store /\ Steady(v)
      BY <1>1, <3>1
    <3>3. Linked(rel, Row(n), c, store)
      BY <1>6, <1>7, <2>1, <2>2, <3>1, <3>2
    <3> QED  BY <1>5, <2>1, <3>1, <3>2, <3>3
  <2>3. CASE rel.kind \notin PivotKinds
    BY <1>5, <1>6, <2>1, <2>3
  <2> QED  BY <2>2, <2>3
<1>9. ASSUME NEW c \in Wanted(with, i, Row(n)), Steady(c)',
             ~(rel.kind \in PivotKinds /\ \E k \in touched' : k[1] = rel.via)
      PROVE  c \in Wanted(with, i, Row(n))'
  <2>1. /\ c \in store /\ c \in store' /\ c.live
        /\ Linked(rel, Row(n), c, store)
        /\ i = Len(with.path) => Satisfies(with.closure, c)
    BY <1>1, <1>5, <1>9
  <2>2. CASE rel.kind \in PivotKinds
    <3>1. PICK v \in store : Connects(rel, v, Row(n), c)
      BY <1>7, <2>1, <2>2
    <3>2. Key(v)[1] = rel.via
      BY <3>1 DEF Key, Connects
    <3>3. v \in store'
      BY <1>1, <1>3, <1>9, <2>2, <3>2
    <3>4. c.table = rel.table
      BY <1>7, <2>1, <2>2
    <3>5. Linked(rel, Row(n), c, store')
      BY <1>6, <2>2, <3>1, <3>3, <3>4
    <3> QED  BY <1>4, <2>1, <3>5
  <2>3. CASE rel.kind \notin PivotKinds
    BY <1>4, <1>6, <2>1, <2>3
  <2> QED  BY <2>2, <2>3
<1>10. Loaded(n, name)' = Loaded(n, name)
  BY DEF OthersWrite, Loaded, Below, Row
<1>11. CASE rel.comparable
  <2>1. /\ IF Single(name)
           THEN /\ Cardinality(Loaded(n, name)) <= 1
                /\ Due(with, i, Row(n)) # {} => Loaded(n, name) # {}
           ELSE Due(with, i, Row(n)) \subseteq Loaded(n, name)
        /\ \A c \in Loaded(n, name) :
              \/ ~Steady(c)
              \/ rel.kind \in PivotKinds /\ \E k \in touched : k[1] = rel.via
              \/ c \in Wanted(with, i, Row(n))
    BY <1>11 DEF Right, rel
  <2>2. \A c \in Loaded(n, name) :
           \/ ~Steady(c)'
           \/ rel.kind \in PivotKinds /\ \E k \in touched' : k[1] = rel.via
           \/ c \in Wanted(with, i, Row(n))'
    BY <1>1, <1>9, <2>1
  <2>3. Due(with, i, Row(n))' # {} => Due(with, i, Row(n)) # {}
    BY <1>8
  <2> QED  BY <1>8, <1>10, <2>1, <2>2, <2>3 DEF Right, Single, rel
<1>12. CASE ~rel.comparable
  BY <1>12 DEF Right, rel
<1> QED  BY <1>11, <1>12

LEMMA OthersWriteLinks ==
    ASSUME ConstraintsSayAnd, LoadInv, NEW query \in Requests, Linkage(query),
           OthersWrite
    PROVE  Linkage(query)'
<1>1. /\ Walking
      /\ UNCHANGED <<request, phase, withs, path, parents, pairs, types, tree,
                     counted>>
  BY DEF OthersWrite, Walking
<1>2. /\ touched \subseteq touched'
      /\ \A c : Steady(c)' => Steady(c)
      /\ \A c \in store' : Steady(c)' => c \in store
      /\ \A c \in store : Steady(c)' => c \in store'
  BY OthersTouch
<1>3. PICK a \in Nat, s \in Nat :
         /\ OnCourse(query, a, s) /\ RightUpTo(query, a, s)
         /\ TypesRight(query.withs[a], s)
  BY <1>1 DEF Linkage, OnWay
<1>4. \A w \in 1 .. Len(query.withs) : \A i \in 1 .. Len(query.withs[w].path) :
         query.withs[w].path[i] \in DOMAIN Relations
  <2> SUFFICES ASSUME NEW w \in 1 .. Len(query.withs),
                      NEW i \in 1 .. Len(query.withs[w].path)
               PROVE  query.withs[w].path[i] \in DOMAIN Relations
    OBVIOUS
  <2>1. query.withs[w] \in AndLoads
    BY DEF ConstraintsSayAnd
  <2>2. query.withs[w].path \in Seq(DOMAIN Relations)
    BY <2>1 DEF AndLoads
  <2> QED  BY <2>2
<1>5. RightUpTo(query, a, s)'
  <2> SUFFICES ASSUME NEW w \in 1 .. Len(query.withs),
                      NEW i \in 1 .. Len(query.withs[w].path),
                      w < a \/ (w = a /\ i < s),
                      NEW n \in Starts(query.withs[w], i)'
               PROVE  Right(query.withs[w], i, n)'
    BY DEF RightUpTo
  <2>1. n \in Starts(query.withs[w], i)
    BY <1>1 DEF Starts
  <2>2. Right(query.withs[w], i, n)
    BY <1>3, <2>1 DEF RightUpTo
  <2> QED  BY <1>4, <2>2, OthersLeaveRight
<1>6. TypesRight(query.withs[a], s)'
  <2> SUFFICES ASSUME NEW p \in parents, MorphLoading, TypeDone(p)
               PROVE  Right(query.withs[a], s, p)'
    BY <1>1 DEF TypesRight, MorphLoading, TypeDone, Row
  <2>1. Right(query.withs[a], s, p)
    BY <1>3 DEF TypesRight
  <2>2. query.withs[a].path[s] \in DOMAIN Relations
    BY <1>3, <1>4 DEF OnCourse
  <2> QED  BY <2>1, <2>2, OthersLeaveRight
<1>7. InOrder(query, a, s)'
  BY <1>1, <1>3 DEF OnCourse, InOrder, Along, MorphLoading, TypeDone, Row, Parent
<1>8. OnCourse(query, a, s)'
  BY <1>1, <1>3, <1>7 DEF OnCourse, Starts, MorphLoading
<1>9. OnWay(query)'
  <2>1. phase' # "done"
    BY <1>1 DEF Walking
  <2> QED  BY <1>5, <1>6, <1>8, <2>1 DEF OnWay
<1>10. PairsTrue'
  <2> DEFINE rel == Relations[path[1]]
  <2> SUFFICES ASSUME phase = "related"
               PROVE  /\ \A p \in parents, v \in store' :
                            /\ Steady(v)' /\ v.table = rel.via /\ v \in rel.typed
                            /\ v.col[rel.viaParent] = Row(p).col[rel.local]
                            => [parent |-> v.col[rel.viaParent],
                                related |-> v.col[rel.viaRelated]] \in pairs
                      /\ \A pr \in pairs :
                            \/ \E k \in touched' : k[1] = rel.via
                            \/ \E v \in store' :
                                  /\ v.table = rel.via /\ v \in rel.typed
                                  /\ v.col[rel.viaParent] = pr.parent
                                  /\ v.col[rel.viaRelated] = pr.related
    BY <1>1 DEF PairsTrue, Row
  <2>1. /\ \A p \in parents, v \in store :
              /\ Steady(v) /\ v.table = rel.via /\ v \in rel.typed
              /\ v.col[rel.viaParent] = Row(p).col[rel.local]
              => [parent |-> v.col[rel.viaParent],
                  related |-> v.col[rel.viaRelated]] \in pairs
        /\ \A pr \in pairs :
              \/ \E k \in touched : k[1] = rel.via
              \/ \E v \in store : /\ v.table = rel.via /\ v \in rel.typed
                                  /\ v.col[rel.viaParent] = pr.parent
                                  /\ v.col[rel.viaRelated] = pr.related
    BY DEF Linkage, PairsTrue
  <2>2. ASSUME NEW pr \in pairs, ~\E k \in touched' : k[1] = rel.via
        PROVE  \E v \in store' : /\ v.table = rel.via /\ v \in rel.typed
                                 /\ v.col[rel.viaParent] = pr.parent
                                 /\ v.col[rel.viaRelated] = pr.related
    <3>1. PICK v \in store : /\ v.table = rel.via /\ v \in rel.typed
                             /\ v.col[rel.viaParent] = pr.parent
                             /\ v.col[rel.viaRelated] = pr.related
      BY <1>2, <2>1, <2>2
    <3>2. Key(v)[1] = v.table
      BY DEF Key
    <3>3. Steady(v)' <=> Key(v) \notin touched'
      BY DEF Steady, Key
    <3>4. v \in store'
      BY <1>2, <2>2, <3>1, <3>2, <3>3
    <3> QED  BY <3>1, <3>4
  <2> HIDE DEF rel
  <2> QED  BY <1>2, <2>1, <2>2
<1>11. counted' = NotCounted
  BY <1>1 DEF Linkage, CountsTrue, Walking
<1> QED  BY <1>1, <1>9, <1>10, <1>11 DEF Linkage, CountsTrue, Walking

\* The rows that are counted are those that are wanted.
LEMMA CountedExactly ==
    ASSUME store \subseteq Versions, NEW rel, rel.typed \subseteq Versions,
           NEW closure \in AndClauses, NEW keys
    PROVE  CountedRows(rel, closure, keys)
              = {r \in store : /\ r.table = rel.table /\ r.col[rel.foreign] \in keys
                               /\ r \in rel.typed /\ r.live /\ Satisfies(closure, r)}
<1> DEFINE T     == [boolean : {"AND"}, test : SUBSET Versions]
           keyed == {r \in Table(rel.table) : r.col[rel.foreign] \in keys}
           live  == {r \in Table(rel.table) : r.live}
           first == <<And(keyed), And(rel.typed), And(live)>>
           list  == <<WhereIn(Table(rel.table), rel.foreign, keys), And(rel.typed),
                      And({r \in Table(rel.table) : r.live})>>
<1>1. list = first
  BY DEF WhereIn
<1>2. CountedRows(rel, closure, keys) = Matching(first \o closure, Table(rel.table))
  BY <1>1 DEF CountedRows
<1>3. keyed \subseteq Versions /\ live \subseteq Versions
  BY DEF Table
<1>4. /\ first \in Seq(T) /\ Len(first) = 3 /\ closure \in Seq(T)
      /\ first[1] = And(keyed) /\ first[2] = And(rel.typed) /\ first[3] = And(live)
  <2> HIDE DEF keyed, live
  <2>1. And(keyed) \in T /\ And(rel.typed) \in T /\ And(live) \in T
    BY <1>3 DEF And
  <2> HIDE DEF T
  <2>2. first \in Seq(T)
    BY <2>1
  <2> QED  BY <2>2 DEF AndClauses, T
<1>5. \A clause \in T : clause.boolean = "AND"
  OBVIOUS
<1> HIDE DEF first, T
<1>6. AllAnd(first) /\ AllAnd(closure)
  <2>1. first \in Seq(T) /\ closure \in Seq(T)
    BY <1>4
  <2>2. /\ \A i \in 1 .. Len(first) : first[i] \in T
        /\ \A i \in 1 .. Len(closure) : closure[i] \in T
    BY <2>1
  <2> QED  BY <1>5, <2>2 DEF AllAnd
<1>7. \A r : Satisfies(first, r) <=> r \in keyed /\ r \in rel.typed /\ r \in live
  <2> SUFFICES ASSUME NEW r
               PROVE  Satisfies(first, r)
                         <=> r \in keyed /\ r \in rel.typed /\ r \in live
    OBVIOUS
  <2>1. Satisfies(first, r) <=> \A i \in 1 .. Len(first) : r \in first[i].test
    BY <1>4, <1>6, AndLists
  <2>2. /\ first[1].test = keyed /\ first[2].test = rel.typed
        /\ first[3].test = live
    BY <1>4 DEF And
  <2> HIDE DEF keyed, live
  <2> QED  BY <1>4, <2>1, <2>2
<1>8. \A r : Satisfies(first \o closure, r)
                <=> Satisfies(first, r) /\ Satisfies(closure, r)
  BY <1>4, <1>6, AndConcat
<1> QED  BY <1>2, <1>7, <1>8 DEF Matching, Table

LEMMA LoadCountLinks ==
    ASSUME ConstraintsSayAnd, LoadInv, NEW query \in Requests, Linkage(query),
           LoadCount
    PROVE  Linkage(query)'
<1>1. /\ phase = "done" /\ phase' = "done" /\ request' = query /\ request = query
      /\ UNCHANGED <<store, tree, touched>>
      /\ store \subseteq Versions
  BY DEF LoadCount, Linkage, LoadInv, TypeOK
<1> DEFINE with(i) == request.withs[i]
           rel(i)  == Relations[with(i).path[1]]
           rows(i) == CountedRows(rel(i), with(i).closure,
                                  DistinctKeys(Roots(tree), rel(i).local))
<1>2. PICK i \in 1 .. Len(request.withs) :
         /\ rel(i).kind \in DirectKinds /\ Len(with(i).path) = 1
         /\ counted' = <<i>>
         /\ counts' = [p \in Roots(tree) |->
                         Cardinality({c \in rows(i) : c.col[rel(i).foreign] =
                                                      Row(p).col[rel(i).local]})]
  BY DEF LoadCount
<1>3. with(i) = query.withs[i] /\ i \in 1 .. Len(query.withs)
  BY <1>1
<1>4. /\ with(i).closure \in AndClauses /\ rel(i).typed \subseteq Versions
      /\ rel(i).kind \notin PivotKinds /\ rel(i).kind # "morphTo"
  <2>1. with(i) \in AndLoads
    BY <1>3 DEF ConstraintsSayAnd
  <2>2. with(i).path \in Seq(DOMAIN Relations) /\ with(i).path # <<>>
        /\ with(i).closure \in AndClauses
    BY <2>1 DEF AndLoads
  <2>3. with(i).path[1] \in DOMAIN Relations
    BY <2>2
  <2> QED  BY <1>2, <2>2, <2>3, RelationsAssumption DEF DirectKinds, PivotKinds
<1>5. ASSUME NEW p \in Roots(tree)
      PROVE  {c \in rows(i) : c.col[rel(i).foreign] = Row(p).col[rel(i).local]}
                = Wanted(with(i), 1, Row(p))
  <2>1. Row(p).col[rel(i).local] \in DistinctKeys(Roots(tree), rel(i).local)
    BY DEF DistinctKeys
  <2>2. \A c : Linked(rel(i), Row(p), c, store) <=>
                  /\ c.table = rel(i).table /\ c \in rel(i).typed
                  /\ c.col[rel(i).foreign] = Row(p).col[rel(i).local]
    <3> SUFFICES ASSUME NEW c
                 PROVE  Linked(rel(i), Row(p), c, store) <=>
                           /\ c.table = rel(i).table /\ c \in rel(i).typed
                           /\ c.col[rel(i).foreign] = Row(p).col[rel(i).local]
      OBVIOUS
    <3> HIDE DEF rel
    <3> QED  BY <1>2, <1>4 DEF Linked
  <2>3. Wanted(with(i), 1, Row(p)) =
           {c \in store : /\ c.live /\ Linked(rel(i), Row(p), c, store)
                          /\ Satisfies(with(i).closure, c)}
    BY <1>2 DEF Wanted
  <2> DEFINE keys == DistinctKeys(Roots(tree), rel(i).local)
  <2> HIDE DEF rel, keys
  <2>4. CountedRows(rel(i), with(i).closure, keys)
           = {r \in store : /\ r.table = rel(i).table
                            /\ r.col[rel(i).foreign] \in keys
                            /\ r \in rel(i).typed /\ r.live
                            /\ Satisfies(with(i).closure, r)}
    BY <1>1, <1>4, CountedExactly
  <2>5. Row(p).col[rel(i).local] \in keys
    BY <2>1 DEF keys
  <2>6. rows(i) = CountedRows(rel(i), with(i).closure, keys)
    BY DEF keys
  <2> HIDE DEF rows
  <2>7. {c \in rows(i) : c.col[rel(i).foreign] = Row(p).col[rel(i).local]}
           = Wanted(with(i), 1, Row(p))
    BY <2>2, <2>3, <2>4, <2>5, <2>6
  <2> QED  BY <2>7
<1>6. \A p \in Roots(tree) :
         counts'[p] = Cardinality(Wanted(query.withs[i], 1, Row(p)))
  <2> HIDE DEF rows, with, rel
  <2>1. \A p \in Roots(tree) :
           counts'[p] = Cardinality(Wanted(with(i), 1, Row(p)))
    BY <1>2, <1>5
  <2> QED  BY <1>3, <2>1
<1>7. CountsTrue(query)'
  <2>1. \A p : Wanted(query.withs[i], 1, Row(p))'
                  = Wanted(query.withs[i], 1, Row(p))
    BY <1>1 DEF Wanted, Linked, Connects, Row
  <2>2. Roots(tree)' = Roots(tree)
    BY <1>1 DEF Roots
  <2>3. /\ Len(query.withs[i].path) = 1 /\ counted' = <<i>>
        /\ Relations[query.withs[i].path[1]].kind \in DirectKinds
    BY <1>3, <1>2
  <2> QED  BY <1>3, <1>1, <1>6, <2>1, <2>2, <2>3 DEF CountsTrue
<1>8. OnWay(query)'
  <2>1. RightUpTo(query, Len(query.withs) + 1, 1)
    BY <1>1 DEF Linkage, OnWay
  <2>2. RightUpTo(query, Len(query.withs) + 1, 1)'
    BY <1>1, <2>1, RightUpToStays
  <2> QED  BY <1>1, <2>2 DEF OnWay, Walking
<1> QED  BY <1>1, <1>7, <1>8 DEF Linkage, PairsTrue

LEMMA StutterLinks ==
    ASSUME NEW query \in Requests, Linkage(query), UNCHANGED vars
    PROVE  Linkage(query)'
<1>1. UNCHANGED <<store, request, phase, withs, path, parents, pairs, types, tree,
                  counted, counts, touched>>
  BY DEF vars
<1>2. \A a, s : RightUpTo(query, a, s) => RightUpTo(query, a, s)'
  BY <1>1, RightUpToStays
<1>3. ASSUME NEW a, NEW s, OnCourse(query, a, s)
      PROVE  OnCourse(query, a, s)'
  <2>1. InOrder(query, a, s)'
    BY <1>1, <1>3 DEF OnCourse, InOrder, Along, MorphLoading, TypeDone, Row, Parent
  <2> QED  BY <1>1, <1>3, <2>1 DEF OnCourse, Starts, MorphLoading
<1>4. ASSUME NEW a, NEW s, TypesRight(query.withs[a], s)
      PROVE  TypesRight(query.withs[a], s)'
  <2> SUFFICES ASSUME NEW p \in parents, MorphLoading, TypeDone(p)
               PROVE  Right(query.withs[a], s, p)'
    BY <1>1 DEF TypesRight, MorphLoading, TypeDone, Row
  <2>1. Right(query.withs[a], s, p)
    BY <1>4 DEF TypesRight
  <2>2. \A name : Loaded(p, name)' = Loaded(p, name)
    BY <1>1 DEF Loaded, Below, Row
  <2> QED  BY <1>1, <2>1, <2>2, RightStays
<1>5. OnWay(query)'
  BY <1>1, <1>2, <1>3, <1>4 DEF Linkage, OnWay, Walking
<1>6. PairsTrue'
  BY <1>1 DEF Linkage, PairsTrue, Steady, Key, Row
<1>7. CountsTrue(query)'
  <2>1. \A with, p : Wanted(with, 1, Row(p))' = Wanted(with, 1, Row(p))
    BY <1>1 DEF Wanted, Linked, Connects, Row
  <2>2. Roots(tree)' = Roots(tree)
    BY <1>1 DEF Roots
  <2> QED  BY <1>1, <2>1, <2>2 DEF Linkage, CountsTrue
<1> QED  BY <1>1, <1>5, <1>6, <1>7 DEF Linkage

LEMMA InitLinks == Init => LinkInv
<1> SUFFICES ASSUME Init PROVE LinkInv
  OBVIOUS
<1>1. request \in Requests /\ phase = "query" /\ types = {} /\ counted = NotCounted
  BY DEF Init
<1>2. PICK query \in Requests : query = request
  BY <1>1
<1>3. Linkage(query)
  BY <1>1, <1>2 DEF Linkage, OnWay, Walking, PairsTrue, CountsTrue
<1> QED  BY <1>3 DEF LinkInv

LEMMA NextLinks ==
    ConstraintsSayAnd /\ PathsApart /\ ThroughKeysApart /\ LoadInv /\ LoadInv'
        /\ LinkInv /\ [Next]_vars => LinkInv'
<1> SUFFICES ASSUME ConstraintsSayAnd, PathsApart, ThroughKeysApart,
                    LoadInv, LoadInv', LinkInv, [Next]_vars
             PROVE  LinkInv'
  OBVIOUS
<1>1. PICK query \in Requests : Linkage(query)
  BY DEF LinkInv
<1>2. Linkage(query)'
  <2>1. CASE Statement
    BY <1>1, <2>1, GetLinks, LoadRelationLinks, LoadPivotLinks,
       LoadThroughPivotLinks, LoadMorphOwnersLinks, MorphToEndsLinks
    DEF Statement
  <2>2. CASE StatementFails
    <3>1. /\ phase' = "failed" /\ UNCHANGED <<request, counted>>
          /\ counted = NotCounted
      BY <1>1, <2>2 DEF StatementFails, Linkage, CountsTrue
    <3> QED  BY <1>1, <3>1 DEF Linkage, OnWay, Walking, PairsTrue, CountsTrue
  <2>3. CASE LoadCount
    BY <1>1, <2>3, LoadCountLinks
  <2>4. CASE OthersWrite
    BY <1>1, <2>4, OthersWriteLinks
  <2>5. CASE UNCHANGED vars
    BY <1>1, <2>5, StutterLinks
  <2> QED  BY <2>1, <2>2, <2>3, <2>4, <2>5 DEF Next
<1> QED  BY <1>2 DEF LinkInv

\* When the call returns, each relation asked for holds, below each model, what
\* is linked to it, if constraints say AND, no two paths begin with the same relation
\* and through keys are unique (builder.go:558-560, README.md:541-567).
THEOREM AllLinkedIsLoaded ==
    ASSUME ConstraintsSayAnd, PathsApart, ThroughKeysApart
    PROVE  Spec => []LoadedAsLinked
<1>1. LinkInv => LoadedAsLinked
  <2> SUFFICES ASSUME NEW query \in Requests, Linkage(query), phase = "done",
                      NEW w \in 1 .. Len(query.withs),
                      NEW i \in 1 .. Len(query.withs[w].path),
                      NEW n \in Starts(query.withs[w], i)
               PROVE  Right(query.withs[w], i, n)
    BY DEF LinkInv, LoadedAsLinked, Linkage
  <2>1. RightUpTo(query, Len(query.withs) + 1, 1)
    BY DEF Linkage, OnWay
  <2>2. w < Len(query.withs) + 1
    OBVIOUS
  <2> QED  BY <2>1, <2>2 DEF RightUpTo
<1> QED  BY <1>1, InitInv, NextInv, InitLinks, NextLinks, PTL DEF Spec

\* A deferred count and an eager load of the same relation agree when nobody
\* wrote in between, under the same assumptions (deferred.go:13-20).
THEOREM CountsMatchLoads ==
    ASSUME ConstraintsSayAnd, PathsApart, ThroughKeysApart
    PROVE  Spec => []CountsAgree
<1>1. LoadInv /\ LinkInv => CountsAgree
  <2> SUFFICES ASSUME LoadInv, NEW query \in Requests, Linkage(query),
                      counted # NotCounted, touched = {}
               PROVE  LET name == query.withs[counted[1]].path[1]
                          CountOf(n) == Cardinality(Loaded(n, name))
                      IN  Relations[name].comparable =>
                          \A n \in Roots(tree) :
                              IF Single(name)
                              THEN (counts[n] > 0) = (CountOf(n) = 1)
                              ELSE counts[n] = CountOf(n)
    BY DEF LinkInv, CountsAgree, Linkage
  <2>1. PICK i \in 1 .. Len(query.withs) :
           /\ counted = <<i>> /\ Len(query.withs[i].path) = 1
           /\ Relations[query.withs[i].path[1]].kind \in DirectKinds
           /\ \A p \in Roots(tree) :
                 counts[p] = Cardinality(Wanted(query.withs[i], 1, Row(p)))
    BY DEF Linkage, CountsTrue
  <2> DEFINE with == query.withs[i]
             name == with.path[1]
             rel  == Relations[name]
  <2>2. /\ RightUpTo(query, Len(query.withs) + 1, 1)
        /\ tree \subseteq Nodes /\ store \subseteq Versions
    BY DEF Linkage, OnWay, CountsTrue, LoadInv, TypeOK
  <2>3. name \in DOMAIN Relations
    <3>1. with \in AndLoads
      BY DEF ConstraintsSayAnd
    <3>2. with.path \in Seq(DOMAIN Relations) /\ with.path # <<>>
      BY <3>1 DEF AndLoads
    <3> QED  BY <3>2
  <2>4. rel.kind \notin PivotKinds
    BY <2>1 DEF DirectKinds, PivotKinds
  <2>5. ASSUME rel.comparable, NEW n \in Roots(tree)
        PROVE  IF Single(name)
               THEN (counts[n] > 0) <=> (Cardinality(Loaded(n, name)) = 1)
               ELSE counts[n] = Cardinality(Loaded(n, name))
    <3> DEFINE got    == Loaded(n, name)
               wanted == Wanted(with, 1, Row(n))
    <3>1. n \in Starts(with, 1)
      <4>1. \A j \in 2 .. 1 : n[j].rel = with.path[j - 1]
        OBVIOUS
      <4> QED  BY <4>1 DEF Roots, Starts
    <3>2. Right(with, 1, n)
      <4>1. 1 \in 1 .. Len(with.path) /\ i < Len(query.withs) + 1
        BY <2>1
      <4> QED  BY <2>2, <3>1, <4>1 DEF RightUpTo
    <3>3. \A c : Steady(c)
      BY DEF Steady
    <3>4. Due(with, 1, Row(n)) = wanted
      <4>1. Due(with, 1, Row(n)) =
               {c \in wanted : /\ Steady(c)
                               /\ rel.kind \in PivotKinds =>
                                    \E v \in store : Steady(v) /\
                                       Connects(rel, v, Row(n), c)}
        BY DEF Due
      <4> HIDE DEF rel, wanted
      <4> QED  BY <2>4, <3>3, <4>1
    <3>5. /\ got \subseteq wanted
          /\ IF Single(name)
             THEN Cardinality(got) <= 1 /\ (wanted # {} => got # {})
             ELSE wanted \subseteq got
      BY <2>4, <2>5, <3>2, <3>3, <3>4 DEF Right
    <3>6. counts[n] = Cardinality(wanted)
      BY <2>1
    <3>7. IsFiniteSet(wanted)
      <4>1. wanted \subseteq Versions
        BY <2>2 DEF Wanted
      <4> QED  BY <4>1, FS_Subset, ConstantsAssumption
    <3> HIDE DEF got, wanted
    <3>8. IsFiniteSet(got)
      BY <3>5, <3>7, FS_Subset
    <3>9. /\ Cardinality(wanted) \in Nat /\ Cardinality(got) \in Nat
          /\ Cardinality(wanted) = 0 <=> wanted = {}
          /\ Cardinality(got) = 0 <=> got = {}
      BY <3>7, <3>8, FS_CardinalityType, FS_EmptySet
    <3>10. CASE Single(name)
      <4>1. Cardinality(wanted) # 0 <=> Cardinality(got) # 0
        BY <3>5, <3>9, <3>10
      <4> QED  BY <3>5, <3>6, <3>9, <3>10, <4>1 DEF got
    <3>11. CASE ~Single(name)
      <4>1. got = wanted
        BY <3>5, <3>11
      <4> QED  BY <3>6, <3>11, <4>1 DEF got
    <3> QED  BY <3>10, <3>11
  <2>6. counted[1] = i
    BY <2>1
  <2> HIDE DEF with, rel
  <2> QED  BY <2>5, <2>6 DEF with, rel
<1> QED  BY <1>1, InitInv, NextInv, InitLinks, NextLinks, PTL DEF Spec
=============================================================================
