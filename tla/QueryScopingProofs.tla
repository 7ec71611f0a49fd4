------------------------- MODULE QueryScopingProofs -------------------------
(***************************************************************************)
(* A statement is about exactly the rows the application described, inside *)
(* the scopes, whatever it says and in whatever order: proved for scopes   *)
(* and WhereHas closures that only add predicates joined by AND, for every *)
(* list of scopes and every number of calls.                               *)
(***************************************************************************)
EXTENDS QueryScoping, SequenceTheorems, FiniteSetTheorems, FunctionTheorems,
        TLAPS

\* A list whose clauses are joined by AND holds where every clause does.
LEMMA Conjunction ==
    ASSUME NEW list, NEW row, Len(list) \in Nat \ {0}, list # <<>>,
           \A i \in 1 .. Len(list) : list[i].boolean = "AND"
    PROVE  Satisfies(list, row) <=>
               \A i \in 1 .. Len(list) : row \in list[i].test
<1>1. \A i \in 1 .. Len(list) : Opens(list, i) <=> i = 1
  BY DEF Opens
<1>2. \A j \in 1 .. Len(list) : Joined(list, 1, j)
  BY DEF Joined
<1>3. 1 \in 1 .. Len(list)
  OBVIOUS
<1> QED  BY <1>1, <1>2, <1>3 DEF Satisfies

AllAnd(list) == \A i \in 1 .. Len(list) : list[i].boolean = "AND"

\* Conjunction, for lists that may be empty.
LEMMA AndLists ==
    ASSUME NEW T, NEW list \in Seq(T), AllAnd(list), NEW row
    PROVE  Satisfies(list, row) <=>
               \A i \in 1 .. Len(list) : row \in list[i].test
<1>1. CASE list = <<>>
  <2>1. Len(list) = 0
    BY <1>1
  <2> QED  BY <1>1, <2>1 DEF Satisfies
<1>2. CASE list # <<>>
  <2>1. Len(list) \in Nat \ {0}
    BY <1>2
  <2> QED  BY <1>2, <2>1, Conjunction DEF AllAnd
<1> QED  BY <1>1, <1>2

\* The clauses of z are those of x, then those of y.
Follow(x, y, z) ==
    /\ Len(x) \in Nat /\ Len(y) \in Nat /\ Len(z) = Len(x) + Len(y)
    /\ \A i \in 1 .. Len(x) : z[i] = x[i]
    /\ \A i \in 1 .. Len(y) : z[Len(x) + i] = y[i]
    /\ \A i \in 1 .. Len(z) :
          i \in 1 .. Len(x) \/ \E k \in 1 .. Len(y) : i = Len(x) + k

LEMMA ListsJoined ==
    ASSUME NEW T, NEW x \in Seq(T), NEW y \in Seq(T)
    PROVE  x \o y \in Seq(T) /\ Follow(x, y, x \o y)
<1>1. /\ x \o y \in Seq(T) /\ Len(x \o y) = Len(x) + Len(y)
      /\ \A i \in 1 .. Len(x) + Len(y) :
            (x \o y)[i] = IF i <= Len(x) THEN x[i] ELSE y[i - Len(x)]
  BY ConcatProperties, Zenon
<1>2. Len(x) \in Nat /\ Len(y) \in Nat
  OBVIOUS
<1>3. \A i \in 1 .. Len(x) : (x \o y)[i] = x[i]
  BY <1>1, <1>2
<1>4. \A i \in 1 .. Len(y) : (x \o y)[Len(x) + i] = y[i]
  BY <1>1, <1>2
<1>5. ASSUME NEW i \in 1 .. Len(x \o y), i \notin 1 .. Len(x)
      PROVE  \E k \in 1 .. Len(y) : i = Len(x) + k
  <2>1. i - Len(x) \in 1 .. Len(y) /\ i = Len(x) + (i - Len(x))
    BY <1>1, <1>2, <1>5
  <2> QED  BY <2>1
<1> QED  BY <1>1, <1>2, <1>3, <1>4, <1>5 DEF Follow

\* Lists of ANDs: one after the other is their conjunction.
LEMMA AndConcat ==
    ASSUME NEW T, NEW x \in Seq(T), NEW y \in Seq(T), AllAnd(x), AllAnd(y),
           NEW row
    PROVE  /\ AllAnd(x \o y)
           /\ Satisfies(x \o y, row) <=> Satisfies(x, row) /\ Satisfies(y, row)
<1> DEFINE z == x \o y
<1>1. z \in Seq(T) /\ Follow(x, y, z)
  BY ListsJoined
<1> HIDE DEF z
<1>2. AllAnd(z)
  <2> SUFFICES ASSUME NEW i \in 1 .. Len(z) PROVE z[i].boolean = "AND"
    BY DEF AllAnd
  <2>1. CASE i \in 1 .. Len(x)
    BY <1>1, <2>1 DEF Follow, AllAnd
  <2>2. CASE i \notin 1 .. Len(x)
    <3>1. PICK k \in 1 .. Len(y) : i = Len(x) + k
      BY <1>1, <2>2 DEF Follow
    <3> QED  BY <1>1, <3>1 DEF Follow, AllAnd
  <2> QED  BY <2>1, <2>2
<1>3. /\ Satisfies(z, row) <=> \A i \in 1 .. Len(z) : row \in z[i].test
      /\ Satisfies(x, row) <=> \A i \in 1 .. Len(x) : row \in x[i].test
      /\ Satisfies(y, row) <=> \A i \in 1 .. Len(y) : row \in y[i].test
  BY <1>1, <1>2, AndLists
<1>4. /\ \A i \in 1 .. Len(x) : i \in 1 .. Len(z)
      /\ \A i \in 1 .. Len(y) : Len(x) + i \in 1 .. Len(z)
  BY <1>1 DEF Follow
<1>5. (\A i \in 1 .. Len(z) : row \in z[i].test) <=>
            /\ \A i \in 1 .. Len(x) : row \in x[i].test
            /\ \A i \in 1 .. Len(y) : row \in y[i].test
  BY <1>1, <1>4 DEF Follow
<1> QED  BY <1>2, <1>3, <1>5 DEF z

-----------------------------------------------------------------------------
(***************************************************************************)
(* A list of any booleans is its last run and the runs before it.          *)
(***************************************************************************)
\* The last run of the list opens at o.
LastRun(list, o) ==
    o \in 1 .. Len(list) /\ Opens(list, o) /\ Joined(list, o, Len(list))

InLast(list, o, row) == \A j \in o .. Len(list) : row \in list[j].test

\* A run that opens before o holds throughout.
InEarlier(list, o, row) ==
    \E i \in 1 .. o - 1 :
        /\ Opens(list, i)
        /\ \A j \in i .. Len(list) : Joined(list, i, j) => row \in list[j].test

LEMMA RunsMatch ==
    ASSUME NEW list, Len(list) \in Nat, list # <<>>, NEW o, LastRun(list, o),
           NEW row
    PROVE  Satisfies(list, row) <=>
               InEarlier(list, o, row) \/ InLast(list, o, row)
<1>1. o \in 1 .. Len(list) /\ Opens(list, o)
  BY DEF LastRun
<1>2. \A j \in o .. Len(list) : Joined(list, o, j)
  BY <1>1 DEF LastRun, Joined
<1>3. ASSUME NEW i \in 1 .. Len(list), Opens(list, i), i \notin 1 .. o - 1
      PROVE  i = o
  <2>1. SUFFICES ASSUME i # o PROVE FALSE
    OBVIOUS
  <2>2. i \in o + 1 .. Len(list) /\ i # 1
    BY <1>1, <1>3, <2>1
  <2>3. list[i].boolean = "AND"
    BY <2>2 DEF LastRun, Joined
  <2> QED  BY <1>3, <2>2, <2>3 DEF Opens
<1>4. \A i \in 1 .. o - 1 : i \in 1 .. Len(list)
  BY <1>1
<1>5. InLast(list, o, row) <=>
         \A j \in o .. Len(list) : Joined(list, o, j) => row \in list[j].test
  BY <1>2 DEF InLast
<1> DEFINE Holds(i) ==
      \A j \in i .. Len(list) : Joined(list, i, j) => row \in list[j].test
<1>6. Satisfies(list, row) <=>
          \E i \in 1 .. Len(list) : Opens(list, i) /\ Holds(i)
  BY DEF Satisfies
<1>7. InEarlier(list, o, row) <=>
          \E i \in 1 .. o - 1 : Opens(list, i) /\ Holds(i)
  BY DEF InEarlier
<1>8. InLast(list, o, row) <=> Holds(o)
  BY <1>5
<1> HIDE DEF Holds
<1> QED  BY <1>1, <1>3, <1>4, <1>6, <1>7, <1>8

\* The first clause of a list is its only run.
LEMMA FirstRun ==
    ASSUME NEW clause, NEW row
    PROVE  /\ LastRun(<<clause>>, 1)
           /\ InLast(<<clause>>, 1, row) <=> row \in clause.test
           /\ ~InEarlier(<<clause>>, 1, row)
BY DEF LastRun, InLast, InEarlier, Opens, Joined

\* A clause joined by AND narrows the last run; one joined by OR opens another.
LEMMA RunsGrow ==
    ASSUME NEW T, NEW list \in Seq(T), NEW clause \in T, NEW o, LastRun(list, o),
           NEW row
    PROVE  LET longer == list \o <<clause>>
               new    == Len(list) + 1
           IN  /\ clause.boolean = "AND" =>
                    /\ LastRun(longer, o)
                    /\ InLast(longer, o, row) <=>
                          InLast(list, o, row) /\ row \in clause.test
                    /\ InEarlier(longer, o, row) <=> InEarlier(list, o, row)
               /\ clause.boolean = "OR" =>
                    /\ LastRun(longer, new)
                    /\ InLast(longer, new, row) <=> row \in clause.test
                    /\ InEarlier(longer, new, row) <=>
                          InEarlier(list, o, row) \/ InLast(list, o, row)
<1> DEFINE longer == list \o <<clause>>
           n == Len(list)
<1>1. /\ n \in Nat /\ Len(longer) = n + 1 /\ longer[n + 1] = clause
      /\ \A i \in 1 .. n : longer[i] = list[i]
  <2>1. <<clause>> \in Seq(T) /\ Len(<<clause>>) = 1 /\ <<clause>>[1] = clause
    OBVIOUS
  <2>2. Follow(list, <<clause>>, longer)
    BY <2>1, ListsJoined
  <2> HIDE DEF longer
  <2> QED  BY <2>1, <2>2 DEF Follow
<1>2. o \in 1 .. n /\ Opens(list, o) /\ Joined(list, o, n)
  BY DEF LastRun
<1> HIDE DEF longer, n
<1>3. \A i \in 1 .. n : Opens(longer, i) <=> Opens(list, i)
  BY <1>1 DEF Opens
<1>4. \A i \in 1 .. n, j \in 1 .. n : Joined(longer, i, j) <=> Joined(list, i, j)
  <2> SUFFICES ASSUME NEW i \in 1 .. n, NEW j \in 1 .. n
               PROVE  Joined(longer, i, j) <=> Joined(list, i, j)
    OBVIOUS
  <2>1. \A k \in i + 1 .. j : k \in 1 .. n
    BY <1>1
  <2> QED  BY <1>1, <2>1 DEF Joined
<1>5. \A i \in 1 .. o - 1 : i \in 1 .. n
  BY <1>1, <1>2
<1> DEFINE Holds(w, m, i) == \A j \in i .. m : Joined(w, i, j) => row \in w[j].test
<1>6. ASSUME clause.boolean = "AND"
      PROVE  /\ LastRun(longer, o)
             /\ InLast(longer, o, row) <=>
                   InLast(list, o, row) /\ row \in clause.test
             /\ InEarlier(longer, o, row) <=> InEarlier(list, o, row)
  <2>1. LastRun(longer, o)
    <3>1. \A k \in o + 1 .. n + 1 : longer[k].boolean = "AND"
      <4>1. \A k \in o + 1 .. n : longer[k].boolean = "AND"
        BY <1>1, <1>2 DEF Joined
      <4> QED  BY <1>1, <1>2, <1>6, <4>1
    <3> QED  BY <1>1, <1>2, <1>3, <3>1 DEF LastRun, Joined
  <2>2. InLast(longer, o, row) <=> InLast(list, o, row) /\ row \in clause.test
    <3>1. InLast(list, o, row) <=> \A j \in o .. n : row \in list[j].test
      BY DEF InLast, n
    <3>2. InLast(longer, o, row) <=> \A j \in o .. n + 1 : row \in longer[j].test
      BY <1>1 DEF InLast
    <3> QED  BY <1>1, <1>2, <3>1, <3>2
  <2>3. ASSUME NEW i \in 1 .. o - 1
        PROVE  Holds(longer, n + 1, i) <=> Holds(list, n, i)
    <3>1. o # 1 /\ list[o].boolean = "OR" /\ o \in i + 1 .. n + 1
      BY <1>1, <1>2, <2>3 DEF Opens
    <3>2. ~Joined(longer, i, n + 1)
      BY <1>1, <1>2, <3>1 DEF Joined
    <3>3. \A j \in i .. n : /\ Joined(longer, i, j) <=> Joined(list, i, j)
                            /\ longer[j] = list[j]
      BY <1>1, <1>2, <1>4, <1>5, <2>3
    <3>4. \A j \in i .. n + 1 : j \in i .. n \/ j = n + 1
      BY <1>1, <1>2, <2>3
    <3>5. \A j \in i .. n : j \in i .. n + 1
      BY <1>1, <1>2, <2>3
    <3> QED  BY <3>2, <3>3, <3>4, <3>5
  <2>4. InEarlier(list, o, row) <=>
            \E i \in 1 .. o - 1 : Opens(list, i) /\ Holds(list, n, i)
    BY DEF InEarlier, n
  <2>5. InEarlier(longer, o, row) <=>
            \E i \in 1 .. o - 1 : Opens(longer, i) /\ Holds(longer, n + 1, i)
    BY <1>1 DEF InEarlier
  <2> HIDE DEF Holds
  <2> QED  BY <1>3, <1>5, <2>1, <2>2, <2>3, <2>4, <2>5
<1>7. ASSUME clause.boolean = "OR"
      PROVE  /\ LastRun(longer, n + 1)
             /\ InLast(longer, n + 1, row) <=> row \in clause.test
             /\ InEarlier(longer, n + 1, row) <=>
                   InEarlier(list, o, row) \/ InLast(list, o, row)
  <2>1. LastRun(longer, n + 1)
    BY <1>1, <1>7 DEF LastRun, Opens, Joined
  <2>2. InLast(longer, n + 1, row) <=> row \in clause.test
    BY <1>1 DEF InLast
  <2>3. ASSUME NEW i \in 1 .. n
        PROVE  Holds(longer, n + 1, i) <=> Holds(list, n, i)
    <3>1. n + 1 \in i + 1 .. n + 1
      BY <1>1, <2>3
    <3>2. ~Joined(longer, i, n + 1)
      BY <1>1, <1>7, <3>1 DEF Joined
    <3>3. \A j \in i .. n : /\ Joined(longer, i, j) <=> Joined(list, i, j)
                            /\ longer[j] = list[j]
      BY <1>1, <1>4, <2>3
    <3>4. \A j \in i .. n + 1 : j \in i .. n \/ j = n + 1
      BY <1>1, <2>3
    <3>5. \A j \in i .. n : j \in i .. n + 1
      BY <1>1, <2>3
    <3> QED  BY <3>2, <3>3, <3>4, <3>5
  <2>4. InEarlier(longer, n + 1, row) <=>
            \E i \in 1 .. n : Opens(longer, i) /\ Holds(longer, n + 1, i)
    BY <1>1 DEF InEarlier
  <2>5. Satisfies(list, row) <=>
            \E i \in 1 .. n : Opens(list, i) /\ Holds(list, n, i)
    <3>1. list # <<>>
      BY <1>1, <1>2 DEF n
    <3> QED  BY <3>1 DEF Satisfies, n
  <2>6. Satisfies(list, row) <=> InEarlier(list, o, row) \/ InLast(list, o, row)
    <3>1. list # <<>> /\ Len(list) \in Nat
      BY <1>1, <1>2 DEF n
    <3> QED  BY <3>1, RunsMatch
  <2> HIDE DEF Holds
  <2> QED  BY <1>3, <2>1, <2>2, <2>3, <2>4, <2>5, <2>6
<1> QED  BY <1>6, <1>7 DEF longer, n

-----------------------------------------------------------------------------

\* What the builder's scope predicates hold of scope k's list.
Included(k) ==
    LET list == ScopeAdds[Scopes[k]][ctx]
    IN  \A i \in 1 .. Len(list) : \E j \in 1 .. Len(b.scopeWheres) :
            b.scopeWheres[j] = list[i]

\* The scopes that have applied once applyScopes has begun.
Applied == IF Applying THEN 1 .. scope - 1 ELSE 1 .. Len(Scopes)

ScopesKept ==
    /\ ~Building => b.scopesDone
    /\ AllAnd(b.scopeWheres)
    /\ b.scopesDone /\ ~b.skipScopes /\ ~lapsed =>
          \A k \in Applied : Included(k)

\* A clause list's clauses.
LEMMA ClauseLists ==
    ASSUME NEW x \in Clauses, NEW y \in Clauses
    PROVE  /\ x \o y \in Clauses
           /\ Len(x \o y) = Len(x) + Len(y)
           /\ \A i \in 1 .. Len(x) : (x \o y)[i] = x[i]
           /\ \A i \in 1 .. Len(y) : (x \o y)[Len(x) + i] = y[i]
           /\ AllAnd(x) /\ AllAnd(y) => AllAnd(x \o y)
<1> DEFINE C == [boolean : Booleans, test : SUBSET Ids]
<1>1. x \in Seq(C) /\ y \in Seq(C)
  BY DEF Clauses
<1>2. /\ x \o y \in Seq(C) /\ Len(x \o y) = Len(x) + Len(y)
      /\ \A i \in 1 .. Len(x) + Len(y) :
            (x \o y)[i] = IF i <= Len(x) THEN x[i] ELSE y[i - Len(x)]
  BY <1>1, ConcatProperties, Zenon
<1>3. Len(x) \in Nat /\ Len(y) \in Nat
  BY <1>1
<1>4. \A i \in 1 .. Len(x) : (x \o y)[i] = x[i]
  BY <1>2, <1>3
<1>5. \A i \in 1 .. Len(y) : (x \o y)[Len(x) + i] = y[i]
  BY <1>2, <1>3
<1>6. AllAnd(x) /\ AllAnd(y) => AllAnd(x \o y)
  BY <1>2, <1>3 DEF AllAnd
<1> QED  BY <1>2, <1>4, <1>5, <1>6 DEF Clauses

LEMMA ListsExtend ==
    ASSUME NEW x \in Clauses, NEW y \in Clauses
    PROVE  /\ \A i \in 1 .. Len(x) : \E j \in 1 .. Len(x \o y) :
                 (x \o y)[j] = x[i]
           /\ \A i \in 1 .. Len(y) : \E j \in 1 .. Len(x \o y) :
                 (x \o y)[j] = y[i]
<1>1. Len(x) \in Nat /\ Len(y) \in Nat
  BY DEF Clauses
<1>2. /\ Len(x \o y) = Len(x) + Len(y)
      /\ \A i \in 1 .. Len(x) : (x \o y)[i] = x[i]
      /\ \A i \in 1 .. Len(y) : (x \o y)[Len(x) + i] = y[i]
  BY ClauseLists
<1>3. /\ \A i \in 1 .. Len(x) : i \in 1 .. Len(x \o y)
      /\ \A i \in 1 .. Len(y) : Len(x) + i \in 1 .. Len(x \o y)
  BY <1>1, <1>2
<1> QED  BY <1>2, <1>3

LEMMA Singletons ==
    ASSUME NEW boolean \in Booleans, NEW test \in SUBSET Ids
    PROVE  /\ <<[boolean |-> boolean, test |-> test]>> \in Clauses
           /\ And(test) = [boolean |-> "AND", test |-> test]
           /\ AllAnd(<<And(test)>>) /\ <<And(test)>> \in Clauses
BY DEF Clauses, And, AllAnd, Booleans

LEMMA AppendClause ==
    ASSUME NEW x \in Clauses, NEW ids \in SUBSET Ids
    PROVE  Append(x, And(ids)) = x \o <<And(ids)>>
<1> DEFINE C == [boolean : Booleans, test : SUBSET Ids]
<1>1. x \in Seq(C) /\ And(ids) \in C
  BY DEF Clauses, And, Booleans
<1> HIDE DEF C
<1> QED  BY <1>1, AppendIsConcat

-----------------------------------------------------------------------------
LEMMA SaidTyped ==
    ASSUME NEW boolean, NEW ids \in SUBSET Ids, said \in Seq(SUBSET Ids)
    PROVE  Said(boolean, ids) \in Seq(SUBSET Ids)
<1>1. CASE boolean = "OR" \/ said = <<>>
  BY <1>1 DEF Said
<1>2. CASE ~(boolean = "OR" \/ said = <<>>)
  <2>1. Len(said) \in 1 .. Len(said)
    BY <1>2
  <2>2. said[Len(said)] \cap ids \in SUBSET Ids
    BY <2>1
  <2> QED  BY <1>2, <2>1, <2>2, ExceptSeq DEF Said
<1> QED  BY <1>1, <1>2

\* Adding clauses changes one of the two lists.
LEMMA AddTyped ==
    ASSUME b \in Builder, NEW clauses \in Clauses, NEW inScope \in BOOLEAN
    PROVE  /\ AddClauses(b, clauses, inScope) \in Builder
           /\ inScope => AddClauses(b, clauses, inScope).scopeWheres
                            = b.scopeWheres \o clauses
           /\ ~inScope => AddClauses(b, clauses, inScope).scopeWheres
                            = b.scopeWheres
           /\ AddClauses(b, clauses, inScope).scopesDone = b.scopesDone
           /\ AddClauses(b, clauses, inScope).skipScopes = b.skipScopes
<1>1. b.wheres \o clauses \in Clauses /\ b.scopeWheres \o clauses \in Clauses
  BY ClauseLists DEF Builder
<1> QED  BY <1>1 DEF AddClauses, Builder

\* The calls that add one predicate.
LEMMA AddsTyped ==
    ASSUME TypeOK, NEW boolean \in Booleans, NEW test \in SUBSET Ids,
           NEW meant \in SUBSET Ids, Adds(boolean, test, meant)
    PROVE  /\ TypeOK'
           /\ b'.scopeWheres = b.scopeWheres
           /\ b'.scopesDone = b.scopesDone
           /\ b'.skipScopes = b.skipScopes
           /\ UNCHANGED <<ctx, op, scope, lapsed>>
<1>1. /\ b' \in Builder /\ b'.scopeWheres = b.scopeWheres
      /\ b'.scopesDone = b.scopesDone /\ b'.skipScopes = b.skipScopes
  BY Singletons, AddTyped DEF Adds, TypeOK
<1>2. said' \in Seq(SUBSET Ids)
  BY SaidTyped DEF Adds, TypeOK
<1>3. calls' \in 0 .. MaxCalls
  BY ConstantsAssumption DEF Adds, Asks, TypeOK
<1>4. DOMAIN <<>> = {}
  OBVIOUS
<1> QED  BY <1>1, <1>2, <1>3, <1>4 DEF Adds, Asks, TypeOK, Ready

Predicating == Where \/ WhereGroup \/ WhereHas \/ WhereHasCount

LEMMA PredicatingAdds ==
    ASSUME Predicating
    PROVE  \E boolean \in Booleans, test \in SUBSET Ids, meant \in SUBSET Ids :
              Adds(boolean, test, meant)
<1>1. CASE Where
  BY <1>1, ConstantsAssumption DEF Where
<1>2. CASE WhereGroup
  <2>1. \A group : Matching(group, Ids) \in SUBSET Ids
    BY DEF Matching
  <2> QED  BY <1>2, <2>1 DEF WhereGroup
<1>3. CASE WhereHas
  BY <1>3 DEF WhereHas
<1>4. CASE WhereHasCount
  BY <1>4 DEF WhereHasCount
<1> QED  BY <1>1, <1>2, <1>3, <1>4 DEF Predicating

\* A statement touches rows its where list selects, in one of the three modes.
LEMMA StatementsHit ==
    ASSUME TypeOK, Statement
    PROVE  /\ scope = Ready /\ op # "none"
           /\ \E mode \in Modes : touched' \subseteq Hit(mode)
           /\ DOMAIN counts' \subseteq touched'
<1>0. /\ b.trashed \in Modes
      /\ {"exclude", "include", "only"} \subseteq Modes
      /\ DOMAIN <<>> = {}
  BY DEF TypeOK, Builder, Modes
<1>1. ASSUME NEW limit, Select(limit)
      PROVE  touched' \subseteq Hit(b.trashed) /\ DOMAIN counts' \subseteq touched'
  BY <1>0, <1>1 DEF Select
<1>2. CASE Get
  BY <1>0, <1>1, <1>2 DEF Get, Selecting
<1>3. CASE First
  BY <1>0, <1>1, <1>3 DEF First, Selecting
<1>4. CASE Count \/ CountPages
  BY <1>0, <1>4 DEF Count, CountPages, Selecting
<1>5. CASE Update \/ Delete \/ ForceDelete \/ Restore
  BY <1>0, <1>5 DEF Update, Delete, ForceDelete, Restore, Write, Selecting
<1> QED  BY <1>2, <1>3, <1>4, <1>5 DEF Statement

\* What a statement leaves: the builder but for its limit, and no open scope.
LEMMA StatementsTyped ==
    ASSUME TypeOK, Statement
    PROVE  /\ TypeOK'
           /\ b'.scopeWheres = b.scopeWheres
           /\ b'.scopesDone = b.scopesDone
           /\ b'.skipScopes = b.skipScopes
           /\ UNCHANGED <<ctx, lapsed>>
           /\ scope' \in {0, Ready}
<1>1. touched' \subseteq Ids /\ DOMAIN counts' \subseteq touched'
  BY StatementsHit DEF Hit, Matching
<1>2. Ready \in Nat \ {0}
  BY ConstantsAssumption DEF Ready
<1>3. CASE Get \/ Count
  BY <1>1, <1>2, <1>3 DEF Get, Count, Returns, TypeOK, Ready
<1>4. CASE First
  BY <1>1, <1>2, <1>4 DEF First, Returns, TypeOK, Builder, Ready
<1>5. CASE CountPages
  <2>1. PICK n \in Limits, page \in Pages :
           b' = [b EXCEPT !.limit = n, !.offset = (page - 1) * n]
    BY <1>5 DEF CountPages
  <2>2. n \in Nat /\ page - 1 \in Nat
    BY ConstantsAssumption
  <2>3. (page - 1) * n \in Nat
    BY <2>2
  <2>4. /\ b' \in Builder /\ b'.scopeWheres = b.scopeWheres
        /\ b'.scopesDone = b.scopesDone /\ b'.skipScopes = b.skipScopes
    BY <2>1, <2>2, <2>3 DEF TypeOK, Builder
  <2>5. /\ op' \in Terminals \cup {"none"} /\ scope' \in {0, Ready}
        /\ scope' = 0 <=> op' = "none"
    BY <1>2, <1>5 DEF CountPages, Selecting, Returns, Terminals, Reads
  <2> QED
    BY <1>1, <1>2, <1>5, <2>4, <2>5 DEF CountPages, TypeOK
<1>6. CASE Update \/ Delete \/ ForceDelete \/ Restore
  BY <1>1, <1>2, <1>6
     DEF Update, Delete, ForceDelete, Restore, Write, Returns, TypeOK
<1> QED  BY <1>3, <1>4, <1>5, <1>6 DEF Statement

-----------------------------------------------------------------------------
\* The setters of the builder.
LEMMA SettersTyped ==
    ASSUME b \in Builder
    PROVE  /\ Fail(b) \in Builder
           /\ [b EXCEPT !.skipScopes = TRUE] \in Builder
           /\ [b EXCEPT !.scopesDone = TRUE] \in Builder
           /\ \A mode \in Modes : [b EXCEPT !.trashed = mode] \in Builder
           /\ \A n \in Nat : [b EXCEPT !.limit = n] \in Builder
           /\ \A rel \in Relations, closure \in Closures :
                 [b EXCEPT !.withCount = <<rel, closure>>] \in Builder
<1>1. \A rel \in Relations, closure \in Closures :
         [b EXCEPT !.withCount = <<rel, closure>>] \in Builder
  BY DEF Builder
<1> QED  BY <1>1 DEF Builder, Fail

LEMMA NewBuilderTyped == NewBuilder \in Builder
<1>1. <<>> \in Clauses /\ NoCount \in {NoCount} \cup (Relations \X Closures)
  BY DEF Clauses
<1> QED  BY <1>1 DEF NewBuilder, Builder, Modes

\* The lists scopes may add.
LEMMA ScopeLists ==
    ASSUME TypeOK, Applying, ~Building
    PROVE  /\ scope \in 1 .. Len(Scopes)
           /\ ScopeAdds[Scopes[scope]][ctx] \in Clauses
<1>1. scope \in 1 .. Len(Scopes)
  BY ConstantsAssumption DEF TypeOK, Applying, Building, Ready
<1>2. Scopes[scope] \in DOMAIN ScopeAdds
  BY <1>1, ConstantsAssumption
<1> QED  BY <1>1, <1>2, ConstantsAssumption DEF TypeOK, Clauses, Booleans

\* The state keeps its shape: no call, failing scope or statement leaves the
\* builder in scope or its lists malformed.
LEMMA TypeStep ==
    ASSUME TypeOK, [Next]_vars
    PROVE  TypeOK'
<1>0. /\ DOMAIN <<>> = {} /\ Ready \in Nat \ {0} /\ Ready' = Ready
      /\ <<>> \in Clauses /\ <<>> \in Seq(SUBSET Ids)
  BY ConstantsAssumption DEF Ready, Clauses
<1>1. CASE Predicating
  BY <1>1, PredicatingAdds, AddsTyped
<1>2. CASE BadCall
  <2>1. b' \in Builder /\ calls' \in 0 .. MaxCalls
    BY <1>2, SettersTyped, ConstantsAssumption DEF BadCall, Asks, TypeOK
  <2> QED  BY <1>0, <1>2, <2>1 DEF BadCall, Asks, TypeOK
<1>3. CASE WithCount
  <2>1. b' \in Builder /\ calls' \in 0 .. MaxCalls
    BY <1>3, SettersTyped, ConstantsAssumption DEF WithCount, Asks, TypeOK
  <2> QED  BY <1>0, <1>3, <2>1 DEF WithCount, Asks, TypeOK
<1>4. CASE Modify
  <2>1. {"include", "only"} \subseteq Modes /\ Limits \subseteq Nat
    BY ConstantsAssumption DEF Modes
  <2>2. b \in Builder
    BY DEF TypeOK
  <2>3. b' \in Builder
    BY <1>4, <2>1, <2>2, SettersTyped DEF Modify
  <2>4. calls' \in 0 .. MaxCalls
    BY <1>4, ConstantsAssumption DEF Modify, Asks, TypeOK
  <2> QED  BY <1>0, <1>4, <2>3, <2>4 DEF Modify, Asks, TypeOK
<1>5. CASE NewQuery
  <2>1. b' \in Builder
    BY <1>5, NewBuilderTyped DEF NewQuery
  <2>2. calls' \in 0 .. MaxCalls
    BY <1>5, ConstantsAssumption DEF NewQuery
  <2> QED  BY <1>0, <1>5, <2>1, <2>2 DEF NewQuery, TypeOK
<1>6. ASSUME NEW terminal \in Terminals, Call(terminal)
      PROVE  TypeOK'
  <2>1. b' \in Builder /\ calls' \in 0 .. MaxCalls
    BY <1>6, SettersTyped, ConstantsAssumption DEF Call, Asks, TypeOK
  <2>2. scope' \in 1 .. Ready
    BY <1>0, <1>6 DEF Call
  <2>3. terminal # "none"
    BY DEF Terminals, Reads
  <2> QED  BY <1>0, <1>6, <2>1, <2>2, <2>3 DEF Call, Asks, TypeOK
<1>7. CASE ScopeApplies
  <2>1. b' \in Builder
    BY <1>7, ScopeLists, AddTyped DEF ScopeApplies, Applying, TypeOK
  <2>2. scope' \in 1 .. Ready
    BY <1>0, <1>7, ScopeLists DEF ScopeApplies, Applying, Ready
  <2>3. /\ op # "none"
        /\ UNCHANGED <<rows, ctx, op, touched, counts, calls, said, lapsed>>
    BY <1>7 DEF ScopeApplies, Applying, Building
  <2> QED  BY <1>0, <2>1, <2>2, <2>3 DEF TypeOK
<1>8. CASE ScopeRejects
  BY <1>0, <1>8 DEF ScopeRejects, Returns, TypeOK
<1>9. CASE ScopeFails
  <2>1. b' \in Builder
    BY <1>9, SettersTyped DEF ScopeFails, TypeOK
  <2> QED
    BY <1>0, <1>9, <2>1 DEF ScopeFails, Applying, Building, TypeOK
<1>10. CASE Statement
  BY <1>10, StatementsTyped
<1>11. CASE StatementFails
  BY <1>0, <1>11 DEF StatementFails, Returns, TypeOK
<1>12. CASE OthersWrite
  BY <1>0, <1>12 DEF OthersWrite, TypeOK
<1>13. CASE UNCHANGED vars
  BY <1>0, <1>13 DEF vars, TypeOK
<1> QED
  BY <1>1, <1>2, <1>3, <1>4, <1>5, <1>6, <1>7, <1>8, <1>9, <1>10, <1>11,
     <1>12, <1>13 DEF Next, Describe, ApplyScopes, Predicating

LEMMA TypeInit == Init => TypeOK
<1>1. <<>> \in Seq(SUBSET Ids) /\ DOMAIN <<>> = {}
  OBVIOUS
<1>2. Ready \in Nat
  BY ConstantsAssumption DEF Ready
<1> QED
  <2>1. Init => rows \in [Ids -> {"live", "trashed", "gone"}]
    BY DEF Init
  <2>2. 0 \in 0 .. MaxCalls /\ 0 \in 0 .. Ready
    BY <1>2, ConstantsAssumption
  <2> QED  BY <1>1, <2>1, <2>2, NewBuilderTyped DEF Init, TypeOK

\* The types of a builder and its history hold for every number of calls,
\* scopes, relations and rows.
THEOREM TypeCorrect == Spec => []TypeOK
<1> QED  BY TypeInit, TypeStep, PTL DEF Spec

-----------------------------------------------------------------------------
\* Where nothing happens to the scope predicates, they stay.
LEMMA KeptUnchanged ==
    ASSUME ScopesKept, UNCHANGED <<ctx, op, scope, lapsed>>,
           b'.scopeWheres = b.scopeWheres, b'.scopesDone = b.scopesDone,
           b.scopesDone => b'.skipScopes = b.skipScopes
    PROVE  ScopesKept'
BY DEF ScopesKept, Included, Applied, Applying, Building, AllAnd, Ready

\* A scope's list joins those of the scopes before it.
LEMMA KeptByScope ==
    ASSUME TypeOK, ScopesKept, ScopeApplies,
           AllAnd(ScopeAdds[Scopes[scope]][ctx])
    PROVE  ScopesKept'
<1> DEFINE list == ScopeAdds[Scopes[scope]][ctx]
<1>1. /\ Applying /\ ~Building
      /\ b' = AddClauses(b, list, TRUE) /\ scope' = scope + 1
      /\ UNCHANGED <<ctx, op, lapsed>>
  BY DEF ScopeApplies, Applying
<1>2. scope \in 1 .. Len(Scopes) /\ list \in Clauses /\ Len(Scopes) \in Nat
  BY <1>1, ScopeLists, ConstantsAssumption
<1>3. b \in Builder /\ b.scopeWheres \in Clauses
  BY DEF TypeOK, Builder
<1>4. /\ b'.scopeWheres = b.scopeWheres \o list
      /\ b'.scopesDone = b.scopesDone /\ b'.skipScopes = b.skipScopes
  BY <1>1, <1>2, <1>3, AddTyped
<1> DEFINE kept == b.scopeWheres
<1>5. /\ \A i \in 1 .. Len(kept) : \E j \in 1 .. Len(kept \o list) :
            (kept \o list)[j] = kept[i]
      /\ \A i \in 1 .. Len(list) : \E j \in 1 .. Len(kept \o list) :
            (kept \o list)[j] = list[i]
  BY <1>2, <1>3, ListsExtend, Zenon
<1>6. AllAnd(b'.scopeWheres)
  <2>1. AllAnd(kept) /\ AllAnd(list)
    BY DEF ScopesKept
  <2>2. AllAnd(kept \o list)
    BY <1>2, <1>3, <2>1, ClauseLists, Zenon
  <2> QED  BY <1>4, <2>2
<1>7. ASSUME NEW k, Included(k)
      PROVE  Included(k)'
  <2> DEFINE listK == ScopeAdds[Scopes[k]][ctx]
  <2>1. \A i \in 1 .. Len(listK) : \E j \in 1 .. Len(kept) :
           kept[j] = listK[i]
    BY <1>7, Zenon DEF Included
  <2>2. \A i \in 1 .. Len(listK) : \E j \in 1 .. Len(kept \o list) :
           (kept \o list)[j] = listK[i]
    BY <1>5, <2>1, ZenonT(30)
  <2> QED  BY <1>1, <1>4, <2>2, ZenonT(30) DEF Included
<1>8. ASSUME NEW k, k = scope
      PROVE  Included(k)'
  <2> DEFINE listK == ScopeAdds[Scopes[k]][ctx]
  <2>1. listK = list
    BY <1>8
  <2>2. \A i \in 1 .. Len(listK) : \E j \in 1 .. Len(kept \o list) :
           (kept \o list)[j] = listK[i]
    BY <1>5, <2>1, Zenon
  <2> QED  BY <1>1, <1>4, <2>2, ZenonT(30) DEF Included
<1>9. \A k \in Applied' : k \in Applied \/ k = scope
  <2>1. Applied = 1 .. scope - 1
    BY <1>1 DEF Applied
  <2>2. Applied' = 1 .. scope
    <3>1. CASE scope + 1 < Ready
      BY <1>1, <1>2, <3>1 DEF Applied, Applying, Building, Ready
    <3>2. CASE ~(scope + 1 < Ready)
      <4>1. scope = Len(Scopes) /\ ~Applying'
        BY <1>1, <1>2, <3>2 DEF Applying, Ready
      <4> QED  BY <4>1 DEF Applied
    <3> QED  BY <3>1, <3>2
  <2> QED  BY <1>2, <2>1, <2>2
<1>10. ~Building'
  BY <1>1 DEF Building
<1>11. b.scopesDone
  BY <1>1 DEF ScopesKept
<1>12. b'.scopesDone /\ ~b'.skipScopes /\ ~lapsed' => \A k \in Applied' : Included(k)'
  BY <1>1, <1>4, <1>7, <1>8, <1>9, <1>11 DEF ScopesKept
<1> QED  BY <1>4, <1>6, <1>10, <1>11, <1>12 DEF ScopesKept

ScopesOnlyAnd ==
    \A s \in DOMAIN ScopeAdds, c \in Contexts : AllAnd(ScopeAdds[s][c])

\* Every step keeps the scope predicates that have been added.
LEMMA KeptStep ==
    ASSUME ScopesOnlyAnd, TypeOK, ScopesKept, [Next]_vars
    PROVE  ScopesKept'
<1>0. b \in Builder /\ Ready \in Nat \ {0} /\ Ready' = Ready
  BY ConstantsAssumption DEF TypeOK, Ready
<1>1. CASE Predicating
  BY <1>1, PredicatingAdds, AddsTyped, KeptUnchanged
<1>2. CASE BadCall \/ WithCount \/ Modify
  <2>1. UNCHANGED <<ctx, op, scope, lapsed>>
    BY <1>2 DEF BadCall, WithCount, Modify
  <2>2. /\ b'.scopeWheres = b.scopeWheres /\ b'.scopesDone = b.scopesDone
        /\ b.scopesDone => b'.skipScopes = b.skipScopes
    BY <1>0, <1>2 DEF BadCall, WithCount, Modify, Fail, Builder
  <2> QED  BY <2>1, <2>2, KeptUnchanged
<1>3. CASE NewQuery
  <2>1. b'.scopeWheres = <<>> /\ ~b'.scopesDone /\ op' = "none"
    BY <1>3 DEF NewQuery, NewBuilder, Building
  <2> QED  BY <2>1 DEF ScopesKept, AllAnd, Building
<1>4. ASSUME NEW terminal \in Terminals, Call(terminal)
      PROVE  ScopesKept'
  <2>1. /\ b'.scopeWheres = b.scopeWheres /\ b'.scopesDone
        /\ b'.skipScopes = b.skipScopes
        /\ op = "none" /\ UNCHANGED <<ctx, lapsed>>
    BY <1>0, <1>4 DEF Call, Asks, Building, Builder
  <2>2. ASSUME ~b'.skipScopes, ~lapsed'
        PROVE  \A k \in Applied' : Included(k)'
    <3>1. CASE b.scopesDone
      <4>1. Applied = 1 .. Len(Scopes) /\ Applied' = 1 .. Len(Scopes)
        BY <1>0, <1>4, <2>1, <3>1
           DEF Call, NothingToApply, Applied, Applying, Building, Ready
      <4>2. ASSUME NEW k
            PROVE  Included(k)' <=> Included(k)
        BY <2>1 DEF Included
      <4>3. \A k \in Applied : Included(k)
        BY <2>1, <2>2, <3>1 DEF ScopesKept
      <4> QED  BY <4>1, <4>2, <4>3
    <3>2. CASE ~b.scopesDone /\ Scopes = <<>>
      <4>1. Applied' = {}
        BY <1>0, <1>4, <3>2 DEF Call, NothingToApply, Applied, Applying, Ready
      <4> QED  BY <4>1
    <3>3. CASE ~b.scopesDone /\ Scopes # <<>>
      <4>1. scope' = 1 /\ op' = terminal /\ terminal # "none" /\ 1 < Ready
        BY <1>4, <2>1, <2>2, <3>3, ConstantsAssumption
           DEF Call, NothingToApply, Terminals, Reads, Ready
      <4>2. Applied' = {}
        BY <1>0, <4>1 DEF Applied, Applying, Building
      <4> QED  BY <4>2
    <3> QED  BY <3>1, <3>2, <3>3
  <2> QED  BY <2>1, <2>2 DEF ScopesKept
<1>5. CASE ScopeApplies
  <2>1. Applying /\ ~Building
    BY <1>5 DEF ScopeApplies, Applying
  <2>2. AllAnd(ScopeAdds[Scopes[scope]][ctx])
    BY <2>1, ScopeLists, ConstantsAssumption DEF TypeOK, ScopesOnlyAnd
  <2> QED  BY <1>5, <2>2, KeptByScope
<1>6. CASE ScopeRejects \/ ScopeFails
  <2>1. /\ lapsed' /\ b'.scopeWheres = b.scopeWheres
        /\ b'.scopesDone = b.scopesDone /\ b.scopesDone
    BY <1>0, <1>6 DEF ScopeRejects, ScopeFails, Fail, Builder, Applying, ScopesKept
  <2> QED  BY <2>1 DEF ScopesKept
<1>7. CASE Statement
  <2>1. /\ b'.scopeWheres = b.scopeWheres /\ b'.scopesDone = b.scopesDone
        /\ b'.skipScopes = b.skipScopes /\ UNCHANGED <<ctx, lapsed>>
        /\ scope' \in {0, Ready} /\ scope = Ready /\ op # "none" /\ TypeOK'
    BY <1>7, StatementsTyped, StatementsHit
  <2>2. Applied = 1 .. Len(Scopes) /\ Applied' = 1 .. Len(Scopes)
    BY <1>0, <2>1 DEF Applied, Applying, Building, TypeOK
  <2> QED  BY <2>1, <2>2 DEF ScopesKept, Included, Building
<1>8. CASE StatementFails
  <2>1. /\ UNCHANGED <<b, ctx, lapsed>> /\ op' = "none" /\ scope = Ready
        /\ b.scopesDone
    BY <1>8 DEF StatementFails, Returns, ScopesKept
  <2>2. Applied = 1 .. Len(Scopes) /\ Applied' = 1 .. Len(Scopes)
    BY <1>0, <2>1 DEF Applied, Applying, Building
  <2> QED  BY <2>1, <2>2 DEF ScopesKept, Included
<1>9. CASE OthersWrite \/ UNCHANGED vars
  BY <1>9, KeptUnchanged DEF OthersWrite, vars
<1> QED
  BY <1>1, <1>2, <1>3, <1>4, <1>5, <1>6, <1>7, <1>8, <1>9
     DEF Next, Describe, ApplyScopes, Predicating

-----------------------------------------------------------------------------
\* The states of the rows a soft-delete mode lets through.
ModeStates(mode) ==
    CASE mode = "exclude" -> {"live"}
      [] mode = "only"    -> {"trashed"}
      [] mode = "include" -> {"live", "trashed", "gone"}

LEMMA SoftDeleteMeans ==
    ASSUME TypeOK, NEW mode \in Modes, NEW id \in Ids
    PROVE  /\ SoftDeletePredicate(mode) \in Clauses
           /\ AllAnd(SoftDeletePredicate(mode))
           /\ Satisfies(SoftDeletePredicate(mode), id) <=>
                 rows[id] \in ModeStates(mode)
<1>1. /\ <<>> \in Clauses /\ AllAnd(<<>>) /\ Satisfies(<<>>, id)
  BY DEF Clauses, AllAnd, Satisfies
<1>2. ASSUME NEW ids \in SUBSET Ids
      PROVE  /\ <<And(ids)>> \in Clauses /\ AllAnd(<<And(ids)>>)
             /\ Satisfies(<<And(ids)>>, id) <=> id \in ids
  <2>1. /\ <<And(ids)>> \in Clauses /\ AllAnd(<<And(ids)>>)
        /\ Len(<<And(ids)>>) = 1 /\ <<And(ids)>>[1].test = ids
    BY Singletons DEF Booleans, And
  <2>2. Satisfies(<<And(ids)>>, id) <=>
            \A i \in 1 .. 1 : id \in <<And(ids)>>[i].test
    BY <2>1, AndLists DEF Clauses
  <2> QED  BY <2>1, <2>2
<1>3. rows[id] \in {"live", "trashed", "gone"}
  BY DEF TypeOK
<1>4. CASE mode = "include"
  BY <1>1, <1>3, <1>4 DEF SoftDeletePredicate, ModeStates
<1>5. CASE mode = "exclude"
  <2>1. SoftDeletePredicate(mode) = <<And({x \in Ids : rows[x] = "live"})>>
    BY <1>5 DEF SoftDeletePredicate
  <2>2. ModeStates(mode) = {"live"}
    BY <1>5 DEF ModeStates
  <2>3. {x \in Ids : rows[x] = "live"} \in SUBSET Ids
    OBVIOUS
  <2>4. id \in {x \in Ids : rows[x] = "live"} <=> rows[id] \in {"live"}
    OBVIOUS
  <2> QED  BY <1>2, <2>1, <2>2, <2>3, <2>4
<1>6. CASE mode = "only"
  <2>1. SoftDeletePredicate(mode) = <<And({x \in Ids : rows[x] = "trashed"})>>
    BY <1>6 DEF SoftDeletePredicate
  <2>2. ModeStates(mode) = {"trashed"}
    BY <1>6 DEF ModeStates
  <2>3. {x \in Ids : rows[x] = "trashed"} \in SUBSET Ids
    OBVIOUS
  <2>4. id \in {x \in Ids : rows[x] = "trashed"} <=> rows[id] \in {"trashed"}
    OBVIOUS
  <2> QED  BY <1>2, <2>1, <2>2, <2>3, <2>4
<1> QED  BY <1>4, <1>5, <1>6 DEF Modes

\* A statement's where list selects what every scope predicate, the soft-delete
\* mode and the application's list admit: the first two lead it, joined by AND,
\* and the application's predicates are one group behind them.
LEMMA EffectiveMeans ==
    ASSUME TypeOK, AllAnd(b.scopeWheres), NEW mode \in Modes, NEW id \in Ids
    PROVE  Satisfies(EffectiveWheres(mode), id) <=>
               /\ Satisfies(b.scopeWheres, id)
               /\ rows[id] \in ModeStates(mode)
               /\ Satisfies(b.wheres, id)
<1> DEFINE kept == b.scopeWheres
           pred == SoftDeletePredicate(mode)
           lead == kept \o pred
           ids  == Matching(b.wheres, Ids)
<1>1. kept \in Clauses /\ AllAnd(kept)
  BY DEF TypeOK, Builder
<1>2. /\ pred \in Clauses /\ AllAnd(pred)
      /\ Satisfies(pred, id) <=> rows[id] \in ModeStates(mode)
  BY SoftDeleteMeans
<1>3. /\ lead \in Clauses /\ AllAnd(lead)
      /\ Satisfies(lead, id) <=> Satisfies(kept, id) /\ Satisfies(pred, id)
  <2>1. lead \in Clauses
    BY <1>1, <1>2, ClauseLists, Zenon
  <2> HIDE DEF pred
  <2>2. /\ AllAnd(lead)
        /\ Satisfies(lead, id) <=> Satisfies(kept, id) /\ Satisfies(pred, id)
    BY <1>1, <1>2, AndConcat DEF Clauses
  <2> QED  BY <2>1, <2>2
<1>4. ids \in SUBSET Ids /\ (id \in ids <=> Satisfies(b.wheres, id))
  BY DEF Matching
<1>5. CASE lead = <<>>
  <2>1. Satisfies(lead, id) /\ EffectiveWheres(mode) = b.wheres
    BY <1>5 DEF Satisfies, EffectiveWheres
  <2> QED  BY <1>2, <1>3, <2>1
<1>6. CASE lead # <<>> /\ b.wheres = <<>>
  <2>1. Satisfies(b.wheres, id) /\ EffectiveWheres(mode) = lead
    BY <1>6 DEF Satisfies, EffectiveWheres
  <2> QED  BY <1>2, <1>3, <2>1
<1>7. CASE lead # <<>> /\ b.wheres # <<>>
  <2>1. EffectiveWheres(mode) = Append(lead, And(ids))
    BY <1>7 DEF EffectiveWheres
  <2> HIDE DEF lead, ids
  <2>2. Append(lead, And(ids)) = lead \o <<And(ids)>>
    BY <1>3, <1>4, AppendClause, Zenon
  <2>3. /\ <<And(ids)>> \in Clauses /\ AllAnd(<<And(ids)>>)
        /\ Len(<<And(ids)>>) = 1 /\ <<And(ids)>>[1].test = ids
    BY <1>4, Singletons DEF Booleans, And
  <2>4. Satisfies(<<And(ids)>>, id) <=> id \in ids
    <3>1. Satisfies(<<And(ids)>>, id) <=>
              \A i \in 1 .. 1 : id \in <<And(ids)>>[i].test
      BY <2>3, AndLists DEF Clauses
    <3> QED  BY <2>3, <3>1
  <2>5. Satisfies(lead \o <<And(ids)>>, id) <=>
            Satisfies(lead, id) /\ Satisfies(<<And(ids)>>, id)
    BY <1>3, <2>3, AndConcat DEF Clauses
  <2> QED  BY <1>2, <1>3, <1>4, <2>1, <2>2, <2>4, <2>5
<1> QED  BY <1>5, <1>6, <1>7

\* Lists the scopes add hold where all that the builder has kept hold.
LEMMA KeptIsScoped ==
    ASSUME ScopesOnlyAnd, TypeOK, ScopesKept, scope = Ready, op # "none",
           ~b.skipScopes, ~lapsed, NEW id \in Ids, Satisfies(b.scopeWheres, id)
    PROVE  Scoped(id)
<1>1. id \in Ids /\ \A j \in 1 .. Len(b.scopeWheres) :
                        id \in b.scopeWheres[j].test
  BY AndLists DEF Clauses, TypeOK, Builder, ScopesKept
<1>2. Applied = 1 .. Len(Scopes) /\ b.scopesDone
  BY ConstantsAssumption DEF Applied, Applying, Building, Ready, ScopesKept
<1>3. ASSUME NEW k \in 1 .. Len(Scopes)
      PROVE  id \in Matching(ScopeAdds[Scopes[k]][ctx], Ids)
  <2> DEFINE list == ScopeAdds[Scopes[k]][ctx]
  <2>1. list \in Clauses /\ AllAnd(list)
    <3>1. Scopes[k] \in DOMAIN ScopeAdds /\ ctx \in Contexts
      BY ConstantsAssumption DEF TypeOK
    <3> QED
      BY <3>1, ConstantsAssumption DEF ScopesOnlyAnd, Clauses, Booleans
  <2>2. \A i \in 1 .. Len(list) : \E j \in 1 .. Len(b.scopeWheres) :
           b.scopeWheres[j] = list[i]
    BY <1>2 DEF ScopesKept, Included
  <2>3. \A i \in 1 .. Len(list) : id \in list[i].test
    BY <1>1, <2>2
  <2>4. Satisfies(list, id)
    BY <2>1, <2>3, AndLists DEF Clauses
  <2> QED  BY <1>1, <2>4 DEF Matching
<1> QED  BY <1>3 DEF Scoped

LEMMA HitIsScoped ==
    ASSUME ScopesOnlyAnd, TypeOK, ScopesKept, scope = Ready, op # "none",
           ~b.skipScopes, ~lapsed, NEW mode \in Modes, NEW id \in Hit(mode)
    PROVE  Scoped(id)
<1>1. id \in Ids /\ Satisfies(b.scopeWheres, id)
  BY EffectiveMeans DEF Hit, Matching, ScopesKept
<1> QED  BY <1>1, KeptIsScoped

\* With scopes that only use AND, no statement of any terminal touches a row
\* outside a scope, for every list of scopes, every chain of calls on the
\* builder and every reuse of it.
THEOREM ScopesConfine == ASSUME ScopesOnlyAnd PROVE Spec => NoRowEscapes
<1>1. Init => ScopesKept
  BY DEF Init, NewBuilder, ScopesKept, AllAnd, Building
<1>2. Spec => [](TypeOK /\ ScopesKept)
  <2>1. TypeOK /\ ScopesKept /\ [Next]_vars => (TypeOK /\ ScopesKept)'
    BY TypeStep, KeptStep
  <2> QED  BY <1>1, <2>1, TypeInit, PTL DEF Spec
<1>3. TypeOK /\ ScopesKept /\ [Next]_vars =>
        [Statement /\ ~lapsed /\ ~b.skipScopes =>
            \A id \in touched' : Scoped(id)]_vars
  BY StatementsHit, HitIsScoped
<1> QED  BY <1>2, <1>3, PTL DEF Spec, NoRowEscapes

-----------------------------------------------------------------------------
(***************************************************************************)
(* The SQL of relations, for closures that only add ANDs.                  *)
(***************************************************************************)
ClosuresOnlyAnd == \A closure \in Closures : AllAnd(closure)

\* The clauses of a subquery over the related rows, before the closure's.
LEMMA SubqueryLead ==
    ASSUME NEW on \in SUBSET Related, NEW r
    PROVE  /\ <<And(on), And(LiveRelated)>> \in
                 Seq([boolean : Booleans, test : SUBSET Related])
           /\ AllAnd(<<And(on), And(LiveRelated)>>)
           /\ Satisfies(<<And(on), And(LiveRelated)>>, r) <=>
                 r \in on /\ r \in LiveRelated
<1> DEFINE lead == <<And(on), And(LiveRelated)>>
           T    == [boolean : Booleans, test : SUBSET Related]
<1>1. And(on) \in T /\ And(LiveRelated) \in T
  BY ConstantsAssumption DEF And, Booleans
<1>2. /\ lead \in Seq(T) /\ Len(lead) = 2
      /\ lead[1] = And(on) /\ lead[2] = And(LiveRelated)
  BY <1>1
<1> HIDE DEF lead
<1>3. AllAnd(lead)
  BY <1>2 DEF AllAnd, And
<1>4. Satisfies(lead, r) <=> \A i \in 1 .. 2 : r \in lead[i].test
  BY <1>2, <1>3, AndLists
<1>5. lead[1].test = on /\ lead[2].test = LiveRelated
  BY <1>2 DEF And
<1> QED  BY <1>2, <1>3, <1>4, <1>5 DEF lead

LEMMA InnerMeans ==
    ASSUME ClosuresOnlyAnd, NEW on \in SUBSET Related, NEW closure \in Closures
    PROVE  Inner(on, closure) = {r \in LiveRelated \cap on : Satisfies(closure, r)}
<1> DEFINE lead == <<And(on), And(LiveRelated)>>
           T    == [boolean : Booleans, test : SUBSET Related]
<1>1. closure \in Seq(T) /\ AllAnd(closure)
  BY ConstantsAssumption DEF ClosuresOnlyAnd, Booleans
<1>2. lead \in Seq(T) /\ AllAnd(lead)
  BY SubqueryLead
<1>3. ASSUME NEW r
      PROVE  Satisfies(lead \o closure, r) <=>
                 r \in on /\ r \in LiveRelated /\ Satisfies(closure, r)
  <2>1. Satisfies(lead, r) <=> r \in on /\ r \in LiveRelated
    BY SubqueryLead
  <2> HIDE DEF lead, T
  <2> QED  BY <1>1, <1>2, <2>1, AndConcat
<1>4. Inner(on, closure) = {r \in Related : Satisfies(lead \o closure, r)}
  BY DEF Inner, Matching
<1> HIDE DEF lead
<1> QED  BY <1>3, <1>4, ConstantsAssumption

\* The related rows that any table of the relation joins to a parent.
Reached(rel, id) ==
    IF rel.kind = "direct" THEN rel.joins[id]
    ELSE UNION {j.joins : j \in JunctionRows(rel, id)}

LEMMA ReachedTyped ==
    ASSUME NEW rel \in Relations, NEW id \in Ids
    PROVE  /\ Reached(rel, id) \subseteq Related
           /\ rel.kind # "direct" =>
                 \A j \in JunctionRows(rel, id) :
                    /\ j.joins \subseteq Related
                    /\ j = [parent |-> id, joins |-> j.joins]
           /\ rel.kind \in {"direct", "pivot", "through"}
<1>1. CASE rel.kind = "direct"
  BY <1>1, RelationsAssumption DEF Reached
<1>2. CASE rel.kind # "direct"
  <2>1. rel.junction \subseteq [parent : Ids, joins : SUBSET Related]
    BY <1>2, RelationsAssumption
  <2>2. \A j \in JunctionRows(rel, id) :
            j.joins \subseteq Related /\ j = [parent |-> id, joins |-> j.joins]
    BY <2>1 DEF JunctionRows
  <2> QED  BY <1>2, <2>2, RelationsAssumption DEF Reached
<1> QED  BY <1>1, <1>2

LEMMA RelatedMeans ==
    ASSUME ClosuresOnlyAnd, NEW rel \in Relations, NEW id \in Ids,
           NEW closure \in Closures
    PROVE  /\ RelatedTo(rel, id, closure) = Inner(Reached(rel, id), closure)
           /\ IsFiniteSet(RelatedTo(rel, id, closure))
<1>1. RelatedTo(rel, id, closure) = Inner(Reached(rel, id), closure)
  BY ReachedTyped, InnerMeans DEF RelatedTo, LiveJoined, Reached
<1>2. Inner(Reached(rel, id), closure) \in SUBSET Related
  BY DEF Inner, Matching
<1> QED  BY <1>1, <1>2, FS_Subset, ConstantsAssumption

\* A pivot row, or intermediate row, is selected if it joins a related row that
\* is asked for.
LEMMA SelectedMeans ==
    ASSUME ClosuresOnlyAnd, NEW rel \in Relations, NEW id \in Ids,
           NEW closure \in Closures, rel.kind # "direct"
    PROVE  Selected(rel, id, closure) =
              {j \in JunctionRows(rel, id) :
                  j.joins \cap RelatedTo(rel, id, closure) # {}}
<1>1. ASSUME NEW j \in JunctionRows(rel, id)
      PROVE  Inner(j.joins, closure) = j.joins \cap RelatedTo(rel, id, closure)
  <2>1. j.joins \in SUBSET Related /\ j.joins \subseteq Reached(rel, id)
    BY ReachedTyped DEF Reached
  <2>2. /\ Inner(j.joins, closure) =
              {r \in LiveRelated \cap j.joins : Satisfies(closure, r)}
        /\ Inner(Reached(rel, id), closure) =
              {r \in LiveRelated \cap Reached(rel, id) : Satisfies(closure, r)}
    BY <2>1, ReachedTyped, InnerMeans
  <2> QED  BY <2>1, <2>2, RelatedMeans
<1> QED  BY <1>1 DEF Selected

LEMMA ExistsMeans ==
    ASSUME ClosuresOnlyAnd, NEW rel \in Relations, NEW id \in Ids,
           NEW closure \in Closures
    PROVE  (Selected(rel, id, closure) # {}) <=> (RelatedTo(rel, id, closure) # {})
<1>1. CASE rel.kind = "direct"
  BY <1>1, RelatedMeans DEF Selected, Reached
<1>2. CASE rel.kind # "direct"
  <2>1. \A r \in RelatedTo(rel, id, closure) :
            \E j \in JunctionRows(rel, id) : r \in j.joins
    BY <1>2 DEF RelatedTo, LiveJoined
  <2> QED  BY <1>2, <2>1, SelectedMeans
<1> QED  BY <1>1, <1>2

\* No pair is attached twice, so a pivot's selected rows are as many as the
\* related rows they join.
LEMMA PivotCountMeans ==
    ASSUME ClosuresOnlyAnd, NEW rel \in Relations, NEW id \in Ids,
           NEW closure \in Closures, rel.kind = "pivot"
    PROVE  Cardinality(Selected(rel, id, closure)) =
              Cardinality(RelatedTo(rel, id, closure))
<1> DEFINE S == RelatedTo(rel, id, closure)
           T == Selected(rel, id, closure)
           f == [r \in S |-> [parent |-> id, joins |-> {r}]]
<1>1. ASSUME NEW j \in JunctionRows(rel, id)
      PROVE  \E r \in Related : j = [parent |-> id, joins |-> {r}]
  <2>1. /\ j \in rel.junction /\ j.joins \in SUBSET Related
        /\ j = [parent |-> id, joins |-> j.joins]
    BY ReachedTyped DEF JunctionRows
  <2>2. Cardinality(j.joins) = 1
    BY <2>1, RelationsAssumption
  <2>3. \E r : j.joins = {r}
    BY <2>1, <2>2, FS_Subset, FS_Singleton, ConstantsAssumption
  <2> QED  BY <2>1, <2>3
<1>2. T = {j \in JunctionRows(rel, id) : j.joins \cap S # {}}
  BY SelectedMeans
<1>3. \A r \in S : \E j \in JunctionRows(rel, id) : r \in j.joins
  BY DEF RelatedTo, LiveJoined
<1> HIDE DEF S, T
<1>4. \A r \in S : [parent |-> id, joins |-> {r}] \in T
  <2> SUFFICES ASSUME NEW r \in S
               PROVE  [parent |-> id, joins |-> {r}] \in T
    OBVIOUS
  <2>1. PICK j \in JunctionRows(rel, id) : r \in j.joins
    BY <1>3
  <2>2. j = [parent |-> id, joins |-> {r}]
    BY <1>1, <2>1
  <2> QED  BY <1>2, <2>1, <2>2
<1>5. \A j \in T : \E r \in S : j = [parent |-> id, joins |-> {r}]
  BY <1>1, <1>2
<1>6. f \in Bijection(S, T)
  <2>1. f \in [S -> T]
    BY <1>4
  <2>2. \A r1, r2 \in S : f[r1] = f[r2] => r1 = r2
    <3> SUFFICES ASSUME NEW r1 \in S, NEW r2 \in S, f[r1] = f[r2]
                 PROVE  r1 = r2
      OBVIOUS
    <3>1. f[r1].joins = {r1} /\ f[r2].joins = {r2}
      OBVIOUS
    <3> QED  BY <3>1
  <2>3. \A j \in T : \E r \in S : f[r] = j
    BY <1>5
  <2> HIDE DEF f
  <2> QED  BY <2>1, <2>2, <2>3, Fun_IsBij
<1>7. IsFiniteSet(S)
  BY RelatedMeans DEF S
<1> QED  BY <1>6, <1>7, FS_Bijection DEF ExistsBijection, S, T

LEMMA CountMeans ==
    ASSUME ClosuresOnlyAnd, NEW rel \in Relations, NEW id \in Ids,
           NEW closure \in Closures
    PROVE  /\ CountSelected(rel, id, closure) =
                 Cardinality(RelatedTo(rel, id, closure))
           /\ Aggregated(rel, id, closure) = RelatedTo(rel, id, closure)
<1>1. RelatedTo(rel, id, closure) = Inner(Reached(rel, id), closure)
  BY RelatedMeans
<1>2. Aggregated(rel, id, closure) = RelatedTo(rel, id, closure)
  BY <1>1 DEF Aggregated, Reached
<1>3. CASE rel.kind = "direct"
  BY <1>1, <1>2, <1>3 DEF CountSelected, Selected, Reached
<1>4. CASE rel.kind = "through"
  BY <1>1, <1>2, <1>4 DEF CountSelected, Reached
<1>5. CASE rel.kind = "pivot"
  BY <1>2, <1>5, PivotCountMeans DEF CountSelected
<1> QED  BY <1>2, <1>3, <1>4, <1>5, ReachedTyped

-----------------------------------------------------------------------------
\* What a step does to the columns a WithCount has filled: a call clears them,
\* a statement fills them, and nothing else touches them or what they count.
LEMMA CountsStep ==
    ASSUME ClosuresOnlyAnd, TypeOK, CountsAreOfLiveRelated, [Next]_vars
    PROVE  CountsAreOfLiveRelated'
<1>0. b \in Builder /\ DOMAIN <<>> = {}
  BY DEF TypeOK
<1>1. CASE counts' = <<>>
  BY <1>0, <1>1 DEF CountsAreOfLiveRelated
<1>2. CASE counts' = counts /\ b'.withCount = b.withCount
  BY <1>2 DEF CountsAreOfLiveRelated, RelatedTo, LiveJoined, JunctionRows
<1>3. ASSUME NEW limit, Select(limit), b'.withCount = b.withCount
      PROVE  CountsAreOfLiveRelated'
  <2>1. CASE b.withCount = NoCount
    BY <1>1, <1>3, <2>1 DEF Select
  <2>2. CASE b.withCount # NoCount
    <3>1. b.withCount[1] \in Relations /\ b.withCount[2] \in Closures
      BY <1>0, <2>2 DEF Builder
    <3>2. touched' \subseteq Ids
      BY <1>3 DEF Select, Hit, Matching
    <3>3. counts' = [id \in touched' |->
                       Cardinality(Aggregated(b.withCount[1], id, b.withCount[2]))]
      BY <1>3, <2>2 DEF Select
    <3>4. \A id \in touched' :
             counts'[id] = Cardinality(RelatedTo(b.withCount[1], id, b.withCount[2]))
      BY <3>1, <3>2, <3>3, CountMeans
    <3> QED
      BY <1>3, <3>3, <3>4
         DEF CountsAreOfLiveRelated, RelatedTo, LiveJoined, JunctionRows
  <2> QED  BY <2>1, <2>2
<1>4. CASE Describe
  BY <1>1, <1>4 DEF Describe, Where, WhereGroup, WhereHas, WhereHasCount, Adds,
                    BadCall, WithCount, Modify, NewQuery, Asks
<1>5. ASSUME NEW terminal \in Terminals, Call(terminal)
      PROVE  CountsAreOfLiveRelated'
  BY <1>1, <1>5 DEF Call, Asks
<1>6. CASE ApplyScopes
  BY <1>0, <1>2, <1>6
     DEF ApplyScopes, ScopeApplies, ScopeRejects, ScopeFails, AddClauses, Fail,
         Builder
<1>7. CASE Statement
  <2>1. CASE Get \/ First
    <3>1. b'.withCount = b.withCount
      BY <1>0, <2>1 DEF Get, First, Builder
    <3> QED  BY <1>3, <2>1, <3>1 DEF Get, First
  <2>2. CASE Count \/ CountPages
    BY <1>1, <2>2 DEF Count, CountPages
  <2>3. CASE Update \/ Delete \/ ForceDelete \/ Restore
    BY <1>1, <2>3 DEF Update, Delete, ForceDelete, Restore, Write
  <2> QED  BY <1>7, <2>1, <2>2, <2>3 DEF Statement
<1>8. CASE StatementFails \/ OthersWrite \/ UNCHANGED vars
  BY <1>2, <1>8 DEF StatementFails, OthersWrite, vars
<1> QED  BY <1>4, <1>5, <1>6, <1>7, <1>8 DEF Next

\* A WithCount column is the number of live related rows its closure admits,
\* through a foreign key, a pivot or an intermediate table, for any tables and
\* any closures that only add ANDs.
THEOREM CountsTrue ==
    ASSUME ClosuresOnlyAnd PROVE Spec => []CountsAreOfLiveRelated
<1>1. Init => CountsAreOfLiveRelated
  BY DEF Init, CountsAreOfLiveRelated
<1> QED  BY <1>1, TypeCorrect, CountsStep, PTL DEF Spec

-----------------------------------------------------------------------------
(***************************************************************************)
(* The user's where list and what the application said.                    *)
(***************************************************************************)
\* The last run of the list, which opens at o, is the last alternative, and
\* the runs before it are the other alternatives.
Describes(alternatives, wheres, o) ==
    /\ LastRun(wheres, o)
    /\ \A id \in Ids :
          id \in alternatives[Len(alternatives)] <=> InLast(wheres, o, id)
    /\ \A id \in Ids :
          (\E i \in 1 .. Len(alternatives) - 1 : id \in alternatives[i])
              <=> InEarlier(wheres, o, id)

Tells(alternatives, wheres) ==
    IF alternatives = <<>> THEN wheres = <<>>
    ELSE wheres # <<>> /\ \E o : Describes(alternatives, wheres, o)

LEMMA TellsMeant ==
    ASSUME NEW alternatives \in Seq(SUBSET Ids), NEW wheres \in Clauses,
           Tells(alternatives, wheres), NEW id \in Ids
    PROVE  Satisfies(wheres, id) <=>
               \/ alternatives = <<>>
               \/ \E i \in 1 .. Len(alternatives) : id \in alternatives[i]
<1>1. CASE alternatives = <<>>
  BY <1>1 DEF Tells, Satisfies
<1>2. CASE alternatives # <<>>
  <2>1. PICK o : Describes(alternatives, wheres, o)
    BY <1>2 DEF Tells
  <2>2. wheres # <<>> /\ Len(wheres) \in Nat
    BY <1>2 DEF Tells, Clauses
  <2>3. Satisfies(wheres, id) <=>
            InEarlier(wheres, o, id) \/ InLast(wheres, o, id)
    BY <2>1, <2>2, RunsMatch DEF Describes
  <2>4. /\ Len(alternatives) \in 1 .. Len(alternatives)
        /\ \A i \in 1 .. Len(alternatives) :
              i \in 1 .. Len(alternatives) - 1 \/ i = Len(alternatives)
        /\ \A i \in 1 .. Len(alternatives) - 1 : i \in 1 .. Len(alternatives)
    BY <1>2
  <2> QED  BY <1>2, <2>1, <2>3, <2>4 DEF Describes
<1> QED  BY <1>1, <1>2

\* An alternative that is narrowed leaves the others.
LEMMA OneChanged ==
    ASSUME NEW S, NEW seq \in Seq(S), NEW i \in 1 .. Len(seq), NEW e \in S,
           NEW new, new = [seq EXCEPT ![i] = e]
    PROVE  /\ Len(new) = Len(seq) /\ new[i] = e
           /\ \A j \in 1 .. Len(seq) : j # i => new[j] = seq[j]
OBVIOUS

\* A call that adds a predicate says of the rows what the predicate tests.
LEMMA TellsMore ==
    ASSUME NEW alternatives \in Seq(SUBSET Ids), NEW wheres \in Clauses,
           Tells(alternatives, wheres),
           NEW boolean \in Booleans, NEW ids \in SUBSET Ids, NEW more,
           more = IF boolean = "OR" \/ alternatives = <<>>
                  THEN Append(alternatives, ids)
                  ELSE [alternatives EXCEPT ![Len(alternatives)] = @ \cap ids]
    PROVE  Tells(more, wheres \o <<[boolean |-> boolean, test |-> ids]>>)
<1> DEFINE clause == [boolean |-> boolean, test |-> ids]
           longer == wheres \o <<clause>>
           last   == Len(alternatives)
           T      == [boolean : Booleans, test : SUBSET Ids]
<1>1. /\ wheres \in Seq(T) /\ clause \in T
      /\ clause.boolean = boolean /\ clause.test = ids
  BY DEF Clauses
<1>2. last \in Nat
  OBVIOUS
<1>3. longer # <<>>
  <2>1. Len(longer) = Len(wheres) + 1 /\ Len(wheres) \in Nat
    BY <1>1
  <2> QED  BY <2>1
<1>4. CASE alternatives = <<>>
  <2>1. wheres = <<>>
    BY <1>4 DEF Tells
  <2>2. longer = <<clause>> /\ more = <<ids>>
    BY <1>1, <1>4, <2>1
  <2>3. Len(more) = 1 /\ more[1] = ids /\ more # <<>>
    BY <2>2
  <2> HIDE DEF clause, longer
  <2>4. /\ LastRun(longer, 1)
        /\ \A id \in Ids : /\ InLast(longer, 1, id) <=> id \in ids
                           /\ ~InEarlier(longer, 1, id)
    BY <1>1, <2>2, FirstRun
  <2>5. Describes(more, longer, 1)
    BY <2>3, <2>4 DEF Describes
  <2>6. Tells(more, longer)
    BY <1>3, <2>3, <2>5 DEF Tells
  <2> QED  BY <2>6 DEF longer, clause
<1>5. CASE alternatives # <<>>
  <2>1. PICK o : Describes(alternatives, wheres, o)
    BY <1>5 DEF Tells
  <2>2. LastRun(wheres, o)
    BY <2>1 DEF Describes
  <2>3. ASSUME NEW id \in Ids
        PROVE  /\ id \in alternatives[last] <=> InLast(wheres, o, id)
               /\ (\E i \in 1 .. last - 1 : id \in alternatives[i])
                      <=> InEarlier(wheres, o, id)
    BY <2>1 DEF Describes
  <2>4. last \in 1 .. last
    BY <1>2, <1>5
  <2>5. CASE boolean = "AND"
    <3>1. /\ Len(more) = last /\ more # <<>>
          /\ more[last] = alternatives[last] \cap ids
          /\ \A i \in 1 .. last - 1 : more[i] = alternatives[i]
      <4> DEFINE narrowed == alternatives[last] \cap ids
      <4>1. more = [alternatives EXCEPT ![last] = narrowed]
        BY <1>5, <2>5
      <4>2. narrowed \in SUBSET Ids
        BY <2>4
      <4> HIDE DEF narrowed
      <4>3. /\ Len(more) = last /\ more[last] = narrowed
            /\ \A i \in 1 .. last : i # last => more[i] = alternatives[i]
        BY <2>4, <4>1, <4>2, OneChanged
      <4> HIDE DEF last
      <4>4. more # <<>>
        BY <2>4, <4>3
      <4>5. \A i \in 1 .. last - 1 : i \in 1 .. last /\ i # last
        BY <1>2
      <4> QED  BY <4>3, <4>4, <4>5 DEF narrowed
    <3>2. ASSUME NEW id \in Ids
          PROVE  /\ LastRun(longer, o)
                 /\ InLast(longer, o, id) <=> InLast(wheres, o, id) /\ id \in ids
                 /\ InEarlier(longer, o, id) <=> InEarlier(wheres, o, id)
      <4> HIDE DEF clause, T
      <4> QED  BY <1>1, <2>2, <2>5, RunsGrow
    <3>3. LastRun(longer, o)
      <4> HIDE DEF clause, T
      <4> QED  BY <1>1, <2>2, <2>5, RunsGrow
    <3> HIDE DEF longer, last
    <3>4. \A id \in Ids : id \in more[Len(more)] <=> InLast(longer, o, id)
      BY <2>3, <3>1, <3>2
    <3>5. \A id \in Ids : (\E i \in 1 .. Len(more) - 1 : id \in more[i])
                              <=> InEarlier(longer, o, id)
      BY <2>3, <3>1, <3>2
    <3>6. Describes(more, longer, o)
      BY <3>3, <3>4, <3>5 DEF Describes
    <3>7. Tells(more, longer)
      BY <1>3, <3>1, <3>6 DEF Tells
    <3> QED  BY <3>7 DEF longer
  <2>6. CASE boolean = "OR"
    <3> DEFINE new == Len(wheres) + 1
    <3>1. /\ Len(more) = last + 1 /\ more # <<>> /\ more[last + 1] = ids
          /\ \A i \in 1 .. last : more[i] = alternatives[i]
      BY <2>6
    <3>2. ASSUME NEW id \in Ids
          PROVE  /\ InLast(longer, new, id) <=> id \in ids
                 /\ InEarlier(longer, new, id) <=>
                       InEarlier(wheres, o, id) \/ InLast(wheres, o, id)
      <4> HIDE DEF clause, T
      <4> QED  BY <1>1, <2>2, <2>6, RunsGrow
    <3>3. LastRun(longer, new)
      <4> HIDE DEF clause, T
      <4> QED  BY <1>1, <2>2, <2>6, RunsGrow
    <3> HIDE DEF longer, last, new
    <3>4. \A id \in Ids : id \in more[Len(more)] <=> InLast(longer, new, id)
      BY <3>1, <3>2
    <3>5. \A id \in Ids : (\E i \in 1 .. Len(more) - 1 : id \in more[i])
                              <=> InEarlier(longer, new, id)
      <4> SUFFICES ASSUME NEW id \in Ids
                   PROVE  (\E i \in 1 .. last : id \in more[i])
                              <=> InEarlier(longer, new, id)
        BY <1>2, <3>1
      <4>1. (\E i \in 1 .. last : id \in more[i]) <=>
                (\E i \in 1 .. last : id \in alternatives[i])
        BY <3>1
      <4>2. \A i \in 1 .. last : i \in 1 .. last - 1 \/ i = last
        BY <1>2
      <4>3. \A i \in 1 .. last - 1 : i \in 1 .. last
        BY <1>2
      <4> QED  BY <2>3, <2>4, <3>2, <4>1, <4>2, <4>3
    <3>6. Describes(more, longer, new)
      BY <3>3, <3>4, <3>5 DEF Describes
    <3>7. Tells(more, longer)
      BY <1>3, <3>1, <3>6 DEF Tells
    <3> QED  BY <3>7 DEF longer
  <2> QED  BY <2>5, <2>6 DEF Booleans
<1> QED  BY <1>4, <1>5

\* Every predicate tests what the application thinks of it: relation filters
\* too, when closures only add ANDs.
LEMMA PredicatesAsMeant ==
    ASSUME ClosuresOnlyAnd, Predicating
    PROVE  \E boolean \in Booleans, ids \in SUBSET Ids : Adds(boolean, ids, ids)
<1>1. CASE Where
  BY <1>1, ConstantsAssumption DEF Where
<1>2. CASE WhereGroup
  <2>1. \A group : Matching(group, Ids) \in SUBSET Ids
    BY DEF Matching
  <2> QED  BY <1>2, <2>1 DEF WhereGroup
<1>3. CASE WhereHas
  <2>1. PICK boolean \in Booleans, rel \in Relations, closure \in Closures,
             not \in BOOLEAN :
           Adds(boolean,
                {id \in Ids : (Selected(rel, id, closure) # {}) # not},
                {id \in Ids : (RelatedTo(rel, id, closure) # {}) # not})
    BY <1>3 DEF WhereHas
  <2>2. {id \in Ids : (Selected(rel, id, closure) # {}) # not} =
            {id \in Ids : (RelatedTo(rel, id, closure) # {}) # not}
    <3>1. \A id \in Ids : (Selected(rel, id, closure) # {}) <=>
                              (RelatedTo(rel, id, closure) # {})
      BY ExistsMeans
    <3> QED  BY <3>1
  <2>3. {id \in Ids : (RelatedTo(rel, id, closure) # {}) # not} \in SUBSET Ids
    OBVIOUS
  <2> QED  BY <2>1, <2>2, <2>3
<1>4. CASE WhereHasCount
  <2>1. PICK boolean \in Booleans, rel \in Relations, closure \in Closures,
             passing \in Counts :
           Adds(boolean,
                {id \in Ids : CountSelected(rel, id, closure) \in passing},
                {id \in Ids :
                    Cardinality(RelatedTo(rel, id, closure)) \in passing})
    BY <1>4 DEF WhereHasCount
  <2>2. {id \in Ids : CountSelected(rel, id, closure) \in passing} =
            {id \in Ids : Cardinality(RelatedTo(rel, id, closure)) \in passing}
    BY CountMeans
  <2>3. {id \in Ids : Cardinality(RelatedTo(rel, id, closure)) \in passing}
            \in SUBSET Ids
    OBVIOUS
  <2> QED  BY <2>1, <2>2, <2>3
<1> QED  BY <1>1, <1>2, <1>3, <1>4 DEF Predicating

LEMMA TellsStep ==
    ASSUME ClosuresOnlyAnd, TypeOK, Tells(said, b.wheres), [Next]_vars
    PROVE  Tells(said', b'.wheres)
<1>0. /\ b \in Builder /\ said \in Seq(SUBSET Ids) /\ b.wheres \in Clauses
  BY DEF TypeOK, Builder
<1>1. CASE Predicating
  <2>1. PICK boolean \in Booleans, ids \in SUBSET Ids : Adds(boolean, ids, ids)
    BY <1>1, PredicatesAsMeant
  <2> DEFINE clause == [boolean |-> boolean, test |-> ids]
  <2>2. b'.wheres = b.wheres \o <<clause>>
    BY <1>0, <2>1 DEF Adds, AddClauses, Builder
  <2>3. said' = IF boolean = "OR" \/ said = <<>> THEN Append(said, ids)
                ELSE [said EXCEPT ![Len(said)] = @ \cap ids]
    BY <2>1 DEF Adds, Said
  <2>4. Tells(said', b.wheres \o <<clause>>)
    BY <1>0, <2>3, TellsMore
  <2> QED  BY <2>2, <2>4
<1>2. CASE said' = said /\ b'.wheres = b.wheres
  BY <1>2
<1>3. CASE BadCall \/ WithCount \/ Modify
  BY <1>0, <1>2, <1>3 DEF BadCall, WithCount, Modify, Fail, Builder
<1>4. CASE NewQuery
  BY <1>4 DEF NewQuery, NewBuilder, Tells
<1>5. ASSUME NEW terminal \in Terminals, Call(terminal)
      PROVE  Tells(said', b'.wheres)
  BY <1>0, <1>2, <1>5 DEF Call, Builder
<1>6. CASE ApplyScopes
  BY <1>0, <1>2, <1>6
     DEF ApplyScopes, ScopeApplies, ScopeRejects, ScopeFails, AddClauses, Fail,
         Builder
<1>7. CASE Statement
  BY <1>0, <1>2, <1>7
     DEF Statement, Get, First, Count, CountPages, Update, Delete, ForceDelete,
         Restore, Write, Builder
<1>8. CASE StatementFails \/ OthersWrite \/ UNCHANGED vars
  BY <1>2, <1>8 DEF StatementFails, OthersWrite, vars
<1> QED
  BY <1>1, <1>3, <1>4, <1>5, <1>6, <1>7, <1>8 DEF Next, Describe, Predicating

-----------------------------------------------------------------------------
(***************************************************************************)
(* The scope predicates of a builder come from the scopes, under its       *)
(* context, and from nowhere else.                                         *)
(***************************************************************************)
FromScopes(clause, context) ==
    \E k \in 1 .. Len(Scopes) :
        \E i \in 1 .. Len(ScopeAdds[Scopes[k]][context]) :
            clause = ScopeAdds[Scopes[k]][context][i]

NothingButScopes ==
    /\ b.skipScopes \/ ~b.scopesDone => b.scopeWheres = <<>>
    /\ Applying => ~b.skipScopes
    /\ \A j \in 1 .. Len(b.scopeWheres) : FromScopes(b.scopeWheres[j], ctx)

LEMMA NothingButStep ==
    ASSUME TypeOK, ScopesKept, NothingButScopes, [Next]_vars
    PROVE  NothingButScopes'
<1>0. /\ b \in Builder /\ Ready' = Ready /\ b.scopeWheres \in Clauses
  BY DEF TypeOK, Builder, Ready
<1>2. ASSUME UNCHANGED ctx, b'.scopeWheres = b.scopeWheres,
             b'.skipScopes \/ ~b'.scopesDone => b.skipScopes \/ ~b.scopesDone,
             Applying' => ~b'.skipScopes
      PROVE  NothingButScopes'
  BY <1>2 DEF NothingButScopes
<1>3. CASE Predicating \/ BadCall \/ WithCount \/ Modify
  <2>1. /\ b'.scopeWheres = b.scopeWheres /\ b'.scopesDone = b.scopesDone
        /\ b.scopesDone => b'.skipScopes = b.skipScopes
        /\ UNCHANGED <<ctx, op>> /\ op = "none"
    <3>1. CASE Predicating
      BY <3>1, PredicatingAdds, AddsTyped DEF Adds, Asks, Building
    <3>2. CASE BadCall \/ WithCount \/ Modify
      BY <1>0, <3>2
         DEF BadCall, WithCount, Modify, Asks, Building, Fail, Builder
    <3> QED  BY <1>3, <3>1, <3>2
  <2>2. ~Applying'
    BY <2>1 DEF Applying, Building
  <2> QED  BY <1>2, <2>1, <2>2
<1>4. CASE NewQuery
  <2>1. b'.scopeWheres = <<>> /\ op' = "none"
    BY <1>4 DEF NewQuery, NewBuilder, Building
  <2> QED  BY <2>1 DEF NothingButScopes, Applying, Building
<1>5. ASSUME NEW terminal \in Terminals, Call(terminal)
      PROVE  NothingButScopes'
  <2>1. /\ b'.scopeWheres = b.scopeWheres /\ b'.scopesDone
        /\ b'.skipScopes = b.skipScopes /\ UNCHANGED ctx
        /\ scope' = IF NothingToApply THEN Ready ELSE 1
    BY <1>0, <1>5 DEF Call, Builder
  <2>2. Applying' => ~b'.skipScopes
    <3>1. Ready \in Nat
      BY ConstantsAssumption DEF Ready
    <3> QED  BY <1>0, <2>1, <3>1 DEF Applying, NothingToApply
  <2> QED  BY <1>2, <2>1, <2>2
<1>6. CASE ScopeApplies
  <2> DEFINE list == ScopeAdds[Scopes[scope]][ctx]
             kept == b.scopeWheres
  <2>1. /\ Applying /\ ~Building /\ b' = AddClauses(b, list, TRUE)
        /\ UNCHANGED ctx
    BY <1>6 DEF ScopeApplies, Applying
  <2>2. scope \in 1 .. Len(Scopes) /\ list \in Clauses
    BY <2>1, ScopeLists
  <2>3. /\ b'.scopeWheres = kept \o list
        /\ b'.scopesDone = b.scopesDone /\ b'.skipScopes = b.skipScopes
    BY <1>0, <2>1, <2>2, AddTyped
  <2>4. b.scopesDone /\ ~b.skipScopes
    BY <2>1 DEF ScopesKept, NothingButScopes
  <2>5. Follow(kept, list, kept \o list)
    BY <1>0, <2>2, ListsJoined DEF Clauses
  <2>6. \A i \in 1 .. Len(list) : FromScopes(list[i], ctx)
    BY <2>2 DEF FromScopes
  <2>7. \A j \in 1 .. Len(kept) : FromScopes(kept[j], ctx)
    BY DEF NothingButScopes
  <2> DEFINE longer == kept \o list
  <2> HIDE DEF kept, list, longer
  <2>8. \A j \in 1 .. Len(longer) : FromScopes(longer[j], ctx)
    BY <2>5, <2>6, <2>7 DEF Follow, longer
  <2>9. b'.scopeWheres = longer
    BY <2>3 DEF longer, kept
  <2> QED  BY <2>1, <2>3, <2>4, <2>8, <2>9 DEF NothingButScopes
<1>7. CASE ScopeRejects \/ ScopeFails
  <2>1. /\ b'.scopeWheres = b.scopeWheres /\ b'.scopesDone = b.scopesDone
        /\ b'.skipScopes = b.skipScopes /\ UNCHANGED ctx /\ Applying
    BY <1>0, <1>7 DEF ScopeRejects, ScopeFails, Fail, Builder
  <2> QED  BY <1>2, <2>1 DEF NothingButScopes
<1>8. CASE Statement
  <2>1. /\ b'.scopeWheres = b.scopeWheres /\ b'.scopesDone = b.scopesDone
        /\ b'.skipScopes = b.skipScopes /\ UNCHANGED ctx
        /\ scope' \in {0, Ready} /\ TypeOK'
    BY <1>8, StatementsTyped
  <2>2. ~Applying'
    BY <1>0, <2>1 DEF Applying, Building, TypeOK, Ready
  <2> QED  BY <1>2, <2>1, <2>2
<1>9. CASE StatementFails
  <2>1. UNCHANGED <<b, ctx>> /\ op' = "none"
    BY <1>9 DEF StatementFails, Returns
  <2> QED  BY <1>2, <2>1 DEF Applying, Building
<1>10. CASE OthersWrite \/ UNCHANGED vars
  <2>1. UNCHANGED <<b, ctx, op, scope>>
    BY <1>10 DEF OthersWrite, vars
  <2> QED  BY <1>0, <1>2, <2>1 DEF NothingButScopes, Applying, Building
<1> QED
  BY <1>3, <1>4, <1>5, <1>6, <1>7, <1>8, <1>9, <1>10
     DEF Next, Describe, ApplyScopes, Predicating

\* The scope predicates of a builder hold where all its scopes do.
LEMMA KeptMeans ==
    ASSUME ScopesOnlyAnd, TypeOK, ScopesKept, NothingButScopes,
           scope = Ready, op # "none", ~lapsed, NEW id \in Ids
    PROVE  Satisfies(b.scopeWheres, id) <=> b.skipScopes \/ Scoped(id)
<1>0. b.scopeWheres \in Clauses /\ AllAnd(b.scopeWheres) /\ ctx \in Contexts
  BY DEF TypeOK, Builder, ScopesKept
<1>1. Satisfies(b.scopeWheres, id) <=>
          \A j \in 1 .. Len(b.scopeWheres) : id \in b.scopeWheres[j].test
  BY <1>0, AndLists DEF Clauses
<1>2. CASE b.skipScopes
  BY <1>2 DEF NothingButScopes, Satisfies
<1>3. ASSUME ~b.skipScopes, Satisfies(b.scopeWheres, id)
      PROVE  Scoped(id)
  BY <1>3, KeptIsScoped
<1>4. ASSUME Scoped(id)
      PROVE  Satisfies(b.scopeWheres, id)
  <2> SUFFICES ASSUME NEW j \in 1 .. Len(b.scopeWheres)
               PROVE  id \in b.scopeWheres[j].test
    BY <1>1
  <2>1. PICK k \in 1 .. Len(Scopes) :
            \E i \in 1 .. Len(ScopeAdds[Scopes[k]][ctx]) :
                b.scopeWheres[j] = ScopeAdds[Scopes[k]][ctx][i]
    BY DEF NothingButScopes, FromScopes
  <2> DEFINE list == ScopeAdds[Scopes[k]][ctx]
  <2>2. list \in Clauses /\ AllAnd(list)
    <3>1. Scopes[k] \in DOMAIN ScopeAdds
      BY ConstantsAssumption
    <3> QED
      BY <1>0, <3>1, ConstantsAssumption DEF ScopesOnlyAnd, Clauses, Booleans
  <2>3. Satisfies(list, id)
    BY <1>4 DEF Scoped, Matching
  <2>4. \A i \in 1 .. Len(list) : id \in list[i].test
    BY <2>2, <2>3, AndLists DEF Clauses
  <2> QED  BY <2>1, <2>4
<1> QED  BY <1>2, <1>3, <1>4

-----------------------------------------------------------------------------
AskedInv == ScopesKept /\ NothingButScopes /\ Tells(said, b.wheres)

\* The rows a statement selects are the rows that are wanted.
LEMMA HitIsWanted ==
    ASSUME ScopesOnlyAnd, TypeOK, AskedInv, scope = Ready, op # "none", ~lapsed,
           NEW mode \in Modes, States(op) = ModeStates(mode) \ {"gone"}
    PROVE  Hit(mode) = Wanted
<1>1. b.wheres \in Clauses /\ said \in Seq(SUBSET Ids)
  BY DEF TypeOK, Builder
<1>2. \A id \in Ids : Satisfies(b.wheres, id) <=> id \in Meant
  BY <1>1, TellsMeant DEF AskedInv, Meant
<1>3. Meant \subseteq Ids
  BY <1>1 DEF Meant
<1>4. ASSUME NEW id \in Ids
      PROVE  Satisfies(EffectiveWheres(mode), id) <=>
                /\ b.skipScopes \/ Scoped(id)
                /\ rows[id] \in ModeStates(mode)
                /\ id \in Meant
  BY <1>2, EffectiveMeans, KeptMeans DEF AskedInv, ScopesKept
<1> QED  BY <1>3, <1>4 DEF Hit, Matching, Wanted

LEMMA TerminalModes ==
    ASSUME TypeOK
    PROVE  /\ b.trashed \in Modes
           /\ op \in {"Get", "First", "Count", "Paginate", "Update"} =>
                 States(op) = ModeStates(b.trashed) \ {"gone"}
           /\ op = "Delete" => States(op) = ModeStates("exclude") \ {"gone"}
           /\ op = "ForceDelete" => States(op) = ModeStates("include") \ {"gone"}
           /\ op = "Restore" => States(op) = ModeStates("only") \ {"gone"}
<1>1. b.trashed \in {"exclude", "include", "only"}
  BY DEF TypeOK, Builder, Modes
<1>2. ASSUME op \in {"Get", "First", "Count", "Paginate", "Update"}
      PROVE  States(op) = ModeStates(b.trashed) \ {"gone"}
  <2>1. States(op) = CASE b.trashed = "exclude" -> {"live"}
                       [] b.trashed = "only"    -> {"trashed"}
                       [] b.trashed = "include" -> {"live", "trashed"}
    BY <1>2 DEF States
  <2> QED  BY <1>1, <2>1 DEF ModeStates
<1>3. op = "Delete" => States(op) = ModeStates("exclude") \ {"gone"}
  BY DEF States, ModeStates
<1>4. op = "ForceDelete" => States(op) = ModeStates("include") \ {"gone"}
  BY DEF States, ModeStates
<1>5. op = "Restore" => States(op) = ModeStates("only") \ {"gone"}
  BY DEF States, ModeStates
<1> QED  BY <1>1, <1>2, <1>3, <1>4, <1>5 DEF Modes

Answered ==
    /\ touched' \subseteq Wanted
    /\ Cardinality(touched') =
          IF op \in {"Get", "First"}
          THEN Admitted(IF op = "First" THEN 1 ELSE b.limit, Cardinality(Wanted))
          ELSE Cardinality(Wanted)
    /\ \A id \in Ids : rows'[id] # rows[id] => id \in touched'

\* Each terminal's statement answers what was asked.
LEMMA StatementsAnswer ==
    ASSUME ScopesOnlyAnd, TypeOK, AskedInv, Statement, ~lapsed
    PROVE  Answered
<1>0. scope = Ready /\ op # "none"
  BY StatementsHit
<1>1. ASSUME NEW limit, Select(limit), op \in {"Get", "First"},
             limit = IF op = "First" THEN 1 ELSE b.limit, rows' = rows
      PROVE  Answered
  <2>1. Hit(b.trashed) = Wanted
    BY <1>0, <1>1, HitIsWanted, TerminalModes
  <2>2. /\ touched' \subseteq Wanted
        /\ Cardinality(touched') = Admitted(limit, Cardinality(Wanted))
    BY <1>1, <2>1 DEF Select
  <2> QED  BY <1>1, <2>2 DEF Answered
<1>2. CASE Get
  BY <1>1, <1>2 DEF Get, Selecting
<1>3. CASE First
  BY <1>1, <1>3 DEF First, Selecting
<1>4. CASE Count \/ CountPages
  <2>1. /\ op \in {"Count", "Paginate"} /\ rows' = rows
        /\ touched' = Hit(b.trashed)
    BY <1>4 DEF Count, CountPages, Selecting
  <2>2. Hit(b.trashed) = Wanted
    BY <1>0, <2>1, HitIsWanted, TerminalModes
  <2> QED  BY <2>1, <2>2 DEF Answered
<1>5. ASSUME NEW terminal, NEW mode \in Modes, NEW state,
             Write(terminal, mode, state),
             terminal \notin {"Get", "First"},
             States(op) = ModeStates(mode) \ {"gone"}
      PROVE  Answered
  <2>1. Hit(mode) = Wanted
    BY <1>0, <1>5, HitIsWanted
  <2>2. /\ op = terminal /\ touched' = Hit(mode)
        /\ \A id \in Ids : rows'[id] # rows[id] => id \in Hit(mode)
    BY <1>5 DEF Write, Selecting
  <2> QED  BY <1>5, <2>1, <2>2 DEF Answered
<1>6. {"exclude", "include", "only"} \subseteq Modes
  BY DEF Modes
<1>7. CASE Update
  <2>1. op = "Update"
    BY <1>7 DEF Update, Write, Selecting
  <2> QED  BY <1>5, <1>7, <2>1, TerminalModes DEF Update
<1>8. CASE Delete
  <2>1. op = "Delete"
    BY <1>8 DEF Delete, Write, Selecting
  <2> QED  BY <1>5, <1>6, <1>8, <2>1, TerminalModes DEF Delete
<1>9. CASE ForceDelete
  <2>1. op = "ForceDelete"
    BY <1>9 DEF ForceDelete, Write, Selecting
  <2> QED  BY <1>5, <1>6, <1>9, <2>1, TerminalModes DEF ForceDelete
<1>10. CASE Restore
  <2>1. op = "Restore"
    BY <1>10 DEF Restore, Write, Selecting
  <2> QED  BY <1>5, <1>6, <1>10, <2>1, TerminalModes DEF Restore
<1> QED  BY <1>2, <1>3, <1>4, <1>7, <1>8, <1>9, <1>10 DEF Statement

\* With scopes and closures that only add ANDs, every statement of every
\* terminal returns, counts or writes exactly the rows that what the
\* application said, the scopes and the soft-delete filter describe, for every
\* chain of calls, whatever ORs it has, and every reuse of the builder.
THEOREM AnswersAsAsked ==
    ASSUME ScopesOnlyAnd, ClosuresOnlyAnd PROVE Spec => AnswerAsAsked
<1>1. Init => AskedInv
  <2>1. ASSUME Init
        PROVE  /\ b.scopeWheres = <<>> /\ b.wheres = <<>> /\ ~b.scopesDone
               /\ said = <<>> /\ op = "none" /\ Len(<<>>) = 0
    BY <2>1 DEF Init, NewBuilder
  <2> QED
    BY <2>1 DEF AskedInv, ScopesKept, AllAnd, Building, NothingButScopes,
                Applying, Tells
<1>2. TypeOK /\ AskedInv /\ [Next]_vars => AskedInv'
  BY KeptStep, NothingButStep, TellsStep DEF AskedInv
<1>3. TypeOK /\ AskedInv /\ [Next]_vars => [Statement /\ ~lapsed => Answered]_vars
  BY StatementsAnswer
<1>4. [Statement /\ ~lapsed => Answered]_vars =>
        [Statement /\ ~lapsed =>
          /\ touched' \subseteq Wanted
          /\ Cardinality(touched') =
                IF op \in {"Get", "First"}
                THEN Admitted(IF op = "First" THEN 1 ELSE b.limit,
                              Cardinality(Wanted))
                ELSE Cardinality(Wanted)
          /\ \A id \in Ids : rows'[id] # rows[id] => id \in touched']_vars
  BY DEF Answered
<1> QED
  BY <1>1, <1>2, <1>3, <1>4, TypeCorrect, PTL DEF Spec, AnswerAsAsked
=============================================================================
