---------------------------- MODULE CursorProofs ----------------------------
(***************************************************************************)
(* Theorems about CursorPaging, for every key list, page size, table and   *)
(* set of ids and sort values: the seek predicate of a page agrees with    *)
(* its ORDER BY, and from that, the walk is a scan that skips and repeats  *)
(* no row that stays as it is.                                             *)
(***************************************************************************)
EXTENDS CursorPaging, SequenceTheorems, FiniteSetTheorems, TLAPS

\* A list whose clauses are joined by OR holds where some clause does.
LEMMA Alternatives ==
    ASSUME NEW list, NEW row, Len(list) \in Nat \ {0}, list # <<>>,
           \A i \in 2 .. Len(list) : list[i].boolean = "OR"
    PROVE  Satisfies(list, row) <=>
               \E i \in 1 .. Len(list) : row \in list[i].test
<1>1. \A i \in 1 .. Len(list) : Opens(list, i)
  BY DEF Opens
<1>2. ASSUME NEW i \in 1 .. Len(list), NEW j \in i .. Len(list)
      PROVE  Joined(list, i, j) <=> j = i
  <2>1. CASE j = i
    BY <2>1 DEF Joined
  <2>2. CASE j # i
    <3>1. i + 1 \in i + 1 .. j /\ i + 1 \in 2 .. Len(list)
      BY <2>2
    <3>2. list[i + 1].boolean = "OR"
      BY <3>1
    <3> QED  BY <2>2, <3>1, <3>2 DEF Joined
  <2> QED  BY <2>1, <2>2
<1> QED  BY <1>1, <1>2 DEF Satisfies

\* A list whose clauses are joined by AND holds where every clause does.
LEMMA Conjunction ==
    ASSUME NEW list, NEW row, Len(list) \in Nat \ {0}, list # <<>>,
           \A i \in 1 .. Len(list) : list[i].boolean = "AND"
    PROVE  Satisfies(list, row) <=>
               \A i \in 1 .. Len(list) : row \in list[i].test
<1>1. \A i \in 1 .. Len(list) : Opens(list, i) <=> i = 1
  BY DEF Opens
<1>2. \A j \in 1 .. Len(list) : Joined(list, 1, j)
  BY DEF Joined
<1>3. 1 \in 1 .. Len(list)
  OBVIOUS
<1> QED  BY <1>1, <1>2, <1>3 DEF Satisfies

\* The comparisons of one level, for a cursor without NULL.
LEMMA LevelTest ==
    ASSUME NULL \notin Sorts, keys \in Seq(Key), NEW last \in Row,
           NEW row \in Row, NEW i \in 1 .. Len(keys)
    PROVE  row \in Matching(Level(CursorValues(last), i), Row) <=>
               /\ \A j \in 1 .. i - 1 : row[keys[j].col] = last[keys[j].col]
               /\ IF keys[i].desc THEN row[keys[i].col] < last[keys[i].col]
                                  ELSE row[keys[i].col] > last[keys[i].col]
<1> DEFINE cursor == CursorValues(last)
           level  == Level(cursor, i)
<1>1. /\ Len(level) = i /\ i \in Nat \ {0} /\ level # <<>>
      /\ \A j \in 1 .. i : level[j].boolean = "AND"
  <2>1. i \in Nat \ {0} /\ DOMAIN level = 1 .. i
    BY DEF Level
  <2>2. level = [j \in 1 .. i |-> level[j]]
    BY <2>1 DEF Level
  <2>3. Len(level) = i
    BY <2>1, <2>2 DEF Level
  <2> QED  BY <2>1, <2>3 DEF Level, And
<1>2. \A j \in 1 .. i : /\ keys[j] \in Key
                        /\ cursor[j] = last[keys[j].col]
  BY DEF CursorValues
<1>3. \A j \in 1 .. i : /\ last[keys[j].col] # NULL
                        /\ row[keys[j].col] # NULL
  <2>1. \A r \in Row, col \in Column : r[col] # NULL
    BY ConstantsAssumption DEF Column, Row
  <2>2. \A j \in 1 .. i : keys[j].col \in Column
    BY <1>2 DEF Key
  <2> QED  BY <2>1, <2>2
<1>4. \A j \in 1 .. i - 1 :
         row \in level[j].test <=> row[keys[j].col] = last[keys[j].col]
  BY <1>2, <1>3 DEF Level, And, Equal
<1>5. row \in level[i].test <=>
         IF keys[i].desc THEN row[keys[i].col] < last[keys[i].col]
                         ELSE row[keys[i].col] > last[keys[i].col]
  BY <1>2, <1>3 DEF Level, And, Strict
<1>6. row \in Matching(level, Row) <=> \A j \in 1 .. i : row \in level[j].test
  BY <1>1, Conjunction DEF Matching
<1> QED  BY <1>4, <1>5, <1>6

\* Where the key columns are not nullable, the seek built from a row's cursor
\* is true of exactly the rows ORDER BY puts after that row: applyCursorSeek
\* and the ORDER BY of CursorPaginate agree for every list of keys.
THEOREM SeekIsSuccessor ==
    ASSUME NULL \notin Sorts, keys \in Seq(Key), keys # <<>>,
           NEW last \in Row, NEW row \in Row
    PROVE  row \in Seek(CursorValues(last)).test <=> OrderedBefore(last, row)
<1> DEFINE cursor == CursorValues(last)
           n      == Len(keys)
           beyond(i) == /\ \A j \in 1 .. i - 1 :
                              row[keys[j].col] = last[keys[j].col]
                        /\ IF keys[i].desc
                           THEN row[keys[i].col] < last[keys[i].col]
                           ELSE row[keys[i].col] > last[keys[i].col]
<1>1. n \in Nat \ {0}
  OBVIOUS
<1>2. \A i \in 1 .. n : /\ keys[i] \in Key
                        /\ row[keys[i].col] \in Int /\ last[keys[i].col] \in Int
                        /\ row[keys[i].col] # NULL /\ last[keys[i].col] # NULL
  <2>1. \A r \in Row, col \in Column : r[col] \in Int /\ r[col] # NULL
    BY ConstantsAssumption DEF Column, Row
  <2>2. \A i \in 1 .. n : keys[i] \in Key
    OBVIOUS
  <2>3. \A i \in 1 .. n : keys[i].col \in Column
    BY <2>2 DEF Key
  <2> QED  BY <2>1, <2>2, <2>3
<1>3. OrderedBefore(last, row) <=> \E i \in 1 .. n : beyond(i)
  BY <1>1, <1>2 DEF OrderedBefore, Rank
<1>4. CASE n = 1
  <2>1. row \in Seek(cursor).test <=> beyond(1)
    BY <1>2, <1>4 DEF Seek, And, Strict, CursorValues
  <2> QED  BY <1>3, <1>4, <2>1
<1>5. CASE n # 1
  <2>1. /\ Len(Levels(cursor)) = n /\ Levels(cursor) # <<>>
        /\ \A i \in 2 .. n : Levels(cursor)[i].boolean = "OR"
        /\ \A i \in 1 .. n :
              Levels(cursor)[i].test = Matching(Level(cursor, i), Row)
    <3>1. DOMAIN Levels(cursor) = 1 .. n
      BY DEF Levels
    <3>2. Len(Levels(cursor)) = n
      BY <1>1, <3>1 DEF Levels
    <3> QED  BY <1>1, <3>1, <3>2 DEF Levels
  <2>2. row \in Seek(cursor).test <=>
           \E i \in 1 .. n : row \in Levels(cursor)[i].test
    BY <1>1, <1>5, <2>1, Alternatives DEF Seek, And, Matching
  <2>3. \A i \in 1 .. n : row \in Levels(cursor)[i].test <=> beyond(i)
    BY <2>1, LevelTest
  <2> QED  BY <1>3, <2>2, <2>3
<1> QED  BY <1>4, <1>5
-----------------------------------------------------------------------------
(***************************************************************************)
(* The order of the keys is a strict order of the rows.                    *)
(***************************************************************************)
LEMMA KeyShape ==
    ASSUME keys \in KeyLists
    PROVE  /\ keys \in Seq(Key) /\ Len(keys) \in Nat \ {0}
           /\ \A i \in 1 .. Len(keys) :
                 keys[i].col \in Column /\ keys[i].desc \in BOOLEAN
<1>1. keys \in Seq(Key) /\ keys # <<>>
  BY KeyListsAssumption
<1>2. Len(keys) \in Nat \ {0}
  BY <1>1, EmptySeq
<1>3. \A i \in 1 .. Len(keys) : keys[i] \in Key
  BY <1>1, ElementOfSeq
<1>4. QED
  BY <1>1, <1>2, <1>3 DEF Key

LEMMA RankShape == \A row \in Row, col \in Column : Rank(row[col]) \in Int
<1>1. ASSUME NEW row \in Row, NEW col \in Column PROVE Rank(row[col]) \in Int
  <2>1. row[col] \in Ids \cup Sorts
    BY DEF Row, Column
  <2>2. QED
    BY <2>1, ConstantsAssumption DEF Rank
<1>2. QED
  BY <1>1

LEMMA BeforeIrreflexive ==
    ASSUME keys \in KeyLists, NEW a \in Row
    PROVE  ~OrderedBefore(a, a)
<1>1. ASSUME NEW i \in 1 .. Len(keys)
      PROVE  /\ ~(Rank(a[keys[i].col]) > Rank(a[keys[i].col]))
             /\ ~(Rank(a[keys[i].col]) < Rank(a[keys[i].col]))
  BY KeyShape, RankShape
<1>2. QED
  BY <1>1 DEF OrderedBefore

LEMMA BeforeTransitive ==
    ASSUME keys \in KeyLists, NEW a \in Row, NEW b \in Row, NEW c \in Row,
           OrderedBefore(a, b), OrderedBefore(b, c)
    PROVE  OrderedBefore(a, c)
<1> DEFINE at(row, i) == Rank(row[keys[i].col])
           less(x, y, i) == IF keys[i].desc THEN at(x, i) > at(y, i)
                                            ELSE at(x, i) < at(y, i)
<1>1. \A row \in Row : \A i \in 1 .. Len(keys) : at(row, i) \in Int
  BY KeyShape, RankShape
<1>2. PICK i \in 1 .. Len(keys) :
         /\ \A k \in 1 .. i - 1 : at(a, k) = at(b, k)
         /\ less(a, b, i)
  BY DEF OrderedBefore
<1>3. PICK j \in 1 .. Len(keys) :
         /\ \A k \in 1 .. j - 1 : at(b, k) = at(c, k)
         /\ less(b, c, j)
  BY DEF OrderedBefore
<1>4. Len(keys) \in Nat /\ i \in Nat /\ j \in Nat
  BY KeyShape
<1>5. \E m \in 1 .. Len(keys) :
         /\ \A k \in 1 .. m - 1 : at(a, k) = at(c, k)
         /\ less(a, c, m)
  <2> HIDE DEF at
  <2>1. CASE i < j
    <3>1. \A k \in 1 .. i - 1 : k \in 1 .. j - 1
      BY <1>4, <2>1
    <3>2. at(b, i) = at(c, i)
      BY <1>3, <1>4, <2>1
    <3>3. less(a, c, i)
      BY <1>2, <3>2
    <3>4. QED
      BY <1>2, <1>3, <3>1, <3>3
  <2>2. CASE j < i
    <3>1. \A k \in 1 .. j - 1 : k \in 1 .. i - 1
      BY <1>4, <2>2
    <3>2. at(a, j) = at(b, j)
      BY <1>2, <1>4, <2>2
    <3>3. less(a, c, j)
      BY <1>3, <3>2
    <3>4. QED
      BY <1>2, <1>3, <3>1, <3>3
  <2>3. CASE i = j
    <3>1. less(a, c, i)
      BY <1>1, <1>2, <1>3, <2>3
    <3>2. QED
      BY <1>2, <1>3, <2>3, <3>1
  <2>4. QED
    BY <1>4, <2>1, <2>2, <2>3
<1>6. QED
  BY <1>5 DEF OrderedBefore
-----------------------------------------------------------------------------
(***************************************************************************)
(* A page, as CursorPaginate cuts it from what the query found.            *)
(***************************************************************************)
PageOf(found) == IF Len(found) > limit THEN SubSeq(found, 1, limit) ELSE found

LEMMA PageShape ==
    ASSUME limit \in Nat \ {0}, NEW set, NEW found \in FirstRows(set, limit + 1)
    PROVE  /\ found \in Seq(set) /\ Len(found) \in 0 .. limit + 1
           /\ PageOf(found) \in Seq(set)
           /\ Len(PageOf(found)) = IF Len(found) > limit THEN limit ELSE Len(found)
           /\ \A i \in 1 .. Len(PageOf(found)) :
                 i \in 1 .. Len(found) /\ PageOf(found)[i] = found[i]
<1>1. PICK m \in 0 .. limit + 1 : found \in [1 .. m -> set]
  BY DEF FirstRows, SeqOf
<1>2. found \in Seq(set) /\ Len(found) = m
  <2>1. m \in Nat
    BY <1>1
  <2>2. QED
    BY <1>1, <2>1
<1>3. CASE Len(found) > limit
  <2>1. \A i \in 1 .. limit : i \in 1 .. Len(found) /\ found[i] \in set
    BY <1>1, <1>2, <1>3
  <2>2. /\ SubSeq(found, 1, limit) \in Seq(set)
        /\ Len(SubSeq(found, 1, limit)) = limit
        /\ \A i \in 1 .. limit : SubSeq(found, 1, limit)[i] = found[i]
    BY <2>1, SubSeqProperties
  <2>3. QED
    BY <1>1, <1>2, <1>3, <2>1, <2>2 DEF PageOf
<1>4. CASE ~(Len(found) > limit)
  BY <1>1, <1>2, <1>4 DEF PageOf
<1>5. QED
  BY <1>3, <1>4

\* The page is the beginning of the set in the order of the keys, and the
\* probe row tells whether it is all of it.
LEMMA PageIsBeginning ==
    ASSUME limit \in Nat \ {0}, keys \in KeyLists, NEW set, set \subseteq Row,
           NEW found \in FirstRows(set, limit + 1)
    PROVE  /\ \A i, j \in 1 .. Len(PageOf(found)) :
                 i < j => OrderedBefore(PageOf(found)[i], PageOf(found)[j])
           /\ \A row \in set :
                 \/ \E i \in 1 .. Len(PageOf(found)) : PageOf(found)[i] = row
                 \/ /\ Len(found) > limit
                    /\ \A i \in 1 .. Len(PageOf(found)) :
                          OrderedBefore(PageOf(found)[i], row)
           /\ Len(found) > limit =>
                 \E row \in set : \A i \in 1 .. Len(PageOf(found)) :
                     PageOf(found)[i] # row
<1>1. /\ found \in Seq(set) /\ Len(found) \in 0 .. limit + 1
      /\ Len(PageOf(found)) = IF Len(found) > limit THEN limit ELSE Len(found)
      /\ \A i \in 1 .. Len(PageOf(found)) :
            i \in 1 .. Len(found) /\ PageOf(found)[i] = found[i]
  BY PageShape
<1>2. /\ \A i, j \in 1 .. Len(found) : i < j => OrderedBefore(found[i], found[j])
      /\ \A row \in set \ Range(found) :
            /\ Len(found) = limit + 1
            /\ \A i \in 1 .. limit + 1 : OrderedBefore(found[i], row)
  BY DEF FirstRows
<1>3. DOMAIN found = 1 .. Len(found)
  BY <1>1
<1>4. ASSUME NEW row \in set,
             ~\E i \in 1 .. Len(PageOf(found)) : PageOf(found)[i] = row
      PROVE  /\ Len(found) > limit
             /\ \A i \in 1 .. Len(PageOf(found)) :
                   OrderedBefore(PageOf(found)[i], row)
  <2>1. CASE row \notin Range(found)
    BY <1>1, <1>2, <2>1
  <2>2. CASE row \in Range(found)
    <3>1. PICK k \in 1 .. Len(found) : found[k] = row
      BY <1>3, <2>2 DEF Range
    <3>2. k \notin 1 .. Len(PageOf(found))
      BY <1>1, <1>4, <3>1
    <3>3. Len(found) > limit /\ k = limit + 1
      BY <1>1, <3>1, <3>2
    <3>4. QED
      BY <1>1, <1>2, <3>1, <3>3
  <2>3. QED
    BY <2>1, <2>2
<1>5. ASSUME Len(found) > limit
      PROVE  \E row \in set : \A i \in 1 .. Len(PageOf(found)) :
                 PageOf(found)[i] # row
  <2>1. limit + 1 \in 1 .. Len(found) /\ found[limit + 1] \in set
    BY <1>1, <1>5
  <2>2. ASSUME NEW i \in 1 .. Len(PageOf(found))
        PROVE  PageOf(found)[i] # found[limit + 1]
    <3>1. i < limit + 1 /\ i \in 1 .. Len(found) /\ PageOf(found)[i] = found[i]
      BY <1>1, <1>5
    <3>2. OrderedBefore(found[i], found[limit + 1])
      BY <1>2, <2>1, <3>1
    <3>3. QED
      BY <2>1, <3>1, <3>2, BeforeIrreflexive
  <2>3. QED
    BY <2>1, <2>2
<1>6. \A i, j \in 1 .. Len(PageOf(found)) :
          i < j => OrderedBefore(PageOf(found)[i], PageOf(found)[j])
  BY <1>1, <1>2
<1>7. QED
  BY <1>4, <1>5, <1>6
-----------------------------------------------------------------------------
LEMMA InitTypeOK == Init => TypeOK
<1> SUFFICES ASSUME Init PROVE TypeOK
  OBVIOUS
<1>1. rows \in [Ids -> Sorts \cup {Absent}] /\ seen \in Seq(Row)
  BY EmptySeq DEF Init
<1>2. walking \in BOOLEAN /\ used \subseteq Ids /\ steady \subseteq used
  BY DEF Init
<1>3. QED
  BY <1>1, <1>2 DEF Init, TypeOK

\* What a step of the walk does, with the page named.
LEMMA FetchOf ==
    ASSUME FetchPage
    PROVE  \E found \in FirstRows(Matching(Query, Stored), limit + 1) :
              /\ walking
              /\ walking' = (Len(found) > limit)
              /\ walking' <=> Len(found) > limit
              /\ after' = IF Len(found) > limit
                          THEN CursorValues(PageOf(found)[limit]) ELSE Start
              /\ seen' = seen \o PageOf(found)
              /\ UNCHANGED <<rows, keys, limit, wheres, used, steady>>
BY DEF FetchPage, PageOf

LEMMA CursorShape ==
    ASSUME keys \in KeyLists, NEW row \in Row
    PROVE  /\ CursorValues(row) \in [1 .. Len(keys) -> Ids \cup Sorts]
           /\ CursorValues(row) # Start
<1>1. \A i \in 1 .. Len(keys) : row[keys[i].col] \in Ids \cup Sorts
  BY KeyShape DEF Row, Column
<1>2. CursorValues(row) \in [1 .. Len(keys) -> Ids \cup Sorts]
  BY <1>1 DEF CursorValues
<1>3. QED
  BY <1>2, ConstantsAssumption

LEMMA LimitShape == TypeOK => limit \in Nat \ {0}
BY ConstantsAssumption DEF TypeOK

LEMMA NextTypeOK == TypeOK /\ [Next]_vars => TypeOK'
<1> SUFFICES ASSUME TypeOK, [Next]_vars PROVE TypeOK'
  OBVIOUS
<1> USE DEF TypeOK
<1>1. CASE NewWalk
  BY <1>1 DEF NewWalk, Begin
<1>2. CASE FetchPage
  <2>1. PICK found \in FirstRows(Matching(Query, Stored), limit + 1) :
           /\ walking
           /\ walking' = (Len(found) > limit)
           /\ after' = IF Len(found) > limit
                       THEN CursorValues(PageOf(found)[limit]) ELSE Start
           /\ seen' = seen \o PageOf(found)
           /\ UNCHANGED <<rows, keys, limit, wheres, used, steady>>
    BY <1>2, FetchOf
  <2>2. /\ limit \in Nat \ {0}
        /\ Matching(Query, Stored) \subseteq Row
    BY LimitShape DEF Matching, Stored
  <2>3. PageOf(found) \in Seq(Row)
        /\ Len(PageOf(found)) = IF Len(found) > limit THEN limit ELSE Len(found)
    BY <2>2, PageShape, SeqMonotonic
  <2>4. seen' \in Seq(Row)
    BY <2>1, <2>3, ConcatProperties
  <2>5. ASSUME Len(found) > limit PROVE after' \in [1 .. Len(keys) -> Ids \cup Sorts]
    <3>1. PageOf(found)[limit] \in Row
      BY <2>2, <2>3, <2>5, ElementOfSeq
    <3>2. QED
      BY <2>1, <2>5, <3>1, CursorShape
  <2>6. after' # Start => after' \in [1 .. Len(keys) -> Ids \cup Sorts]
    BY <2>1, <2>5
  <2>7. QED
    BY <2>1, <2>4, <2>6
<1>3. ASSUME NEW id \in Ids, NEW sort \in Sorts, Insert(id, sort)
      PROVE  TypeOK'
  BY <1>3 DEF Insert, walkVars
<1>4. ASSUME NEW id \in Ids, Delete(id)
      PROVE  TypeOK'
  BY <1>4 DEF Delete, walkVars
<1>5. ASSUME NEW id \in Ids, NEW sort \in Sorts, Move(id, sort)
      PROVE  TypeOK'
  BY <1>5 DEF Move, walkVars
<1>6. CASE UNCHANGED vars
  BY <1>6 DEF vars, walkVars
<1>7. QED
  BY <1>1, <1>2, <1>3, <1>4, <1>5, <1>6 DEF Next

\* Every reachable state of the table and of the walk has the declared shape;
\* in particular the cursor of a further page has one value for each key.
THEOREM TypeCorrect == Spec => []TypeOK
BY InitTypeOK, NextTypeOK, PTL DEF Spec
-----------------------------------------------------------------------------
(***************************************************************************)
(* The walk.  The cursor is that of the last row handed over, so that the  *)
(* rows a page query finds are those that remain; a matching row that is   *)
(* left alone is therefore either handed over already or after all that    *)
(* was.  Rows handed over are in order, which also keeps them apart.       *)
(***************************************************************************)

\* The where lists join their clauses by AND: the seek is appended to the list
\* without a group around the list, so that after an OR it would restrict one
\* side of it only.
Conjunctive ==
    \A list \in Filters : list \in Seq([boolean : {"AND"}, test : SUBSET Row])

CursorAtLast ==
    walking => after = IF seen = <<>> THEN Start
                       ELSE CursorValues(seen[Len(seen)])

SeenInOrder ==
    \A i, j \in 1 .. Len(seen) : i < j => OrderedBefore(seen[i], seen[j])

SteadyAreStored ==
    \A id \in steady :
        /\ rows[id] # Absent
        /\ \A i \in 1 .. Len(seen) : seen[i].id = id => seen[i].sort = rows[id]

Ahead(row) == walking /\ (seen # <<>> => OrderedBefore(seen[Len(seen)], row))

NoneSkipped ==
    \A row \in Stored \cap Matching(wheres, Row) :
        row.id \in steady => Ahead(row) \/ \E i \in 1 .. Len(seen) : seen[i] = row

WalkInv ==
    /\ TypeOK
    /\ CursorAtLast
    /\ SeenInOrder
    /\ SteadyAreStored
    /\ NoneSkipped

\* A clause appended to a list of clauses joined by AND holds besides them.
LEMMA AppendedClause ==
    ASSUME NEW list \in Seq([boolean : {"AND"}, test : SUBSET Row]),
           NEW clause, clause.boolean = "AND", NEW row
    PROVE  Satisfies(Append(list, clause), row) <=>
               Satisfies(list, row) /\ row \in clause.test
<1> DEFINE both == Append(list, clause)
<1>1. /\ Len(list) \in Nat /\ Len(both) = Len(list) + 1 /\ both # <<>>
      /\ both[Len(list) + 1] = clause
      /\ \A i \in 1 .. Len(list) : both[i] = list[i] /\ list[i].boolean = "AND"
  <2>1. \A i \in 1 .. Len(list) :
            list[i] \in [boolean : {"AND"}, test : SUBSET Row]
    BY ElementOfSeq
  <2>2. /\ list \in Seq([boolean : {"AND"}, test : SUBSET Row] \cup {clause})
        /\ Len(list) \in Nat
    <3> DEFINE plain == [boolean : {"AND"}, test : SUBSET Row]
    <3>1. list \in Seq(plain) /\ plain \subseteq plain \cup {clause}
      OBVIOUS
    <3> HIDE DEF plain
    <3>2. list \in Seq(plain \cup {clause}) /\ Len(list) \in Nat
      BY <3>1, SeqMonotonic
    <3> QED  BY <3>2 DEF plain
  <2>3. /\ Len(both) = Len(list) + 1
        /\ both[Len(list) + 1] = clause
        /\ \A i \in 1 .. Len(list) : both[i] = list[i]
    BY <2>2
  <2>4. both # <<>>
    BY <2>2, <2>3
  <2>5. QED
    BY <2>1, <2>2, <2>3, <2>4
<1> HIDE DEF both
<1>2. Satisfies(both, row) <=> \A i \in 1 .. Len(both) : row \in both[i].test
  <2>1. \A i \in 1 .. Len(both) : both[i].boolean = "AND"
    BY <1>1
  <2>2. QED
    BY <1>1, <2>1, Conjunction
<1>3. Satisfies(list, row) <=> \A i \in 1 .. Len(list) : row \in list[i].test
  <2>1. CASE list = <<>>
    BY <2>1 DEF Satisfies
  <2>2. CASE list # <<>>
    BY <1>1, <2>2, Conjunction, EmptySeq
  <2>3. QED
    BY <2>1, <2>2
<1>4. (\A i \in 1 .. Len(both) : row \in both[i].test) <=>
          (\A i \in 1 .. Len(list) : row \in list[i].test) /\ row \in clause.test
  BY <1>1
<1>5. QED
  BY <1>2, <1>3, <1>4 DEF both

\* What a page query finds is what the scan has left.
LEMMA QueryIsRemaining ==
    ASSUME NULL \notin Sorts, Conjunctive, TypeOK, CursorAtLast, walking,
           NEW row
    PROVE  row \in Matching(Query, Stored) <=>
               /\ row \in Stored /\ row \in Matching(wheres, Row)
               /\ seen # <<>> => OrderedBefore(seen[Len(seen)], row)
<1>1. CASE seen = <<>>
  BY <1>1 DEF CursorAtLast, Query, Matching, Stored
<1>2. CASE seen # <<>>
  <2> DEFINE last == seen[Len(seen)]
  <2>1. last \in Row
    <3>1. seen \in Seq(Row) /\ Len(seen) \in Nat \ {0}
      BY <1>2, EmptySeq DEF TypeOK
    <3>2. QED
      BY <3>1, ElementOfSeq
  <2>2. after = CursorValues(last) /\ after # Start
    BY <1>2, <2>1, CursorShape DEF CursorAtLast, TypeOK
  <2>3. Seek(after).boolean = "AND"
    BY DEF Seek, And
  <2>4. wheres \in Seq([boolean : {"AND"}, test : SUBSET Row])
    BY DEF Conjunctive, TypeOK
  <2>5. Satisfies(Query, row) <=> Satisfies(wheres, row) /\ row \in Seek(after).test
    BY <2>2, <2>3, <2>4, AppendedClause DEF Query
  <2>6. ASSUME row \in Row
        PROVE  row \in Seek(after).test <=> OrderedBefore(last, row)
    <3>1. keys \in Seq(Key) /\ keys # <<>>
      BY KeyListsAssumption DEF TypeOK
    <3>2. QED
      BY <2>1, <2>2, <2>6, <3>1, SeekIsSuccessor
  <2>7. QED
    BY <1>2, <2>5, <2>6 DEF Matching, Stored
<1>3. QED
  BY <1>1, <1>2

\* What a page adds to the rows handed over.
Adds(longer, page, more) ==
    /\ page \in Seq(Row) /\ seen \in Seq(Row) /\ longer \in Seq(Row)
    /\ Len(seen) \in Nat /\ Len(page) \in Nat /\ limit \in Nat \ {0}
    /\ Len(longer) = Len(seen) + Len(page)
    /\ more => Len(page) = limit
    /\ \A i \in 1 .. Len(seen) : longer[i] = seen[i]
    /\ \A i \in 1 .. Len(page) : longer[Len(seen) + i] = page[i]
    /\ \A i \in 1 .. Len(page) : page[i] \in Row /\ page[i] \in Matching(Query, Stored)
    /\ \A i, j \in 1 .. Len(page) : i < j => OrderedBefore(page[i], page[j])
    /\ \A row \in Matching(Query, Stored) :
          \/ \E i \in 1 .. Len(page) : page[i] = row
          \/ more /\ \A i \in 1 .. Len(page) : OrderedBefore(page[i], row)
    /\ more => \E row \in Matching(Query, Stored) :
                   \A i \in 1 .. Len(page) : page[i] # row

LEMMA PageAdds ==
    ASSUME NULL \notin Sorts, Conjunctive, TypeOK, CursorAtLast, walking,
           NEW found \in FirstRows(Matching(Query, Stored), limit + 1),
           NEW page, page = PageOf(found), NEW longer, longer = seen \o page
    PROVE  Adds(longer, page, Len(found) > limit)
<1> DEFINE set == Matching(Query, Stored)
<1>1. /\ limit \in Nat \ {0} /\ set \subseteq Row /\ keys \in KeyLists
      /\ seen \in Seq(Row) /\ found \in FirstRows(set, limit + 1)
  BY LimitShape DEF Matching, Stored, TypeOK
<1> HIDE DEF set
<1>2. /\ page \in Seq(set)
      /\ Len(page) = IF Len(found) > limit THEN limit ELSE Len(found)
  BY <1>1, PageShape DEF set
<1>3. /\ \A i, j \in 1 .. Len(page) : i < j => OrderedBefore(page[i], page[j])
      /\ \A row \in set :
            \/ \E i \in 1 .. Len(page) : page[i] = row
            \/ /\ Len(found) > limit
               /\ \A i \in 1 .. Len(page) : OrderedBefore(page[i], row)
      /\ Len(found) > limit =>
            \E row \in set : \A i \in 1 .. Len(page) : page[i] # row
  <2>1. /\ \A i, j \in 1 .. Len(PageOf(found)) :
              i < j => OrderedBefore(PageOf(found)[i], PageOf(found)[j])
        /\ \A row \in set :
              \/ \E i \in 1 .. Len(PageOf(found)) : PageOf(found)[i] = row
              \/ /\ Len(found) > limit
                 /\ \A i \in 1 .. Len(PageOf(found)) :
                       OrderedBefore(PageOf(found)[i], row)
        /\ Len(found) > limit =>
              \E row \in set : \A i \in 1 .. Len(PageOf(found)) :
                  PageOf(found)[i] # row
    BY <1>1, PageIsBeginning, Zenon
  <2>2. QED
    BY <2>1, Zenon
<1>4. page \in Seq(Row) /\ \A i \in 1 .. Len(page) : page[i] \in set
  BY <1>1, <1>2, SeqMonotonic, ElementOfSeq
<1>5. /\ seen \o page \in Seq(Row)
      /\ Len(seen \o page) = Len(seen) + Len(page)
      /\ \A i \in 1 .. Len(seen) + Len(page) : (seen \o page)[i] =
            IF i <= Len(seen) THEN seen[i] ELSE page[i - Len(seen)]
  BY <1>1, <1>4, ConcatProperties
<1>6. /\ \A i \in 1 .. Len(seen) : (seen \o page)[i] = seen[i]
      /\ \A i \in 1 .. Len(page) : (seen \o page)[Len(seen) + i] = page[i]
  <2>1. Len(seen) \in Nat /\ Len(page) \in Nat
    BY <1>1, <1>4
  <2>2. ASSUME NEW i \in 1 .. Len(page)
        PROVE  (seen \o page)[Len(seen) + i] = page[i]
    <3>1. /\ Len(seen) + i \in 1 .. Len(seen) + Len(page)
          /\ ~(Len(seen) + i <= Len(seen)) /\ (Len(seen) + i) - Len(seen) = i
      BY <2>1
    <3>2. QED
      BY <1>5, <3>1
  <2>3. QED
    BY <1>5, <2>1, <2>2
<1>7. Len(seen) \in Nat /\ Len(page) \in Nat
  BY <1>1, <1>4, LenProperties
<1>8. QED
  BY <1>1, <1>2, <1>3, <1>4, <1>5, <1>6, <1>7 DEF set, Adds

LEMMA FetchKeeps ==
    ASSUME NULL \notin Sorts, Conjunctive, WalkInv, TypeOK', FetchPage
    PROVE  WalkInv'
<1> USE DEF WalkInv
<1>1. PICK found \in FirstRows(Matching(Query, Stored), limit + 1) :
         /\ walking
         /\ walking' <=> Len(found) > limit
         /\ after' = IF Len(found) > limit
                     THEN CursorValues(PageOf(found)[limit]) ELSE Start
         /\ seen' = seen \o PageOf(found)
         /\ UNCHANGED <<rows, keys, limit, wheres, used, steady>>
  BY FetchOf
<1>2. PICK page : page = PageOf(found)
  OBVIOUS
<1>3. Adds(seen', page, Len(found) > limit)
  BY <1>1, <1>2, PageAdds
<1>4. /\ Len(seen) \in Nat /\ Len(page) \in Nat /\ limit \in Nat \ {0}
      /\ Len(seen') = Len(seen) + Len(page)
      /\ Len(seen) = 0 <=> seen = <<>>
      /\ Len(seen') = 0 <=> seen' = <<>>
      /\ \A i \in 1 .. Len(seen) : seen[i] \in Row /\ seen'[i] = seen[i]
      /\ \A i \in 1 .. Len(page) :
            /\ seen'[Len(seen) + i] = page[i]
            /\ page[i] \in Row /\ page[i] \in Matching(Query, Stored)
  BY <1>3, ElementOfSeq, EmptySeq DEF Adds
<1>5. /\ \A a, b : OrderedBefore(a, b)' <=> OrderedBefore(a, b)
      /\ \A row : CursorValues(row)' = CursorValues(row)
      /\ Stored' = Stored /\ keys \in KeyLists
  BY <1>1 DEF OrderedBefore, CursorValues, Stored, TypeOK
<1>6. ASSUME NEW i \in 1 .. Len(seen'), i > Len(seen)
      PROVE  \E m \in 1 .. Len(page) : i = Len(seen) + m /\ seen'[i] = page[m]
  <2>1. i - Len(seen) \in 1 .. Len(page) /\ i = Len(seen) + (i - Len(seen))
    BY <1>4, <1>6
  <2>2. QED
    BY <1>4, <2>1
<1>7. \A row : row \in Matching(Query, Stored) <=>
          /\ row \in Stored /\ row \in Matching(wheres, Row)
          /\ seen # <<>> => OrderedBefore(seen[Len(seen)], row)
  BY <1>1, QueryIsRemaining
<1>8. walking' => /\ Len(page) = limit /\ seen' # <<>>
                  /\ seen'[Len(seen')] = page[limit]
  BY <1>1, <1>3, <1>4 DEF Adds
<1>9. CursorAtLast'
  BY <1>1, <1>2, <1>5, <1>8 DEF CursorAtLast
<1>10. SeenInOrder'
  <2>1. ASSUME NEW i \in 1 .. Len(seen'), NEW j \in 1 .. Len(seen'), i < j
        PROVE  OrderedBefore(seen'[i], seen'[j])
    <3>1. CASE j <= Len(seen)
      <4>1. /\ i \in 1 .. Len(seen) /\ j \in 1 .. Len(seen)
            /\ seen'[i] = seen[i] /\ seen'[j] = seen[j]
        BY <1>4, <2>1, <3>1
      <4>2. QED
        BY <2>1, <4>1 DEF SeenInOrder
    <3>2. CASE i > Len(seen)
      <4>1. PICK k \in 1 .. Len(page) : i = Len(seen) + k /\ seen'[i] = page[k]
        BY <1>6, <2>1, <3>2
      <4>2. PICK m \in 1 .. Len(page) : j = Len(seen) + m /\ seen'[j] = page[m]
        <5>1. j > Len(seen)
          BY <1>4, <2>1, <3>2
        <5>2. QED
          BY <1>6, <5>1
      <4>3. k < m
        BY <1>4, <2>1, <4>1, <4>2
      <4>4. QED
        BY <1>3, <4>1, <4>2, <4>3 DEF Adds
    <3>3. CASE i <= Len(seen) /\ j > Len(seen)
      <4>1. PICK m \in 1 .. Len(page) : j = Len(seen) + m /\ seen'[j] = page[m]
        BY <1>6, <2>1, <3>3
      <4>2. /\ i \in 1 .. Len(seen) /\ Len(seen) \in 1 .. Len(seen)
            /\ seen'[i] = seen[i] /\ seen # <<>>
        BY <1>4, <2>1, <3>3
      <4>3. OrderedBefore(seen[Len(seen)], page[m])
        BY <1>4, <1>7, <4>2
      <4>4. CASE i = Len(seen)
        BY <4>1, <4>2, <4>3, <4>4
      <4>5. CASE i # Len(seen)
        <5>1. OrderedBefore(seen[i], seen[Len(seen)])
          BY <1>4, <4>2, <4>5 DEF SeenInOrder
        <5>2. QED
          BY <1>4, <1>5, <4>1, <4>2, <4>3, <5>1, BeforeTransitive
      <4>6. QED
        BY <4>4, <4>5
    <3>4. QED
      BY <1>4, <2>1, <3>1, <3>2, <3>3
  <2>2. QED
    BY <1>5, <2>1 DEF SeenInOrder
<1>11. SteadyAreStored'
  <2>1. ASSUME NEW id \in steady, NEW i \in 1 .. Len(seen'), seen'[i].id = id
        PROVE  seen'[i].sort = rows[id]
    <3>1. CASE i <= Len(seen)
      BY <1>4, <2>1, <3>1 DEF SteadyAreStored
    <3>2. CASE i > Len(seen)
      <4>1. PICK m \in 1 .. Len(page) : i = Len(seen) + m /\ seen'[i] = page[m]
        BY <1>6, <2>1, <3>2
      <4>2. page[m] \in Stored
        BY <1>4, <1>7
      <4>3. QED
        BY <2>1, <4>1, <4>2 DEF Stored
    <3>3. QED
      BY <1>4, <2>1, <3>1, <3>2
  <2>2. QED
    BY <1>1, <2>1 DEF SteadyAreStored
<1>12. NoneSkipped'
  <2>1. ASSUME NEW row \in Stored \cap Matching(wheres, Row), row.id \in steady
        PROVE  Ahead(row)' \/ \E i \in 1 .. Len(seen') : seen'[i] = row
    <3>1. CASE Ahead(row)
      <4>1. row \in Matching(Query, Stored)
        BY <1>7, <2>1, <3>1 DEF Ahead
      <4>2. CASE \E i \in 1 .. Len(page) : page[i] = row
        <5>1. PICK i \in 1 .. Len(page) : page[i] = row
          BY <4>2
        <5>2. Len(seen) + i \in 1 .. Len(seen') /\ seen'[Len(seen) + i] = row
          BY <1>4, <5>1
        <5>3. QED
          BY <5>2
      <4>3. CASE /\ Len(found) > limit
                 /\ \A i \in 1 .. Len(page) : OrderedBefore(page[i], row)
        <5>1. walking' /\ limit \in 1 .. Len(page)
          BY <1>1, <1>4, <1>8, <4>3
        <5>2. OrderedBefore(seen'[Len(seen')], row)
          BY <1>8, <4>3, <5>1
        <5>3. QED
          BY <1>5, <5>1, <5>2 DEF Ahead
      <4>4. QED
        BY <1>3, <4>1, <4>2, <4>3 DEF Adds
    <3>2. CASE \E i \in 1 .. Len(seen) : seen[i] = row
      <4>1. PICK i \in 1 .. Len(seen) : seen[i] = row
        BY <3>2
      <4>2. i \in 1 .. Len(seen') /\ seen'[i] = row
        BY <1>4, <4>1
      <4>3. QED
        BY <4>2
    <3>3. QED
      BY <2>1, <3>1, <3>2 DEF NoneSkipped
  <2>2. QED
    BY <1>1, <1>5, <2>1 DEF NoneSkipped
<1>13. QED
  BY <1>9, <1>10, <1>11, <1>12

\* A write changes no row that stays steady.
LEMMA WriteKeeps ==
    ASSUME WalkInv, TypeOK', UNCHANGED walkVars, steady' \subseteq steady,
           \A id \in steady' : rows'[id] = rows[id]
    PROVE  WalkInv'
<1> USE DEF WalkInv, walkVars
<1>1. CursorAtLast'
  BY DEF CursorAtLast, CursorValues
<1>2. SeenInOrder'
  <2>1. seen' = seen /\ \A a, b : OrderedBefore(a, b)' <=> OrderedBefore(a, b)
    BY DEF OrderedBefore
  <2>2. QED
    BY <2>1 DEF SeenInOrder
<1>3. SteadyAreStored'
  BY DEF SteadyAreStored
<1>4. NoneSkipped'
  <2>1. \A row \in Stored' : row.id \in steady' => row \in Stored
    BY DEF Stored
  <2>2. \A row : Ahead(row)' <=> Ahead(row)
    BY DEF Ahead, OrderedBefore
  <2>3. QED
    BY <2>1, <2>2 DEF NoneSkipped
<1>5. QED
  BY <1>1, <1>2, <1>3, <1>4

LEMMA InitWalk == Init => WalkInv
<1> SUFFICES ASSUME Init PROVE WalkInv
  OBVIOUS
<1>1. /\ seen = <<>> /\ Len(seen) = 0 /\ ~walking /\ steady = {}
      /\ TypeOK
  BY InitTypeOK, EmptySeq DEF Init
<1>2. CursorAtLast /\ SeenInOrder /\ SteadyAreStored /\ NoneSkipped
  BY <1>1 DEF CursorAtLast, SeenInOrder, SteadyAreStored, NoneSkipped
<1>3. QED
  BY <1>1, <1>2 DEF WalkInv

LEMMA NextWalk ==
    ASSUME NULL \notin Sorts, Conjunctive
    PROVE  WalkInv /\ [Next]_vars => WalkInv'
<1> SUFFICES ASSUME WalkInv, [Next]_vars PROVE WalkInv'
  OBVIOUS
<1>0. TypeOK /\ TypeOK'
  BY NextTypeOK DEF WalkInv
<1>1. CASE NewWalk
  <2>1. /\ walking' /\ seen' = <<>> /\ after' = Start /\ Len(seen') = 0
        /\ \A id \in steady' : rows'[id] # Absent
    BY <1>1, EmptySeq DEF NewWalk, Begin
  <2>2. CursorAtLast' /\ SeenInOrder' /\ SteadyAreStored' /\ NoneSkipped'
    BY <2>1 DEF CursorAtLast, SeenInOrder, SteadyAreStored, NoneSkipped, Ahead
  <2>3. QED
    BY <1>0, <2>2 DEF WalkInv
<1>2. CASE FetchPage
  BY <1>0, <1>2, FetchKeeps
<1>3. ASSUME NEW id \in Ids, NEW sort \in Sorts, Insert(id, sort)
      PROVE  WalkInv'
  <2>1. id \notin steady /\ UNCHANGED <<walkVars, steady>>
        /\ rows' = [rows EXCEPT ![id] = sort]
    BY <1>0, <1>3 DEF Insert, TypeOK
  <2>2. \A other \in steady' : rows'[other] = rows[other]
    BY <2>1, <1>0 DEF TypeOK
  <2>3. QED
    BY <1>0, <2>1, <2>2, WriteKeeps
<1>4. ASSUME NEW id \in Ids, NEW value,
             Delete(id) \/ \E sort \in Sorts : Move(id, sort)
      PROVE  WalkInv'
  <2>1. /\ UNCHANGED walkVars /\ steady' = steady \ {id}
        /\ \A other \in Ids \ {id} : rows'[other] = rows[other]
    BY <1>0, <1>4 DEF Delete, Move, TypeOK
  <2>2. \A other \in steady' : rows'[other] = rows[other]
    BY <1>0, <2>1 DEF TypeOK
  <2>3. QED
    BY <1>0, <2>1, <2>2, WriteKeeps
<1>5. CASE UNCHANGED vars
  BY <1>0, <1>5, WriteKeeps DEF vars
<1>6. QED
  BY <1>1, <1>2, <1>3, <1>4, <1>5 DEF Next

LEMMA WalkCorrect ==
    ASSUME NULL \notin Sorts, Conjunctive
    PROVE  Spec => []WalkInv
BY InitWalk, NextWalk, PTL DEF Spec

\* When a walk has ended, every row that matched its query from its beginning to
\* its end was on exactly one page, whatever was written meanwhile, for every
\* list of keys that ends in the primary key, every page size, and any table
\* (paginate.go: "rows sharing a non-unique sort value are not skipped").
THEOREM EveryRowOnce ==
    ASSUME NULL \notin Sorts, Conjunctive
    PROVE  Spec => []WalkComplete
<1>1. ASSUME WalkInv PROVE WalkComplete
  <2> USE <1>1 DEF WalkInv
  <2>1. SUFFICES ASSUME NEW id \in steady, NEW row,
                        row = [id |-> id, sort |-> rows[id]],
                        row \in Matching(wheres, Row)
                 PROVE  /\ Cardinality(Handed(id)) <= 1
                        /\ ~walking => Handed(id) # {}
    BY DEF WalkComplete
  <2>2. row \in Row /\ row \in Stored /\ row.id = id
    BY <2>1 DEF Matching, Stored
  <2>3. /\ seen \in Seq(Row) /\ Len(seen) \in Nat
        /\ \A i \in 1 .. Len(seen) : seen[i] \in Row
    BY ElementOfSeq, LenProperties DEF TypeOK
  <2>4. \A i \in Handed(id) : i \in 1 .. Len(seen) /\ seen[i] = row
    BY <2>1, <2>2, <2>3 DEF Handed, SteadyAreStored, Row
  <2>5. \A i, j \in Handed(id) : i = j
    <3>1. ASSUME NEW i \in Handed(id), NEW j \in Handed(id), i < j PROVE FALSE
      <4>1. OrderedBefore(row, row)
        BY <2>4, <3>1 DEF SeenInOrder
      <4>2. QED
        BY <2>2, <4>1, BeforeIrreflexive DEF TypeOK
    <3>2. \A i \in Handed(id) : i \in Nat
      BY <2>3, <2>4
    <3>3. QED
      BY <3>1, <3>2
  <2>6. Cardinality(Handed(id)) <= 1
    <3>1. CASE Handed(id) = {}
      BY <3>1, FS_EmptySet
    <3>2. CASE Handed(id) # {}
      <4>1. PICK i : Handed(id) = {i}
        BY <2>5, <3>2
      <4>2. Cardinality({i}) = 1
        BY FS_Singleton
      <4>3. QED
        BY <4>1, <4>2
    <3>3. QED
      BY <3>1, <3>2
  <2>7. ASSUME ~walking PROVE Handed(id) # {}
    BY <2>1, <2>2, <2>7 DEF NoneSkipped, Ahead, Handed
  <2>8. QED
    BY <2>6, <2>7
<1>2. QED
  BY <1>1, WalkCorrect, PTL
-----------------------------------------------------------------------------
(***************************************************************************)
(* The walk is a scan in key order, step by step.                          *)
(***************************************************************************)
LEMMA ScanOrder == \A a, b : Scan!Precedes(a, b) <=> OrderedBefore(a, b)
<1>1. ASSUME NEW a, NEW b, NEW i \in 1 .. Len(keys)
      PROVE  Scan!Below(keys[i], a, b) <=>
                 IF keys[i].desc
                 THEN Rank(b[keys[i].col]) < Rank(a[keys[i].col])
                 ELSE Rank(a[keys[i].col]) < Rank(b[keys[i].col])
  BY DEF Scan!Below
<1>2. \A x, y : x > y <=> y < x
  OBVIOUS
<1>3. QED
  BY <1>1, <1>2 DEF Scan!Precedes, OrderedBefore

LEMMA FetchHandsOver ==
    ASSUME NULL \notin Sorts, Conjunctive, WalkInv, TypeOK', FetchPage
    PROVE  Scan!HandOver
<1> USE DEF WalkInv
<1>1. PICK found \in FirstRows(Matching(Query, Stored), limit + 1) :
         /\ walking
         /\ walking' <=> Len(found) > limit
         /\ after' = IF Len(found) > limit
                     THEN CursorValues(PageOf(found)[limit]) ELSE Start
         /\ seen' = seen \o PageOf(found)
         /\ UNCHANGED <<rows, keys, limit, wheres, used, steady>>
  BY FetchOf
<1>2. PICK page : page = PageOf(found)
  OBVIOUS
<1>3. Adds(seen', page, Len(found) > limit)
  BY <1>1, <1>2, PageAdds
<1>4. SubSeq(seen', Len(seen) + 1, Len(seen')) = page
  <2> DEFINE batch == SubSeq(seen', Len(seen) + 1, Len(seen'))
  <2>1. /\ seen' \in Seq(Row) /\ page \in Seq(Row)
        /\ Len(seen) \in Nat /\ Len(page) \in Nat
        /\ Len(seen') = Len(seen) + Len(page)
        /\ \A i \in 1 .. Len(page) : seen'[Len(seen) + i] = page[i]
    BY <1>3 DEF Adds
  <2>2. \A i \in Len(seen) + 1 .. Len(seen') : seen'[i] \in Row
    <3>1. \A i \in Len(seen) + 1 .. Len(seen') : i \in 1 .. Len(seen')
      BY <2>1
    <3>2. QED
      BY <2>1, <3>1, ElementOfSeq
  <2>3. /\ batch \in Seq(Row)
        /\ Len(batch) = IF Len(seen) + 1 <= Len(seen')
                        THEN Len(seen') - (Len(seen) + 1) + 1 ELSE 0
        /\ \A i \in 1 .. Len(seen') - (Len(seen) + 1) + 1 :
              batch[i] = seen'[Len(seen) + 1 + i - 1]
    BY <2>1, <2>2, SubSeqProperties
  <2> HIDE DEF batch
  <2>4. Len(batch) = Len(page)
    BY <2>1, <2>3
  <2>5. ASSUME NEW i \in 1 .. Len(batch) PROVE batch[i] = page[i]
    <3>1. /\ i \in 1 .. Len(page) /\ i \in 1 .. Len(seen') - (Len(seen) + 1) + 1
          /\ Len(seen) + 1 + i - 1 = Len(seen) + i
      BY <2>1, <2>4
    <3>2. QED
      BY <2>1, <2>3, <3>1
  <2>6. batch = page
    BY <2>1, <2>3, <2>4, <2>5, SeqEqual
  <2>7. QED
    BY <2>6 DEF batch
<1>5. Scan!Remaining = Matching(Query, Stored)
  <2>1. \A row : row \in Scan!Remaining <=>
            /\ row \in Stored /\ row \in Matching(wheres, Row)
            /\ seen # <<>> => OrderedBefore(seen[Len(seen)], row)
    BY ScanOrder DEF Scan!Remaining
  <2>2. \A row : row \in Matching(Query, Stored) <=>
            /\ row \in Stored /\ row \in Matching(wheres, Row)
            /\ seen # <<>> => OrderedBefore(seen[Len(seen)], row)
    BY <1>1, QueryIsRemaining
  <2>3. QED
    BY <2>1, <2>2
<1>6. \A row : row \in Scan!RowsOf(page) <=> \E i \in 1 .. Len(page) : page[i] = row
  BY DEF Scan!RowsOf
<1>7. Scan!RowsOf(page) \subseteq Scan!Remaining
  <2>1. \A i \in 1 .. Len(page) : page[i] \in Matching(Query, Stored)
    BY <1>3 DEF Adds
  <2>2. QED
    BY <1>5, <1>6, <2>1
<1>8. Scan!IsNext(page)
  <2>1. \A i, j \in 1 .. Len(page) : i < j => Scan!Precedes(page[i], page[j])
    BY <1>3, ScanOrder DEF Adds
  <2>2. ASSUME NEW row \in Scan!Remaining \ Scan!RowsOf(page),
               NEW i \in 1 .. Len(page)
        PROVE  Scan!Precedes(page[i], row)
    <3>1. row \in Matching(Query, Stored) /\ ~\E k \in 1 .. Len(page) : page[k] = row
      BY <1>5, <1>6, <2>2
    <3>2. OrderedBefore(page[i], row)
      BY <1>3, <3>1 DEF Adds
    <3>3. QED
      BY <3>2, ScanOrder
  <2>3. QED
    BY <1>7, <2>1, <2>2 DEF Scan!IsNext
<1>9. walking' <=> Scan!RowsOf(page) # Scan!Remaining
  <2>1. CASE Len(found) > limit
    <3>1. \E row \in Matching(Query, Stored) :
              \A i \in 1 .. Len(page) : page[i] # row
      BY <1>3, <2>1 DEF Adds
    <3>2. QED
      BY <1>1, <1>5, <1>6, <2>1, <3>1
  <2>2. CASE ~(Len(found) > limit)
    <3>1. \A row \in Matching(Query, Stored) :
              \E i \in 1 .. Len(page) : page[i] = row
      BY <1>3, <2>2 DEF Adds
    <3>2. Scan!Remaining \subseteq Scan!RowsOf(page)
      BY <1>5, <1>6, <3>1
    <3>3. QED
      BY <1>1, <1>7, <2>2, <3>2
  <2>3. QED
    BY <2>1, <2>2
<1>10. walking' => page # <<>>
  BY <1>1, <1>3, EmptySeq DEF Adds
<1>11. Stored' = Stored /\ Matching(wheres, Row)' = Matching(wheres, Row)
  BY <1>1 DEF Stored
<1>12. walking' \in BOOLEAN
  BY DEF TypeOK
<1>13. walking' = (Scan!RowsOf(page) # Scan!Remaining)
  BY <1>9, <1>12
<1>14. seen' = seen \o page
  BY <1>1, <1>2
<1>15. QED
  BY <1>1, <1>4, <1>8, <1>10, <1>11, <1>13, <1>14 DEF Scan!HandOver

\* The pages of a walk are a scan of the matching rows in the order of the keys:
\* each call hands over the next of the rows that come after the last one, and
\* the walk ends where none is left, for every list of keys, page size and table.
THEOREM WalkIsScan ==
    ASSUME NULL \notin Sorts, Conjunctive
    PROVE  Spec => ScanInKeyOrder
<1>1. Init => ~walking /\ seen = <<>>
  BY DEF Init
<1>2. ASSUME WalkInv, WalkInv', [Next]_vars PROVE [Scan!Next]_Scan!vars
  <2>1. CASE NewWalk
    <3>1. ~walking /\ walking' /\ seen' = <<>> /\ Stored' = Stored
      BY <2>1 DEF NewWalk, Begin, Stored
    <3>2. QED
      BY <3>1 DEF Scan!Next, Scan!Restart
  <2>2. CASE FetchPage
    BY <1>2, <2>2, FetchHandsOver DEF Scan!Next, WalkInv
  <2>3. ASSUME UNCHANGED walkVars PROVE Scan!Next
    <3>1. UNCHANGED <<wheres, keys, seen, walking>>
      BY <2>3 DEF walkVars
    <3>2. Matching(wheres, Row)' = Matching(wheres, Row)
      BY <3>1
    <3>3. QED
      BY <3>1, <3>2 DEF Scan!Next, Scan!Write
  <2>4. CASE \/ \E id \in Ids, sort \in Sorts : Insert(id, sort)
             \/ \E id \in Ids : Delete(id)
             \/ \E id \in Ids, sort \in Sorts : Move(id, sort)
    BY <2>3, <2>4 DEF Insert, Delete, Move
  <2>5. CASE UNCHANGED vars
    BY <2>3, <2>5 DEF vars
  <2>6. QED
    BY <1>2, <2>1, <2>2, <2>4, <2>5 DEF Next
<1>3. Spec => []WalkInv
  BY WalkCorrect
<1>4. QED
  BY <1>1, <1>2, <1>3, PTL DEF Spec, ScanInKeyOrder, Scan!Spec
=============================================================================
