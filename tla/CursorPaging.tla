---------------------------- MODULE CursorPaging ----------------------------
(***************************************************************************)
(* Keyset pagination (paginate.go): an application calls CursorPaginate    *)
(* page by page, passing each NextCursor to the next call, while other     *)
(* clients insert, delete and change rows.  Each call is one SELECT on a   *)
(* fresh builder: the user's where list, then the seek built from the      *)
(* cursor, ORDER BY the keys, LIMIT one more than the page.                *)
(***************************************************************************)
EXTENDS Integers, Sequences, FiniteSets, SequencesExt, Wheres

CONSTANTS
    Ids,       \* primary keys; one is never used for two rows
    Sorts,     \* values of the sort column, NULL among them when nullable
    NULL,
    NullRank,  \* where ORDER BY puts NULL among the numbers
    Absent,    \* there is no row of this id
    Start,     \* the nil After of a first page
    KeyLists,  \* the key lists walks are made with
    Limits,    \* the page sizes
    Filters    \* the where lists walks are made with

ASSUME ConstantsAssumption ==
    /\ Ids \subseteq Int
    /\ Sorts \ {NULL} \subseteq Int /\ NULL \notin Int
    /\ Absent \notin Sorts
    /\ NullRank \in Int \ Sorts
    /\ Limits \subseteq Nat \ {0}
    /\ Filters # {} /\ Limits # {} /\ KeyLists # {}
    /\ \A list \in KeyLists : Start \notin [1 .. Len(list) -> Ids \cup Sorts]

Column == {"id", "sort"}
Row    == [id : Ids, sort : Sorts]
Key    == [col : Column, desc : BOOLEAN]

\* A walk that is to see every row orders by a unique key in the end.
ASSUME KeyListsAssumption ==
    \A keys \in KeyLists :
        /\ keys \in Seq(Key) /\ keys # <<>>
        /\ keys[Len(keys)].col = "id"

VARIABLES
    rows,     \* rows[id]: the sort column of the stored row
    keys,     \* Cursor.Keys, or the single Cursor.Column
    limit,    \* Cursor.Limit
    wheres,   \* the user's where list
    after,    \* Cursor.After
    walking,  \* the last page had HasMore set, or is still to be fetched
    seen,     \* history: the rows of the pages so far
    used,     \* history: ids that were ever inserted
    steady    \* history: ids whose rows are as they were when the walk began

walkVars == <<keys, limit, wheres, after, walking, seen>>
vars     == <<rows, walkVars, used, steady>>

Stored == {row \in Row : rows[row.id] = row.sort}

(***************************************************************************)
(* applyCursorSeek: beyond the cursor in the first key; or level with it   *)
(* there and beyond it in the second; and so on.  SQL compares nothing     *)
(* with NULL.                                                              *)
(***************************************************************************)
Equal(col, value) ==
    {row \in Row : value # NULL /\ row[col] # NULL /\ row[col] = value}

Strict(key, value) ==
    {row \in Row : /\ value # NULL /\ row[key.col] # NULL
                   /\ IF key.desc THEN row[key.col] < value
                                  ELSE row[key.col] > value}

\* Mutant: beyond the cursor in key i, whatever the higher keys.
LevelAlone(cursor, i) == <<And(Strict(keys[i], cursor[i]))>>

Level(cursor, i) ==
    [j \in 1 .. i |-> And(IF j < i THEN Equal(keys[j].col, cursor[j])
                                   ELSE Strict(keys[i], cursor[i]))]

Levels(cursor) ==
    [i \in 1 .. Len(keys) |->
        [boolean |-> IF i = 1 THEN "AND" ELSE "OR",
         test    |-> Matching(Level(cursor, i), Row)]]

Seek(cursor) ==
    IF Len(keys) = 1 THEN And(Strict(keys[1], cursor[1]))
                     ELSE And(Matching(Levels(cursor), Row))

Query == IF after = Start THEN wheres ELSE Append(wheres, Seek(after))

(***************************************************************************)
(* The database's ORDER BY and LIMIT: the answers FirstRows allows hold    *)
(* the first n rows of the set, in order.                                  *)
(***************************************************************************)
Rank(value) == IF value = NULL THEN NullRank ELSE value

OrderedBefore(a, b) ==
    \E i \in 1 .. Len(keys) :
        /\ \A j \in 1 .. i - 1 : Rank(a[keys[j].col]) = Rank(b[keys[j].col])
        /\ IF keys[i].desc
           THEN Rank(a[keys[i].col]) > Rank(b[keys[i].col])
           ELSE Rank(a[keys[i].col]) < Rank(b[keys[i].col])

FirstRows(set, n) ==
    {found \in SeqOf(set, n) :
        /\ \A i, j \in 1 .. Len(found) : i < j => OrderedBefore(found[i], found[j])
        /\ \A row \in set \ Range(found) :
              /\ Len(found) = n
              /\ \A i \in 1 .. n : OrderedBefore(found[i], row)}

\* Mutant: the scalar of a single-key cursor, whatever the keys.
CursorScalar(row) == <<row[keys[1].col]>>

\* cursorValues: the key fields of a row, aligned to the keys.  A nullable
\* column is read into a pointer field, whose nil is bound as NULL.
CursorValues(row) == [i \in 1 .. Len(keys) |-> row[keys[i].col]]

-----------------------------------------------------------------------------
Begin ==
    /\ keys' \in KeyLists
    /\ limit' \in Limits
    /\ wheres' \in Filters
    /\ after'   = Start
    /\ walking' = TRUE
    /\ seen'    = <<>>

NewWalk ==
    /\ ~walking
    /\ Begin
    /\ steady' = used \cap {id \in Ids : rows[id] # Absent}
    /\ UNCHANGED <<rows, used>>

\* Mutant: the cursor is read before the probe row is dropped.
FetchPageFromProbe ==
    \E found \in FirstRows(Matching(Query, Stored), limit + 1) :
        LET more == Len(found) > limit
        IN  /\ walking
            /\ walking' = more
            /\ after'   = IF more THEN CursorValues(found[limit + 1]) ELSE Start
            /\ seen'    = seen \o (IF more THEN SubSeq(found, 1, limit) ELSE found)
            /\ UNCHANGED <<rows, keys, limit, wheres, used, steady>>

\* CursorPaginate: the probe row beyond the page says whether there is more.
FetchPage ==
    \E found \in FirstRows(Matching(Query, Stored), limit + 1) :
        LET more == Len(found) > limit
            page == IF more THEN SubSeq(found, 1, limit) ELSE found
        IN  /\ walking
            /\ walking' = more
            /\ after'   = IF more THEN CursorValues(page[limit]) ELSE Start
            /\ seen'    = seen \o page
            /\ UNCHANGED <<rows, keys, limit, wheres, used, steady>>

(***************************************************************************)
(* Other clients.                                                          *)
(***************************************************************************)
Insert(id, sort) ==
    /\ id \notin used
    /\ rows' = [rows EXCEPT ![id] = sort]
    /\ used' = used \cup {id}
    /\ UNCHANGED <<walkVars, steady>>

Delete(id) ==
    /\ rows[id] # Absent
    /\ rows'   = [rows EXCEPT ![id] = Absent]
    /\ steady' = steady \ {id}
    /\ UNCHANGED <<walkVars, used>>

Move(id, sort) ==
    /\ rows[id] # Absent /\ rows[id] # sort
    /\ rows'   = [rows EXCEPT ![id] = sort]
    /\ steady' = steady \ {id}
    /\ UNCHANGED <<walkVars, used>>

Init ==
    /\ rows   = [id \in Ids |-> Absent]
    /\ used   = {}
    /\ steady = {}
    /\ keys \in KeyLists /\ limit \in Limits /\ wheres \in Filters
    /\ after = Start /\ walking = FALSE /\ seen = <<>>

Next ==
    \/ NewWalk
    \/ FetchPage
    \/ \E id \in Ids, sort \in Sorts : Insert(id, sort)
    \/ \E id \in Ids : Delete(id)
    \/ \E id \in Ids, sort \in Sorts : Move(id, sort)

Spec == Init /\ [][Next]_vars
-----------------------------------------------------------------------------
\* The shape of the state.
TypeOK ==
    /\ rows    \in [Ids -> Sorts \cup {Absent}]
    /\ keys    \in KeyLists
    /\ limit   \in Limits
    /\ wheres  \in Filters
    /\ after # Start => after \in [1 .. Len(keys) -> Ids \cup Sorts]
    /\ walking \in BOOLEAN
    /\ seen    \in Seq(Row)
    /\ used    \subseteq Ids
    /\ steady  \subseteq used

Handed(id) == {i \in 1 .. Len(seen) : seen[i].id = id}

\* When the walk has ended, every row that matched the query from its beginning
\* to its end was on exactly one page, whatever happened to the others
\* (paginate.go: "rows sharing a non-unique sort value are not skipped").
WalkComplete ==
    \A id \in steady :
        LET row == [id |-> id, sort |-> rows[id]]
        IN  row \in Matching(wheres, Row) =>
                /\ Cardinality(Handed(id)) <= 1
                /\ ~walking => Handed(id) # {}

\* The pages are those of a scan in key order.
Scan == INSTANCE OrderedScan
            WITH table <- Stored, filter <- Matching(wheres, Row)
ScanInKeyOrder == Scan!Spec
=============================================================================
