----------------------------- MODULE MassWrite ------------------------------
(***************************************************************************)
(* Map-based writes (write_map.go, the write terminals of builder.go) and  *)
(* the statements they compile to (grammar.go).                            *)
(*                                                                         *)
(* A write fills two lists by two walks over the same data: the SQL text   *)
(* with its placeholders, numbered as they are written, and the arguments. *)
(* The database puts argument n for placeholder n.  Here the SQL is the    *)
(* statement with a number wherever the text has a placeholder.            *)
(*                                                                         *)
(* One model with soft deletes, timestamps and a unique key; the table is  *)
(* written by one statement at a time.  Values are numbers and NULL is 0.  *)
(* Numbers ascend along the text, so that the n-th "?" of a dialect that   *)
(* does not number its placeholders is number n.                           *)
(***************************************************************************)
EXTENDS Naturals, Sequences, FiniteSets, FiniteSetsExt, Wheres

CONSTANTS
    Taggings,           \* [fillable, guarded]: the columns so tagged
    Maps,               \* what Insert is given
    Changes,            \* what Update is given
    Batches,            \* what InsertMany and Upsert are given
    UpdateLists,        \* update columns named for Upsert; <<>> is DO NOTHING
    NoList,             \* no list of update columns
    Queries,            \* [wheres, ctes]: what the write terminals select by
    Related,            \* the rows EXISTS and IN subqueries range over
    Dialects,           \* "mysql", or "standard" for the three others
    NothingOn,          \* dialects on which Upsert is asked to do nothing
    Table,              \* the rows at the start, by id
    Nesting,            \* bound: how deep the lists of a query nest
    MaxWrites           \* bound: statements in one run

Null       == 0
Start      == 10
Columns    == {"created_at", "deleted_at", "id", "key", "name", "role",
               "updated_at"}
Timestamps == {"created_at", "updated_at"}
Members(seq) == {seq[i] : i \in 1 .. Len(seq)}

\* sort.Strings
InOrder(columns) ==
    LET Pick(c) == IF c \in columns THEN <<c>> ELSE <<>>
    IN  Pick("created_at") \o Pick("deleted_at") \o Pick("id") \o Pick("key")
           \o Pick("name") \o Pick("role") \o Pick("updated_at")

\* The database generates the id; role defaults to 1.
Default(c) == IF c = "role" THEN 1 ELSE Null

Fillable(t, c) == IF t.fillable # {} THEN c \in t.fillable ELSE c \notin t.guarded

\* The clauses with lists in them, and those in theirs, and so on that deep.
Kinds == {"in", "notIn", "between", "null", "notNull", "column", "raw", "exists",
          "inSub", "nested"}
Names == Columns \cup UNION {DOMAIN row : row \in Related}

Nested[depth \in Nat] ==
    [col : Names, values : Seq(Nat), second : Names, count : Seq(Nat),
     boolean : {"AND", "OR"}, kind : Kinds,
     inner : IF depth = 0 THEN {<<>>} ELSE Seq(Nested[depth - 1])]

\* The lists of statements: effectiveWheres puts a group around that of a query.
Lists == Seq(Nested[Nesting + 1])

\* What a caller may give as map[string]any.
IsData(data) == DOMAIN data \subseteq Columns \ {"id"} /\ data \in [DOMAIN data -> Nat]
InBatches    == UNION {Members(rows) : rows \in Batches}

ASSUME ConstantsAssumption ==
    /\ Taggings \subseteq [fillable : SUBSET Columns, guarded : SUBSET Columns]
    /\ \A data \in Maps \cup Changes \cup InBatches : IsData(data)
    /\ Batches \subseteq Seq(InBatches)
    /\ UpdateLists \subseteq Seq(Columns \ {"id"}) /\ NoList \notin UpdateLists \cup {<<>>}
    /\ Nesting \in Nat
    /\ Queries \subseteq [wheres : Seq(Nested[Nesting]), ctes : Seq(Nested[Nesting])]
    /\ Dialects \subseteq {"standard", "mysql"} /\ NothingOn \subseteq Dialects
    /\ MaxWrites \in Nat

\* The rows there are have keys, all different.
ASSUME TableAssumption ==
    /\ IsFiniteSet(DOMAIN Table) /\ DOMAIN Table \subseteq Nat
    /\ \A id \in DOMAIN Table :
          Table[id] \in [Columns -> Nat] /\ Table[id].id = id /\ Table[id].key # Null
    /\ \A i, j \in DOMAIN Table : Table[i].key = Table[j].key => i = j

\* Every row that is inserted is given a key of its own, which may be filled; no
\* update changes one.
ASSUME KeysAssumption ==
    /\ \A t \in Taggings : Fillable(t, "key")
    /\ \A data \in Maps : "key" \in DOMAIN data /\ data.key # Null
    /\ \A rows \in Batches :
          /\ rows # <<>>
          /\ \A r \in 1 .. Len(rows) : "key" \in DOMAIN rows[r] /\ rows[r].key # Null
          /\ \A r, s \in 1 .. Len(rows) : rows[r].key = rows[s].key => r = s
    /\ \A data \in Changes : "key" \notin DOMAIN data

VARIABLES
    dialect,  \* of the session
    tags,     \* of the model
    table,    \* the rows by id
    clock,    \* time.Now
    last      \* the call, with what it was given and what it returned

vars == <<dialect, tags, table, clock, last>>

CanFill(c) == Fillable(tags, c)

-----------------------------------------------------------------------------
(***************************************************************************)
(* Where lists.  A clause holds the values it binds, the list inside it (a *)
(* group; the correlation and the predicates of an EXISTS; those of an IN  *)
(* subquery), and the number an EXISTS counts up to, if it counts.         *)
(***************************************************************************)
\* compileWheres and compileExists, when n placeholders are written already.
CompileWheres[wheres \in Lists] ==
    IF wheres = <<>> THEN [n \in Nat |-> [sql |-> <<>>, n |-> n, args |-> <<>>]]
    ELSE LET w == Head(wheres)
         IN  [n \in Nat |->
                LET inner == CompileWheres[w.inner][n + Len(w.values)]
                    rest  == CompileWheres[Tail(wheres)][inner.n + Len(w.count)]
                    sql   == [w EXCEPT
                         !.values = [i \in 1 .. Len(w.values) |-> n + i],
                         !.inner  = inner.sql,
                         !.count  = [i \in 1 .. Len(w.count) |-> inner.n + i]]
                IN  [sql  |-> <<sql>> \o rest.sql, n |-> rest.n,
                     args |-> w.values \o inner.args \o w.count \o rest.args]]

\* whereArgs: the other walk.
WhereArgs[wheres \in Lists] ==
    IF wheres = <<>> THEN <<>>
    ELSE LET w == Head(wheres)
         IN  w.values \o WhereArgs[w.inner] \o w.count \o WhereArgs[Tail(wheres)]

\* The database puts argument n for placeholder n.  It refuses a statement that
\* is short of one; here there is a NULL in its place.
Argument(args, n) == IF n \in 1 .. Len(args) THEN args[n] ELSE Null
Put(args, numbers) == [i \in 1 .. Len(numbers) |-> Argument(args, numbers[i])]

Bind[sql \in Lists] ==
    IF sql = <<>> THEN [args \in Seq(Nat) |-> <<>>]
    ELSE LET w == Head(sql)
         IN  [args \in Seq(Nat) |->
                <<[w EXCEPT !.values = Put(args, w.values),
                            !.inner  = Bind[w.inner][args],
                            !.count  = Put(args, w.count)]>> \o Bind[Tail(sql)][args]]

\* Where the database tests a clause: in a row, with the row outside the subquery
\* it stands in and the ids of the CTE.
KnownRows == [Columns -> Nat] \cup Related
Places    == [row : KnownRows, outer : KnownRows \cup {<<>>}, cte : SUBSET Nat]

\* Whether clause w holds at a place; `inner` tells what its list means.  NULL is
\* equal to nothing, and an empty NOT IN compiles to 1 = 1.
Holds(w, inner, at) ==
    LET value  == at.row[w.col]
        known  == value # Null
        listed == Members(w.values)
        Inside == {r \in Related :
                      Satisfies(inner[[at EXCEPT !.row = r, !.outer = at.row]], r)}
    IN  CASE w.kind = "in"      -> known /\ value \in listed
          [] w.kind = "notIn"   ->
                w.values = <<>> \/ (known /\ {value, Null} \cap listed = {})
          [] w.kind = "between" -> known /\ w.values[1] <= value /\
                                   value <= w.values[2]
          [] w.kind = "null"    -> ~known
          [] w.kind = "notNull" -> known
          [] w.kind = "column"  -> known /\ value = at.outer[w.second]
          [] w.kind = "raw"     -> at.row.id \in at.cte
          [] w.kind = "exists"  ->
                Cardinality(Inside) >= (IF w.count = <<>> THEN 1 ELSE w.count[1])
          [] w.kind = "inSub"   -> known /\ \E r \in Inside : r[w.second] = value
          [] w.kind = "nested"  -> Satisfies(inner[at], at.row)

\* What a list means in a row.
Tested[wheres \in Lists] ==
    IF wheres = <<>> THEN [at \in Places |-> <<>>]
    ELSE LET w == Head(wheres)
         IN  [at \in Places |->
                <<[boolean |-> w.boolean,
                   test |-> {row \in {at.row} : Holds(w, Tested[w.inner], at)}]>>
                   \o Tested[Tail(wheres)][at]]

Selects(wheres, row, cte) ==
    Satisfies(Tested[wheres][[row |-> row, outer |-> <<>>, cte |-> cte]], row)

Selected(wheres, cte) == {id \in DOMAIN table : Selects(wheres, table[id], cte)}

\* effectiveWheres of a model without global scopes: the soft-delete filter,
\* then the user's list in a group.
Clause(kind, col) ==
    [col |-> col, values |-> <<>>, second |-> col, inner |-> <<>>,
     count |-> <<>>, boolean |-> "AND", kind |-> kind]
Group(wheres) == [Clause("nested", "id") EXCEPT !.inner = wheres]

EffectiveWheres(wheres, filter) ==
    IF filter = "none" THEN wheres
    ELSE <<Clause(filter, "deleted_at")>>
            \o (IF wheres = <<>> THEN <<>> ELSE <<Group(wheres)>>)

-----------------------------------------------------------------------------
(***************************************************************************)
(* UPDATE and DELETE.                                                      *)
(***************************************************************************)
\* Mutant: the columns are set before the CTEs are numbered.
CompileSetFirst(ctes, cols, wheres) ==
    LET cte  == CompileWheres[ctes][Len(cols)]
        body == CompileWheres[wheres][cte.n]
    IN  [ctes |-> cte.sql, cols |-> cols,
         set |-> [i \in 1 .. Len(cols) |-> i], wheres |-> body.sql]

\* compileUpdate, and SQL Server's with OUTPUT: the CTE, SET, WHERE.
CompileUpdate(ctes, cols, wheres) ==
    LET cte  == CompileWheres[ctes][0]
        body == CompileWheres[wheres][cte.n + Len(cols)]
    IN  [ctes |-> cte.sql, cols |-> cols,
         set |-> [i \in 1 .. Len(cols) |-> cte.n + i], wheres |-> body.sql]

\* The database runs it: the rows it has updated, and what it has made of one.
Hit(sql, args) ==
    Selected(Bind[sql.wheres][args],
             IF sql.ctes = <<>> THEN {} ELSE Selected(Bind[sql.ctes][args], {}))

\* The column that is written i-th has argument numbers[i].
Place(cols, c) == CHOOSE i \in 1 .. Len(cols) : cols[i] = c
Written(cols, numbers, args, c) == Argument(args, numbers[Place(cols, c)])

AfterUpdate(sql, args) ==
    [id \in DOMAIN table |->
       IF id \in Hit(sql, args)
       THEN [c \in Columns |-> IF c \in Members(sql.cols)
                              THEN Written(sql.cols, sql.set, args, c)
                              ELSE table[id][c]]
       ELSE table[id]]

\* The arguments of the CTEs come from compiling them as queries of their own.
CteWheres(query) == IF query.ctes = <<>> THEN <<>>
                    ELSE EffectiveWheres(query.ctes, "null")
CteArgs(query)   == CompileWheres[CteWheres(query)][0].args

\* Mutant: nothing is filtered.
FillableAll(data) == InOrder(DOMAIN data)

\* The columns of a map that may be filled, sorted.
FillableOf(data) == InOrder({c \in DOMAIN data : CanFill(c)})

Given(data, cols) == [i \in 1 .. Len(cols) |-> data[cols[i]]]

\* Columns and values of Update: updated_at is stamped unless it was given.
Assignments(data) ==
    LET cols  == FillableOf(data)
        stamp == InOrder({"updated_at"} \ Members(cols))
    IN  [cols |-> cols \o stamp,
         vals |-> Given(data, cols) \o [i \in 1 .. Len(stamp) |-> clock]]

InBounds == clock < Start + MaxWrites

Call(op) ==
    /\ clock' = clock + 1
    /\ last' = op
    /\ UNCHANGED <<dialect, tags>>

Update(query, data) ==
    LET set    == Assignments(data)
        wheres == EffectiveWheres(query.wheres, "null")
        args   == CteArgs(query) \o set.vals \o WhereArgs[wheres]
        sql    == CompileUpdate(CteWheres(query), set.cols, wheres)
    IN  /\ InBounds
        /\ table' = AfterUpdate(sql, args)
        /\ Call([op |-> "Update", query |-> query, data |-> data,
                 ids |-> Hit(sql, args)])

\* UpdateReturning runs the same statement; MySQL cannot, and is not asked.
UpdateReturning(query, data) ==
    IF dialect = "mysql"
    THEN /\ InBounds
         /\ Call([op |-> "Refused"])
         /\ UNCHANGED table
    ELSE Update(query, data)

\* Delete and Restore: one column is set, CTEs are not written.
SetDeleted(op, query, value, filter) ==
    LET wheres == EffectiveWheres(query.wheres, filter)
        args   == <<value>> \o WhereArgs[wheres]
        sql    == CompileUpdate(<<>>, <<"deleted_at">>, wheres)
    IN  /\ InBounds /\ query.ctes = <<>>
        /\ table' = AfterUpdate(sql, args)
        /\ Call([op |-> op, query |-> query, ids |-> Hit(sql, args)])

Delete(query)  == SetDeleted("Delete", query, clock, "null")
Restore(query) == SetDeleted("Restore", query, Null, "notNull")

\* hardDelete: no soft-delete filter.
ForceDelete(query) ==
    LET sql == CompileWheres[EffectiveWheres(query.wheres, "none")][0].sql
        hit == Selected(Bind[sql][WhereArgs[query.wheres]], {})
    IN  /\ InBounds /\ query.ctes = <<>>
        /\ table' = [id \in DOMAIN table \ hit |-> table[id]]
        /\ Call([op |-> "ForceDelete", query |-> query, ids |-> hit])

-----------------------------------------------------------------------------
(***************************************************************************)
(* INSERT and upsert.                                                      *)
(***************************************************************************)
\* insertInto and valueTuples: placeholder numbers by row and column.
InsertInto(cols, rows) ==
    [r \in 1 .. rows |-> [i \in 1 .. Len(cols) |-> (r - 1) * Len(cols) + i]]

NewId(r) == r + Max(DOMAIN table \cup {0})

\* The database: the new rows, with what the columns not named default to.
NewRows(sql, cols, args) ==
    [r \in 1 .. Len(sql) |->
       [c \in Columns |->
          IF c = "id" THEN NewId(r)
          ELSE IF c \in Members(cols) THEN Written(cols, sql[r], args, c)
          ELSE Default(c)]]

Clash(row) == {id \in DOMAIN table : table[id].key = row.key}

\* The database: nothing, if a key is taken.
RunInsert(op, rows) ==
    InBounds /\
    IF \E r \in 1 .. Len(rows) : Clash(rows[r]) # {}
    THEN Call([op |-> "Refused"]) /\ UNCHANGED table
    ELSE /\ table' = [id \in DOMAIN table \cup {rows[r].id : r \in 1 .. Len(rows)} |->
                        IF id \in DOMAIN table THEN table[id]
                        ELSE rows[CHOOSE r \in 1 .. Len(rows) : rows[r].id = id]]
         /\ Call(op)

\* Insert: the timestamps are stamped unless they were given.
Insert(data) ==
    LET given == FillableOf(data)
        stamp == InOrder(Timestamps \ Members(given))
        cols  == given \o stamp
        args  == Given(data, given) \o [i \in 1 .. Len(stamp) |-> clock]
    IN  RunInsert([op |-> "Insert", rows |-> <<data>>],
                  NewRows(InsertInto(cols, 1), cols, args))

\* Mutant: the key, which is only matched, is left out.
UnionWithoutKey(rows) ==
    InOrder({c \in UNION {DOMAIN rows[r] : r \in 1 .. Len(rows)} :
                CanFill(c) /\ c # "key"} \cup Timestamps)

UnionColumns(rows) ==
    InOrder({c \in UNION {DOMAIN rows[r] : r \in 1 .. Len(rows)} : CanFill(c)}
               \cup Timestamps)

\* rowValues: row after row; now for the timestamps, NULL for a missing key.
RowValues(rows, cols) ==
    [k \in 1 .. Len(rows) * Len(cols) |->
       LET row == rows[((k - 1) \div Len(cols)) + 1]
           c   == cols[((k - 1) % Len(cols)) + 1]
       IN  IF c \in Timestamps THEN clock
           ELSE IF c \in DOMAIN row THEN row[c] ELSE Null]

BatchRows(rows) ==
    LET cols == UnionColumns(rows)
    IN  NewRows(InsertInto(cols, Len(rows)), cols, RowValues(rows, cols))

InsertMany(rows) ==
    RunInsert([op |-> "InsertMany", rows |-> rows], BatchRows(rows))

\* Mutant: created_at too.
DefaultUpdatesAll(cols) == InOrder(Members(cols) \ {"key"})

\* Without a list, all that is inserted but the key and created_at.
DefaultUpdates(cols) == InOrder(Members(cols) \ {"key", "created_at"})

\* Mutant: an empty list is taken for no list.
UpdatesOrDefault(cols, update) ==
    IF update = NoList \/ update = <<>> THEN DefaultUpdates(cols) ELSE update

UpdateColumns(cols, update) ==
    IF update = NoList THEN DefaultUpdates(cols) ELSE update

\* What the statement updates: MySQL has no DO NOTHING, and sets the first
\* column instead.
Overwritten(cols, list) ==
    IF dialect = "mysql" /\ list = <<>> THEN <<cols[1]>> ELSE list

\* ON CONFLICT (key) DO UPDATE, ON DUPLICATE KEY UPDATE, MERGE.
Upsert(rows, update) ==
    LET cols   == UnionColumns(rows)
        new    == BatchRows(rows)
        set    == Members(Overwritten(cols, UpdateColumns(cols, update)))
        added  == {r \in 1 .. Len(new) : Clash(new[r]) = {}}
        Hits(id) == {r \in 1 .. Len(new) : id \in Clash(new[r])}
    IN  /\ InBounds
        /\ update = <<>> => dialect \in NothingOn
        /\ table' =
              [id \in DOMAIN table \cup {new[r].id : r \in added} |->
                 IF id \notin DOMAIN table
                 THEN new[CHOOSE r \in added : new[r].id = id]
                 ELSE IF Hits(id) = {} THEN table[id]
                 ELSE LET r == CHOOSE r \in Hits(id) : TRUE
                      IN  [c \in Columns |-> IF c \in set THEN new[r][c]
                                             ELSE table[id][c]]]
        /\ Call([op |-> "Upsert", rows |-> rows, update |-> update])

-----------------------------------------------------------------------------
Init ==
    /\ dialect \in Dialects
    /\ tags \in Taggings
    /\ table = Table
    /\ clock = Start
    /\ last = [op |-> "none"]

Next ==
    \/ \E query \in Queries, data \in Changes :
          Update(query, data) \/ UpdateReturning(query, data)
    \/ \E query \in Queries : Delete(query) \/ Restore(query) \/ ForceDelete(query)
    \/ \E data \in Maps : Insert(data)
    \/ \E rows \in Batches :
          \/ InsertMany(rows)
          \/ \E update \in UpdateLists \cup {NoList} : Upsert(rows, update)

Spec == Init /\ [][Next]_vars

-----------------------------------------------------------------------------
\* The shape of the state; every row has the key it was given, once.
TypeOK ==
    /\ dialect \in Dialects /\ tags \in Taggings
    /\ \A id \in DOMAIN table :
          /\ table[id] \in [Columns -> Nat]
          /\ table[id].id = id /\ table[id].key # Null
    /\ \A i, j \in DOMAIN table : table[i].key = table[j].key => i = j
    /\ clock \in Start .. Start + MaxWrites

Kept(ids) == \A id \in ids : id \in DOMAIN table' /\ table'[id] = table[id]

Live == {id \in DOMAIN table : table[id].deleted_at = Null}

\* The rows a query asks for, by what its lists say themselves.
Asked(query) ==
    Selected(query.wheres,
             IF query.ctes = <<>> THEN {} ELSE Live \cap Selected(query.ctes, {}))

\* Row id is as before in all columns but those of `set`, which are as it says.
Changed(id, set) ==
    table'[id] = [c \in Columns |-> IF c \in DOMAIN set THEN set[c]
                                    ELSE table[id][c]]

Fills(data) == {c \in DOMAIN data : CanFill(c)}

Assigned(data) ==
    [c \in Fills(data) \cup {"updated_at"} |->
       IF c \in Fills(data) THEN data[c] ELSE clock]

UpdatedAs(op) ==
    LET hit == CASE op.op = "Restore"     -> Asked(op.query) \ Live
                 [] op.op = "ForceDelete" -> Asked(op.query)
                 [] OTHER                 -> Asked(op.query) \cap Live
    IN  /\ op.ids = hit
        /\ DOMAIN table' = DOMAIN table \ (IF op.op = "ForceDelete" THEN hit ELSE {})
        /\ Kept(DOMAIN table \ hit)
        /\ \A id \in hit :
              CASE op.op = "Update"  -> Changed(id, Assigned(op.data))
                [] op.op = "Delete"  -> Changed(id, [deleted_at |-> clock])
                [] op.op = "Restore" -> Changed(id, [deleted_at |-> Null])
                [] op.op = "ForceDelete" -> TRUE

\* What row r of a call gives column c: a single Insert keeps a timestamp it was
\* given, and leaves to the database what it was not given; of several rows,
\* one without a column of another has NULL in it.
Value(op, r, c) ==
    LET given == UNION {Fills(op.rows[i]) : i \in 1 .. Len(op.rows)}
    IN  IF c \in Timestamps
        THEN IF op.op = "Insert" /\ c \in given THEN op.rows[r][c] ELSE clock
        ELSE IF c \notin given THEN Default(c)
        ELSE IF c \in DOMAIN op.rows[r] THEN op.rows[r][c] ELSE Null

Stored(op, r, id) ==
    \A c \in Columns \ {"id"} : table'[id][c] = Value(op, r, c)

InsertedAs(op) ==
    /\ Kept(DOMAIN table)
    /\ Cardinality(DOMAIN table') = Cardinality(DOMAIN table) + Len(op.rows)
    /\ \A r \in 1 .. Len(op.rows) : \E id \in DOMAIN table' \ DOMAIN table :
          Stored(op, r, id)

\* The columns an upsert is to update in a row that is there.
ToUpdate(op) ==
    IF op.update # NoList THEN Members(op.update)
    ELSE ((UNION {Fills(op.rows[r]) : r \in 1 .. Len(op.rows)})
             \cup {"updated_at"}) \ {"key", "created_at"}

UpsertedAs(op) ==
    LET keys == {op.rows[r].key : r \in 1 .. Len(op.rows)}
        old(r) == {id \in DOMAIN table : table[id].key = op.rows[r].key}
    IN  /\ Kept({id \in DOMAIN table : table[id].key \notin keys})
        /\ Cardinality(DOMAIN table') =
              Cardinality({table[id].key : id \in DOMAIN table} \cup keys)
        /\ \A r \in 1 .. Len(op.rows) :
              IF old(r) = {}
              THEN \E id \in DOMAIN table' \ DOMAIN table : Stored(op, r, id)
              ELSE \A id \in old(r) :
                      Changed(id, [c \in ToUpdate(op) |-> Value(op, r, c)])

\* A write reaches the rows its query asks for and no other, and each column of
\* each of them has the value its own map gave it: no argument lands in the
\* place of another, wherever its placeholder stands (write_map.go:61:
\* "matching the SQL").
WrittenAsAsked ==
    [][CASE last'.op \in {"Update", "Delete", "Restore", "ForceDelete"} ->
                UpdatedAs(last')
         [] last'.op \in {"Insert", "InsertMany"} -> InsertedAs(last')
         [] last'.op = "Upsert"  -> UpsertedAs(last')
         [] last'.op = "Refused" -> Kept(DOMAIN table)]_vars

\* No write takes a column that may not be filled from a map: it stays as it is,
\* and is the database's default in a new row, whatever the map says; the write
\* sets the id, the timestamps and deleted_at itself.  Update lists of Upsert
\* name no such column.  (metadata/cache.go:231: "Fillable is a whitelist".)
GuardedKept ==
    [][\A id \in DOMAIN table' :
       \A c \in Columns \ ({"id", "deleted_at"} \cup Timestamps) :
          ~CanFill(c) => table'[id][c] = IF id \in DOMAIN table
                                         THEN table[id][c] ELSE Default(c)]_vars

\* A row keeps the created_at it was inserted with, however often it is upserted.
CreatedOnce ==
    [][\A id \in DOMAIN table \cap DOMAIN table' :
          table'[id].created_at = table[id].created_at]_vars

\* An upsert with an empty list of update columns changes no row that is there
\* (write_map.go: "an explicit empty slice means DO NOTHING on conflict").
NothingMeansNothing ==
    [][last'.op = "Upsert" /\ last'.update = <<>> => Kept(DOMAIN table)]_vars
=============================================================================
