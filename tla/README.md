# playsql in TLA+

playsql is a Go ORM on top of `database/sql`: models with lifecycle hooks and
dirty tracking, a query builder with dialects for MySQL, PostgreSQL, SQLite and
SQL Server, relations, transactions and query-time accounting. This directory
holds a formal model of it: TLA+ modules, the TLC configurations that check
them on small instances, and proofs that TLAPS checks for all instances.

Paths below are relative to the repository's root; `file.go:10` is line 10.

## 1. Inventory

| component | state it keeps | operations | module | correct when |
|---|---|---|---|---|
| persistence and hooks (`persistence.go`, `model.go`, `hooks.go`) | `Model.exists` and the baseline `Model.original` in the caller's struct; rows | Insert, Update, Save, Delete, ForceDelete, Restore, each a sequence of hooks and one statement | `Persistence` | no assignment is forgotten by the dirty check; `exists` tells insert from update; only changed columns are written; one struct, one row, if its key comes back |
| scanning and casts (`scan.go`, `casts.go`) | the cast registry | scanOne, scanRows, scanInto | `Persistence` (scanOne) | a loaded struct equals its row |
| connections and transactions (`db.go`) | the pool, the session with its runner and grammar | Open, Use, UseTx, Exec, Raw, Tx | `ConnPool`, `Persistence`, `Pivot` (Tx) | a closure publishes all or nothing, and Tx says which; connections go back to their pool; calls return |
| dynamic connections (`dynamic.go`) | nothing; a resolver picks a pool per statement | Query, QueryRow, Exec, Tx | `ConnPool` | a statement runs in the pool named for it; a transaction stays on one connection |
| events (`events.go`) | listeners of a DB | Listen, emit | `QueryStats`, `ConnPool` | every statement reaches every listener, whose panics are contained |
| query-time accounting (`querystats.go`) | per scope: total, count, slowest, fired; per DB: handlers, lifetime counters | TrackQueryTime, Stats, WhenQueryingForLongerThan, ResetQueryStats | `QueryStats` | no lost update or torn snapshot; a handler fires once, when due |
| builder (`builder.go`, `scope.go`) | where lists, scope predicates, trashed mode, limits, first error | Where…, groups, relation filters, WithCount, Get, First, Count, Delete, ForceDelete, Restore | `QueryScoping` over `Wheres` | a statement is about the rows asked for, inside the scopes |
| pagination (`paginate.go`) | none; the cursor goes through the caller | Paginate, CursorPaginate | `CursorPaging` over `Wheres`; `QueryScoping` (Paginate) | a walk hands over every row that stays put exactly once, in order |
| pivot writes (`pivot.go`) | rows of a join table | Attach, AttachWith, Detach, UpdatePivot, Sync, SyncWithoutDetaching, Toggle | `Pivot` | the links end as the call says, whatever fails or interferes; other parents are untouched |
| relation loading (`relations.go`, `deferred.go`) | dest structs, as a tree | With, WithConstraint, LoadCount and the other aggregates | `EagerLoad` | each model gets its own related rows, all of them and no others |
| map writes (`write_map.go`) | rows | Insert, Create, Update, UpdateReturning, InsertMany, Upsert | `MassWrite`; `QueryScoping` (scopes of Update) | only fillable columns; columns and values stay aligned |
| grammars (`grammar/`) | none | Compile… | `Wheres` (meaning of a where list), `MassWrite` (placeholders of the writes) | placeholder n belongs to argument n |
| debug runners (`debug.go`) | none | Debug, DD | `ConnPool` (DD) | DD never reaches the database and leaves nothing behind |
| metadata (`metadata/`) | cache of parsed types | For, Resolve…, CanFill | `MassWrite` (CanFill) | concurrent first users agree |
| filters, typed façade, collections, config | none | – | not modelled | delegation and formatting |

How they interact: a terminal of the builder, a persistence call, a pivot write
or a relation loader compiles SQL with the grammar and runs it on the session's
runner. The runner of a DB is the pool, of a Tx its transaction, of a
`Dynamic` the connection its resolver picks; with listeners or handlers it is
wrapped by `listenRunner`, which calls `emit` and so the accounting after each
driver call. Loaded and saved structs are marked persisted by the scanner and
by Insert and Update. Callbacks the application supplies (hooks, scopes,
relation closures, listeners, handlers, the closure of `DB.Tx`) run in the
middle of these sequences and may fail, panic or call back in.

What is hard:

* *Interleaving.* Goroutines share a query-time scope, a DB's counters, the
  rows, the pools and the metadata cache. Pivot writes, cursor walks and eager
  loads take several statements, between which others write.
* *Limits.* A pool may have one connection, which the rows of a statement or
  a transaction hold until they are closed.
* *Two lists that must agree.* The placeholders of a statement are numbered in one
  walk over it and its arguments collected in another.
* *Failure half way.* A hook after the statement fails; a detach succeeds and
  the attach does not; the closure of `DB.Tx` errs, panics, exits or its commit
  is refused. The database forgets, the structs do not.
* *State compared with later state.* The dirty baseline, ids read by Sync,
  the cursor of the last page, a snapshot given to a handler.
* *Reentrance.* A handler queries under the scope that is being recorded.

The full list, at its lines, is `hazards` in `PROJECT.json`.

## 2. Plan

| order | modules | composes | state |
|---|---|---|---|
| 1 | `Persistence`, `MCPersistence`, `PersistenceProofs` | – | done |
| 2 | `QueryStats`, `MCQueryStats`, `QueryStatsProofs` | – | done |
| 3 | `Wheres`, `OrderedScan` (abstract), `CursorPaging`, `MCCursorPaging`, `CursorProofs` | paging over where lists, refining the scan | done |
| 4 | `Pivot`, `MCPivot`, `PivotProofs` | pivot statements with `DB.Tx` | done |
| 5 | `QueryScoping`, `MCQueryScoping`, `QueryScopingProofs`: scopes, soft-delete predicates, user wheres and relation filters as one where list; several terminals on one builder | `Wheres` | done |
| 6 | `EagerLoad`, `MCEagerLoad`, `EagerLoadProofs`: the queries of a `With`, grouping children by typed keys, pivots, morphs, deferred counts | `Wheres` | done |
| 7 | `ConnPool`, `MCConnPool`, `ConnPoolProofs`: pools and their limits, `DB.Tx`, `Dynamic`, `DD`; which connection each statement runs on and for how long | – | done |
| 8 | `MassWrite`, `MCMassWrite`, `MassWriteProofs`: columns, values, placeholders and arguments of the map writes | `Wheres` | done |
| 9 | the binds of SELECT (subquery columns, aggregates, orders) and of raw SQL (Rebind), beside `MassWrite` | `MassWrite` | |
| 10 | AtomicStore: a table whose rows change by whole saves and whole transactions, refined by `Persistence` for careful applications; a lost reply as a fault of `Persistence` | `Persistence` | |
| 11 | `CursorPaging` over builders of `QueryScoping` in place of bare where lists | both | |

Runs stay small enough for two workers and about a minute and a half; one run
asks all the questions of its module, and a second run of a module exists only
where its assumptions differ.

Theorems planned: that careful use of `Persistence` implements AtomicStore, from
`StructsOnRecord`.

## 3. Modules

### Persistence

One client is one goroutine with one struct. `pk`, `exists`, `cur` and `orig`
are the struct's key, `Model.exists`, its column fields and `Model.original`.
`rows`, `pending` and `nextId` are the database, which is external: committed
rows, the rows an open transaction has written, the auto-increment sequence.
`op` and `at` say which call is running and at which stage; `Plan` lists the
stages of each call in the order the code runs them. `tx` is how far `DB.Tx` is:
the closure runs while it is `"open"`, its end (nil, error, panic, Goexit) is
recorded by `FnEnds`, and `Commit` or `Rollback` is what the deferred function
does (`db.go:289-299`).

| action | code |
|---|---|
| `NewStruct`, `Assign`, `AssignKey`, `MutateInPlace` | the application between calls, `AssignKey` giving a new struct a key of its own; `snapshot` keeps the value of a field, so an object changed in place changes in the baseline too (`persistence.go:374`) |
| `Load`, `Reload` | `First`/`Find` through `scanOne`, into a fresh or an old struct; a NULL leaves the field as it was (`scan.go:155`) |
| `Save`, `Insert`, `Update`, `Delete`, `ForceDelete`, `Restore` | the entry of each call with its guards and, for `Save`, the dispatch |
| `HookSucceeds`, `HookAssigns`, `HookFails` | one hook, which may assign fields or end the call |
| `InsertRow`, `UpdateRow`, `UpdateNothing`, `SoftDeleteRow`, `HardDeleteRow`, `RestoreRow`, `StatementFails` | the statement and what follows it before the next hook; an Insert's `WriteKeyBack` is `setPK`, which sets signed fields only (`Signed`), or nothing where the driver has no id to give (`IdLost`, `persistence.go:75`) |
| `Begin`, `FnEnds`, `Commit`, `Rollback` | `DB.Tx` |

`known`, `base`, `owned`, `clean` and `dropped` are history: what the struct's own
reads and writes say of its row, before and after a rollback; which rows it
inserted; whether anything was assigned since. `Incrementing` are the clients
whose key is the database's to give, any integer key unless a tag says otherwise.
`Habits` names what careless code
does with a struct (reuse after a rollback or a delete, mutation in place,
loading into a used struct, updating one that was neither loaded nor saved,
giving it a key that is the database's to give, Goexit). The properties are claims
about careful code; the runs with habits show what is lost without.

| run | checks | shows |
|---|---|---|
| `persistence` | `TypeOK`, `SavedMeansStored`, `ExistsTruthful`, `OnlyChangedColumnsWritten`, `OnlySuccessfulTxPublishes` | two careful clients on one row, one tracked and in transactions, one untracked and outside: the dirty check forgets nothing, `exists` is right, updates overwrite nobody else's column, only successful closures publish |
| `persistence_careless` | `AtMostOneRow` | with every habit at once a struct still never has two rows, its key being signed and its driver giving the id |
| `persistence_lost_key` (violation) | `AtMostOneRow` | a key that is not set on the struct: the next Save of a struct without `Model` inserts again |

Bounds: `MaxId` rows (1 for two clients on one row; 2 where second rows matter),
one value of one data column besides NULL, one delete time. Interference needs two
clients and one row; a lost assignment needs a column and two values, NULL being
one of them; a second row needs two ids. In `persistence` the generated id may be
lost at any Insert.

### QueryStats

One process is one statement of some DB under some scope or none. The actions
cut `(*session).record` and `(*queryScope).record` at each atomic operation and
at each point between lock and unlock where another goroutine may act:
`AddNanos` and `AddCount` (two atomics), `NoScope`, `Acquire`, `LoadScope`,
`FoldTotal`, `FoldCount`, `TripHandlers` (which releases the mutex), then
`Report` for each handler that tripped, outside the lock, perhaps with a query
of its own (`HandlerQueries`, `HandlerEnds`), and `Listen`. `Stats`,
`ResetNanos` and `ResetCount` are the readers and the resetter. `order` is history: for
each scope its statements as they were folded, each with the DB, its duration and
the stats right after it, which is what a reader of the scope is compared with.

| run | checks | shows |
|---|---|---|
| `querystats` | `TypeOK`, `ScopeCoherent`, `SnapshotsCoherent`, `HandlersFireOnce`, `DueHandlersFire`, `TippingStatementReported`, `LifetimeTotals`, `StatementsReturn` | no statement is lost from a scope, no snapshot is torn, each handler fires once, by the time the scope is over its threshold, and with the statement that tipped the scope; lifetime counters count every statement; every statement returns, also when handlers query under the same scope |

Bounds: three statements, enough for two that race while a handler's statement
runs under the same scope; durations 1 and 2 against thresholds 2 and 3, so that
one statement alone, two together, or a later one tips a handler; one scope and
the untracked context; two DBs, of which the second has its counters reset.
`Sends` says what each statement may be: two are of the scope on the DB with the
handlers and race; the third is on either DB, in the scope or not, and the
handler's own comes on top. No symmetry is used, as the run checks liveness too.

Fairness is weak fairness of the steps of each statement: the Go scheduler runs
every runnable goroutine, and a handler is taken to return. For the mutex weak
fairness is enough, since a run issues finitely many statements; in the program
`sync.Mutex` hands itself to a waiter that starves. That a statement is issued,
stats read or counters reset is not assumed.

### Wheres, OrderedScan, CursorPaging

`Wheres` gives a where list its meaning. Clauses are joined flat by `compileWheres`,
so AND binds tighter than OR, and a group (`(*Builder).group`) is one clause. A
clause is the set of rows its predicate is true of, which is how SQL's
three-valued logic comes out when nothing is negated.

`CursorPaging` is an application that walks with `CursorPaginate`, a new builder
for each page and `NextCursor` passed on, while `Insert`, `Delete` and `Move` are
other clients. `FetchPage` is one call: the seek built level by level as in
`applyCursorSeek`, ORDER BY the keys, one probe row more than the page, the
cursor from the last row kept. `FirstRows` is the set of answers that ORDER BY and LIMIT
allow: one where the keys tell all rows apart. `Start`, the absent cursor of a first page,
is no tuple of column values. `seen` and `steady` are history.

`OrderedScan` is the abstract specification: each step hands over the next rows
in the order of the keys among those that are there now, and the walk ends only
at a moment when none is left. `ScanInKeyOrder` is the refinement, with the table
mapped to the stored rows and the filter to those the user's predicates match.

| run | checks | shows |
|---|---|---|
| `cursor` | `TypeOK`, `WalkComplete`, `ScanInKeyOrder` | five key lists (one key, two keys, ascending, descending, mixed), page sizes 1 and 2, with and without predicates |

Bounds: three ids and two sort values, so that two rows tie and one does not,
and pages end inside and at the end of a tie. An id is not reused. Key lists end
in the unique key: the README of the code says that without a unique key ties
are skipped. The user's OR is in a group: the seek of a single key is appended
flat, and after an ungrouped OR it restricts only the last alternative. A walk
need not end while other clients keep inserting ahead of it, so no liveness is
claimed.

### Pivot

`links` holds, for each parent and related id, the rows of that link by their
pivot columns; `pending` what an open transaction has written. `Sync`,
`SyncWithoutDetaching` and `Toggle` read (`pivotCurrentIDs`) and decide in one
step, since nothing others do can come between a statement's result and local
computation; then `DetachStep` and `AttachStep` are one statement each, `Commit`
and `Fails` the end. An id list is how often it names each id, as neither a detach nor an
attach cares for their order: `NewRows` are the rows an attach of it inserts. `promise` records each link as the call read it and as it is
to leave it, and lapses for a link when another client changes it.

| run | checks | shows |
|---|---|---|
| `pivot` | `TypeOK`, `DoneAsPromised`, `FailedHalfway`, `OtherParentsUntouched` | see the properties' comments; with and without a unique key, in and out of `DB.Tx`, ids named twice, no ids at all |

Bounds: one parent that is written and one of the same key and another morph
type; two related ids; two clients; at most two rows of a link. Transactions are
modelled only where the join table has a unique key, because only then does the
database make two writers of the same new link wait for each other.
`DoneAsPromised` says nothing of links others wrote meanwhile: two Syncs at once
may leave a mixture, and without a unique key the same link twice. The code's
comment recommends `db.Tx`; that gives atomicity, which `FailedHalfway` checks,
and under read committed no more.

### QueryScoping

One builder between `newBuilder` and its terminals, and the table it is about.
`b` has the builder's fields (`wheres`, `scopeWheres`, `trashed`, `limit`,
`offset`, `skipScopes`, `scopesDone`, `err`); `op` is the terminal that is
running and `scope` the scope whose Apply runs next, which is what `inScope` is
in the code. A relation is direct, through a pivot or through an intermediate
table: `Inner` is the related level of its subquery, `Selected` the rows the
outer one selects, `CountSelected` and `Aggregated` the IN-subqueries of the
counts. `EffectiveWheres` is the whole where list. Related tables are finite, and a
closure is a where list over their rows.

| action | code |
|---|---|
| `Where`, `WhereGroup`, `WhereHas`, `WhereHasCount`, `WithCount`, `Modify` | the methods of the same names, with their Or and Not forms; a predicate is the set of ids it is true of |
| `BadCall` | any builder method that fails: the first error is kept |
| `NewQuery` | a fresh builder for another request |
| `Call` | a terminal up to `applyScopes`: it returns `b.err` or starts on the scopes |
| `ScopeApplies`, `ScopeRejects`, `ScopeFails` | one scope's Apply: it adds its predicates, returns an error, or makes a builder call that fails |
| `Get`, `First`, `Count`, `Update`, `Delete`, `ForceDelete`, `Restore`, `StatementFails` | the statement of the terminal, each with its soft-delete mode |
| `CountPages` | `Paginate` after its Count: it sets limit and offset and goes on to Get |
| `OthersWrite` | another client, also between a scope and the statement and between the two statements of Paginate |

`said` is what the application described, kept apart from the builder: the
alternatives of its ORs, with relation filters read as "has a live related row
that matches". `Wanted` is defined from `said`, the scopes and the terminal
alone, and `AnswerAsAsked` compares it with what the statement touched. `lapsed`
records that a scope of this builder did not add all it should (it rejected the
query and the builder was used again, or a call of it failed): from there on the
properties claim nothing.

| run | checks | shows |
|---|---|---|
| `queries` | `TypeOK`, `CountsAreOfLiveRelated`, `AnswerAsAsked`, `NoRowEscapes` | two tenants, a tenant scope and a scope over both, three kinds of relation, terminals one after the other on one builder: each statement is about exactly the rows that were asked for |
| `queries_or_closure` (violation) | `AnswerAsAsked` | a `WhereHas` closure that says OR: its last alternative escapes the correlation with the parent |

Bounds: three ids, two of one tenant and one of the other, so that a row of each
side is both inside and outside each predicate; three related rows of which one
is trashed; a pivot and a through table where one parent has two rows and where
one junction row has two far rows; `MaxCalls` = 3, which is two predicates (the
least for an OR to bind wrongly) and a terminal, or one and two terminals; page
size 1 and pages 1 and 2, the second of which needs an offset.

The passing run assumes that closures and scopes say AND (the violation run
and section 5 show why), that no pair is attached twice to a pivot (the README of the code
says its counts count pivot rows), and that `WithoutGlobalScopes` comes before
the first terminal, since `applyScopes` runs once. `OnlyTrashed` is taken as
`Delete`, `ForceDelete` and `Restore` take it: they ignore it.

### EagerLoad

One `Get` with its eager loads, and `LoadCount` on what it returned. `dest` is
`tree`: a node is the path that leads to it, each entry the relation followed
and the row as it was when it was read. `withs` and `path` are what `loadRelations`
and `loadPath` have left, `parents` the nodes the next relation is loaded on,
`pairs` the rows of the join table between the two queries of a pivot relation,
`types` the morph types `loadMorphTo` is through with. `touched` and `seen` are
history: what other clients wrote, and every row stored at some time meanwhile.
`Versions` is the finite set of states rows may be in. `Right` says of one node that a
relation holds below it what is linked to it, and nothing else but what others wrote;
`LoadedAsLinked` asks it of every segment of every path.

| action | code |
|---|---|
| `Get` | the statement of `Get` and the entry of `loadRelations` |
| `LoadRelation` | hasMany, hasOne, belongsTo, morphMany, morphOne: one `queryRelated`, the children grouped by key and assigned (`Assigned`), then `Descend` |
| `LoadPivot`, `LoadThroughPivot` | the two queries of belongsToMany, the morph pivots and has*Through; of through rows with one key only the last one's parent is kept (`Mapped`), in the order the database answers in |
| `LoadMorphOwners`, `MorphToEnds` | morphTo: one query per type in the order of a Go map, which is any; it cannot be followed by another segment |
| `StatementFails` | any of these statements; `dest` keeps what it has |
| `LoadCount` | `loadAggregate` with COUNT |
| `OthersWrite` | another client, between any two statements |

A relation is a record of its kind and columns; the type predicate of a morph
relation is the set `typed` of the rows it is true of. `comparable` says whether the
two key fields have one Go type: the groups are maps keyed by interfaces.

| run | checks | shows |
|---|---|---|
| `eager` | `TypeOK`, `LoadedAsLinked`, `NothingInvented`, `CountsAgree` | seven queries over eleven relations of ten kinds: what stayed put and is linked is there, below the model it belongs to; nothing else is; a deferred count agrees |
| `eager_two_paths` (violation) | `LoadedAsLinked` | two paths that begin with the same relation: the second replaces what the first loaded |

Bounds: two parents of one kind, so that rows could go to the wrong one; each of
one to three related rows, some trashed, some of another morph type with the
same key, one tag shared by two posts; through rows whose key is their id; two databases; two writes of other clients
out of eight (trash, relink, retype, delete), enough to move one end of a pivot
and one related row. Paths have one or two segments; deeper ones repeat
`Descend`. Rows other clients wrote during the call may be there or not; the
property speaks of the others.

### ConnPool

A goroutine's call is a list of statements. `pc` is where its current one is: the
application, about to be sent (`ctxRunner` asks the resolver, or the session of a
Tx has its connection), waiting for a connection, at the driver, telling the
listeners, reading its rows. `answer` is what the resolver said, `conn` the
connection it got, `open` the connections with open rows, `owner` which
goroutine has a connection out of its pool. `tx` and `alive` are the running
`DB.Tx` and whether its transaction is neither committed nor rolled back. `last`
and `fates` are history: how the closure ended and what Tx returned, and what
became of each statement the closure ran: held by its transaction, kept or undone.
A statement the database keeps at once, because it ran elsewhere, or one lost when the
context expires between two others, shows there. A DB of `Open` or `Use` is one whose resolver always gives the same answer.

| action | code |
|---|---|
| `Call` | a terminal: `exec`, `queryRow` (Count) or `query` with the relation queries that follow it (Get) |
| `BeginTx`, `Begun`, `Commit`, `Rollback` | `DB.Tx` (`db.go:274-302`) |
| `Resolve`, `ResolveFails` | `ctxRunner`, and `DB.Tx` before it begins |
| `Acquire`, `GiveUp` | `database/sql`: a free connection, or the context expires first |
| `SendOnTx` | the runner of a Tx, whose transaction may be over |
| `RunSucceeds`, `RunFails` | the driver; rows stay open, an exec does not |
| `Tell` | `listenRunner` and `emit` |
| `ReadRows` | `Get`: scan, close, then the relations |
| `DD` | the dumping runner in place of the session's |
| `Expire` | `database/sql` rolls a transaction back when its context expires |

| run | checks | shows |
|---|---|---|
| `pool` | `TypeOK`, `NoConnectionLeaked`, `NoStatementUnderOpenRows`, `RightConnection`, `ClosureAllOrNothing`, `CallsReturn` | see the properties' comments |

Bounds: two goroutines, enough to wait for each other; a pool of two connections
and one of one, as an in-memory SQLite database has; calls of one statement of
each kind and of two. Closures of one goroutine use the outer DB on the pool of
two (`Nests`). On a pool of one that call waits for the connection its own
closure holds, for ever unless its context expires; this is a rule of
`database/sql` that playsql can only state.

Fairness (`FairSpec`): weak for the steps of a call, since drivers answer and
goroutines run; strong for getting a connection, since `database/sql` keeps a
queue of those who wait; strong for the end of a closure, which may use the
connection a while but not for ever. That contexts expire or calls are made is
not assumed.

### MassWrite

One model with soft deletes, timestamps and a unique key, and the map writes as
single statements. What the code does with SQL text the module does with the statement as
data: `CompileWheres`, `CompileUpdate` and `InsertInto` put the running number
where the text has a placeholder, `WhereArgs`, `RowValues` and the operations
collect the arguments in the walks the code uses, and `Bind`, `AfterUpdate` and
`NewRows` are the database that puts argument n for placeholder n, and NULL where
there is no argument n, as a statement that is short of one would be refused. The walks
over a where list are recursive functions: `CompileWheres`, `WhereArgs`, `Bind` and
`Tested` (what the database makes of the list in a row) take the list in the head and
the tail. Their domain is `Lists`, where lists that nest at most `Nesting` deep, plus
the group that `effectiveWheres` puts around the caller's list. The actions
are the operations of `write_map.go` and the write terminals of `builder.go`;
`last` is the call with what it was given, and the properties say what was to
happen from that alone.

| run | checks | shows |
|---|---|---|
| `writes` | `TypeOK`, `WrittenAsAsked`, `GuardedKept`, `CreatedOnce`, `NothingMeansNothing` | every argument lands at its own placeholder, through CTE, SET, groups, EXISTS, counts and IN subqueries; columns that may not be filled keep their values; created_at is written once; DO NOTHING does nothing on the dialects that spell it |

Bounds: three rows of which one is trashed; six queries that put every kind of
clause before and after another with binds; maps with a guarded column, with a
timestamp, batches with unlike columns; `Nesting` = 2, a group or subquery in a group;
three statements, so that an upsert meets a row another wrote. Values are numbers of which no two that could be swapped are
equal. The soft-delete mode of Update is the default one; the other modes and the
scopes are `QueryScoping`'s.

## 4. Proofs

| theorem | says | argument |
|---|---|---|
| `PersistenceProofs!TypeCorrect` | `Spec => [](TypeOK /\ GuardsHold)` | `TypeOK` is not inductive: the statements index the rows by the struct's key, which must be set. `GuardsHold` adds that a call other than Insert has a key and that Restore has its column; no hook and no other client changes the key while the call runs. |
| `PersistenceProofs!OneRowEach` | `Spec => []AtMostOneRow`, if every generated key comes back (`KeysComeBack`) | from `OwnsItsKeyOnly`: all rows a struct inserted have the key it holds now, because `WriteKeyBack` sets the key and everything else that does either finds it unset or starts a new history |
| `PersistenceProofs!TxIsAllOrNothing` | `OnlySuccessfulTxPublishes`, if no closure leaves by Goexit | from `StatementsInScope`: a call is in progress only outside `DB.Tx` or inside an open closure, so a write that is not held back is not inside a transaction |
| `PersistenceProofs!ExistsIsTruthful`, `SavedIsStored`, `OnlyChangesAreWritten` | `ExistsTruthful`, `SavedMeansStored`, `OnlyChangedColumnsWritten`, if structs are used with care (`CarefulUse`) | all three from `StructsOnRecord`, which says of each stage of each call what the key, `exists`, the fields and the baseline have to do with the row the struct last read or wrote, and what of it a rollback drops. Between a statement and its After hooks the baseline is behind the row, which is what makes the properties alone not inductive |
| `QueryStatsProofs!TypeCorrect` | `Spec => []TypeOK` | `TypeOK` is inductive as it stands: it says of each place a statement can be at whether it has a scope there |
| `QueryStatsProofs!FireOnce` | `Spec => []HandlersFireOnce` | what was reported is in `fired` (`ReportsHaveFired`), and that alone is not inductive: a statement decides from a copy of `fired`, which is current while it holds the mutex (`HolderInRecord`, `CopyIsCurrent`), and runs the handlers after it let go, when they are in `fired` (`TodoHasFired`) and in no other statement's list (`TodoIsExclusive`) |
| `QueryStatsProofs!NothingLost`, `TippingReported`, `SnapshotsWhole` | `ScopeCoherent`, `TippingStatementReported`, `SnapshotsCoherent` | from `AccountInv`, beside the invariant of `FireOnce`: with the mutex free the accumulator is the last entry of the history; its holder is between two entries in a way its place tells; what a statement has still to report, and what was reported, names an entry that was the first of its DB to reach the threshold |
| `QueryStatsProofs!DueHandlersHaveFired` | `DueHandlersFire`, if one DB at most has handlers | the same invariant: a handler whose threshold was exceeded is in `fired`, hence reported or in the list of a statement that is not over. Where two DBs have handlers it is false (section 5), since `fired` is keyed by the index alone |
| `QueryStatsProofs!EveryStatementCounted` | `Spec => []LifetimeCalls`: the number of statements in `LifetimeTotals`, at every moment | `CallsCounted`: the statements past the counter are finitely many, each passes once, and only DBs of `Resetting` are ever between the two stores of a reset |
| `QueryStatsProofs!TotalsAreLifetime` | `Spec => []LifetimeTotals` | from `CallsCounted` and, for the other counter, `NanosCounted`: it is the sum of the times of the statements past it, one of which is added at a time (`OneMore`). `SumFunction` takes its elements in an order nothing is known of; that the sum does not depend on it (`AnyOrder`) goes by induction on the size of the set |
| `CursorProofs!SeekIsSuccessor` | a row satisfies the seek iff ORDER BY puts it after the cursor's row | `Alternatives` and `Conjunction` read an OR list and an AND list; `LevelTest` reads one level of the seek |
| `CursorProofs!TypeCorrect` | `Spec => []TypeOK` | inductive as it stands: an answer of the database is a sequence of stored rows |
| `CursorProofs!EveryRowOnce` | `WalkComplete`, if the sort column is not NULL and the where list joins by AND | from `WalkInv`: the cursor is that of the last row handed over, so that by `SeekIsSuccessor` a page query finds exactly the rows that remain; the rows handed over are in order, hence apart; and a steady row is ahead of the cursor or handed over |
| `CursorProofs!WalkIsScan` | `Spec => ScanInKeyOrder`, under the same conditions: `CursorPaging` implements `OrderedScan` | each step maps to a step or a stutter of the scan; a page is the scan's next rows because `WalkInv` makes the query's rows those after the last one |
| `QueryScopingProofs!TypeCorrect` | `Spec => []TypeOK` | inductive with `Builder` typed field by field; each statement touches ids of the table, which is what bounds the domain of `counts` |
| `QueryScopingProofs!ScopesConfine` | `Spec => NoRowEscapes`, if scopes say AND | from `ScopesKept`: once a builder is past scope i and has not lapsed, the predicates of scopes 1 to i are in `scopeWheres`, in the context of its request. They lead the effective list, which is then one run of ANDs (`LeadHolds`), so a row it matches satisfies each of them |
| `QueryScopingProofs!CountsTrue` | `CountsAreOfLiveRelated`, if closures say AND | the subquery of a count selects, through any of the three kinds of relation, the live related rows the closure admits |
| `QueryScopingProofs!AnswersAsAsked` | `Spec => AnswerAsAsked`, if scopes and closures say AND | from `AskedInv`, that is `ScopesKept`, that the scope list has nothing but the scopes' predicates, and `Tells`: the user's where list is true of exactly the rows that what was said describes, for any nesting of ORs. Scopes in front of it and the soft-delete filter behind each do what they say because the user's list goes in as one group |
| `EagerLoadProofs!TypeCorrect` | `[]TypeOK`, if constraints say AND | the nodes a relation is loaded on are in the tree and of one depth, so that what `Assigned` removes below them never removes one of them (`AssignedNodes`, `Hang`) |
| `EagerLoadProofs!OnlyLinkedIsLoaded` | `[]NothingInvented`, if constraints say AND | every node of the tree was linked to its parent by rows in `seen` when it was hung (`Related`, `MorphClauses`), and stays so because `seen` only grows (`LinkedMonotone`); between the two queries of a pivot the pairs read are those of rows in `seen` |
| `EagerLoadProofs!AllLinkedIsLoaded` | `[]LoadedAsLinked`, if constraints say AND and no two paths of a query begin with the same relation, and through keys do not repeat | from `LinkInv`: there is a query the walk has come along (`OnWay`) such that the segments behind it are right below all their nodes (`RightUpTo`), the nodes ahead of it are where the next relation goes, and the pairs of a pivot are those of the stored rows others have not touched. A query finds what is wanted (`DirectMeets`, `PivotMeets`, `MorphMeets`; where through keys do not repeat, `Mapped` keeps all it read, `MappedKeeps`), and loading a segment changes nothing behind it, which is where the paths have to be apart (`eager_two_paths` is the counterexample) |
| `EagerLoadProofs!CountsMatchLoads` | `[]CountsAgree`, under the same assumptions | with nobody writing, the loaded rows are by `Right` the linked ones, and so are those counted |
| `PivotProofs!TypeCorrect` | `Spec => []TypeOK` | inductive as it stands: an attach adds as many rows as the list names the id |
| `PivotProofs!ParentsApart` | `Spec => OtherParentsUntouched` | the rows a transaction holds back are its parent's own, since `pivotScope` selects by key and type |
| `PivotProofs!DoneIsAsPromised`, `FailsHalfwayAtMost` | `DoneAsPromised`, `FailedHalfway` | from `CallsOnCourse`: of every link still promised, what the rest of the call will make of the rows its client sees is what was promised, and the committed rows are those it read, those detached, or those promised, as the place of the call and the transaction allow |
| `ConnPoolProofs!TypeCorrect`, `NothingLeaks`, `RowsFirstClosed`, `OnItsConnection` | `TypeOK`, `NoConnectionLeaked`, `NoStatementUnderOpenRows`, `RightConnection` | all four from one invariant about one client at a time, `ClientInv`: what its call has and has not at each place (`TodoKind`, `Placed`), that it owns what it uses (`Holds`), and where its statement runs (`RunsOn`). A step of one client changes nothing the invariant of another reads, but for the connections it takes or gives back, and those the other does not own (`OthersKeep`) |
| `ConnPoolProofs!OneFate` | `Spec => []ClosureAllOrNothing` | from `ClientInv` and `FateInv`: while a Tx runs, all its closure's statements are held if its transaction lives and undone if not. A statement is held because `ClientInv` has it on the transaction's own connection while that lives (`RunSucceedsFates`); an expiry undoes what was held before and `SendOnTx` refuses what would come after (`ExpireFates`); then Commit can only fail (`EndTxFates`) |
| `MassWriteProofs!BindGivesBack` | what `Bind` makes of a compiled where list is the list, wherever in the arguments its own stand | by induction on lists (`ListInduction`): placeholders of a clause are numbered before those of the list in it, those before its count's and the rest's, and `whereArgs` collects in that order (`StandsSplit`) |
| `MassWriteProofs!TypeCorrect` | `Spec => []TypeOK` | `IInv` adds that the rows are finitely many, without which `NewId` has no greatest id to go on from |
| `MassWriteProofs!WritesAreAsAsked` | `WrittenAsAsked`, if MySQL is not asked to do nothing | `NextDoes` says of each operation, from `BindGivesBack` and from the columns of a batch (`BatchRowIs`), which rows it wrote and with what (`Done`); whatever it did is what the properties ask (`UpdatedDoes`, `InsertsAsAsked`, `UpsertsAsAsked`) |
| `MassWriteProofs!GuardedAreKept`, `CreatedAtOnce`, `NothingIsDone` | `GuardedKept`, `CreatedOnce`, `NothingMeansNothing`, under the assumptions below | the same `Done` |

They assume the named ASSUMEs of the modules: sentinels differ from values, sets
of clients are related as said, ids and sort values are integers, a parent is
a record of its key and type, related rows and row versions are finitely many, every row that a
map or batch of `MassWrite` inserts has a key of its own. TLC
evaluates each of them in the runs. Assumptions of single theorems are those in the
table. Each is about a use of the library that the code does not guard; section 5 says
what happens without it:

| assumption | is about |
|---|---|
| `CarefulUse` | no habit but Goexit and giving a new struct its key: no reuse after a rollback or a delete, no change in place, no load over an old struct, no update of one that was neither loaded nor saved |
| `KeysComeBack` | generated keys are of signed fields, and drivers give the id: else the next Save inserts again (`persistence_lost_key`) |
| no `"goexit"` in `Habits` | closures return or panic |
| `OneDBHasHandlers` | `fired` has an index and no DB |
| `ScopesOnlyAnd`, `ClosuresOnlyAnd`, `ConstraintsSayAnd` | an OR escapes what it is joined to |
| `PathsApart` | the second of two paths replaces what the first loaded |
| `ThroughKeysApart` | of the rows of an intermediate table with one key, only the last one's parent gets the far rows |
| `"mysql" \notin NothingOn` | an Upsert told to update nothing is asked of dialects that can; MySQL sets the first column |
| no map of changes and no update list names `created_at` (`CreatedAtOnce`) | a caller may set the column itself |
| update lists name fillable columns, timestamps or `deleted_at` (`GuardedAreKept`) | they are not filtered by fillable and guarded |
| `NULL \notin Sorts` | SQL compares nothing with NULL |
| `Conjunctive` | the seek of a single key is joined flat to the user's list. The user's OR in a group, which the run has too, is one clause of an AND list |

Induction is needed in two places, over the numbers: `LeastNumber` takes the least
counterexample from the well-foundedness of `<`, and `AllNumbers`, `AllLists`,
`WalkExists` and `SumsExists` go from there: where lists that end in a tail and in
the list of their head, walks defined on them, sums over finite sets. That a function
defined by recursion exists is proved in each case, not assumed.

Only model-checked: `StatementsReturn` and `CallsReturn`, which are liveness under
fairness. Every invariant and every action property of the runs that pass is stated by a
theorem.

## 5. What the code does differently from what it says

The three violation runs above are findings, with their lines, in
`PROJECT.json`. Others were met on the way and have no run of their own:

* Where the generated key does not come back (an unsigned field,
  `persistence.go:354`, or an error of `LastInsertId`, `persistence.go:75`) Insert
  returns nil and the key stays zero. `persistence_lost_key` shows the second row of a
  struct without `Model`; one with `Model` has `exists` set, and its next Save is an
  Update, which is refused for the zero key (`persistence.go:103`).
* MySQL has no DO NOTHING: told to update nothing, Upsert sets the first of the sorted
  insert columns to the value that was to be inserted (`grammar/grammar.go:495`), which
  with timestamps is `created_at`. The comments say it "self-assigns the first column (an
  idempotent no-op" (`grammar/grammar.go:483`) and "DO NOTHING on conflict"
  (`write_map.go:161`).
* has*Through keeps one parent for each through key (`relations.go:294`): where the key
  that is matched repeats in the intermediate table, the far row goes to the parent of
  the row read last, in whatever order that was, and the others lack it.
* A struct inserted in a closure that rolled back keeps `exists` (`db.go:289`):
  saving it again updates no row and reports success. Habit `reuseAfterRollback`.
* `fired` is keyed by a handler's index in its own DB (`querystats.go:99`): in a
  scope used with two DBs the first handler of one silences the first of the other.
* A composite cursor compares with NULL (`paginate.go:207`): after a page that ends
  in a row whose sort key is NULL the walk ends, though rows remain.
* The predicates of a scope are joined flat to the soft-delete filter
  (`builder.go:611`): of a scope that says OR, the filter binds to the last
  alternative only.
* The same of a constraint on a polymorphic relation, whose OR escapes the type
  predicate (`relations.go:147`), and of a deferred aggregate's closure, whose OR
  escapes key, type and soft-delete filter (`deferred.go:121`). Deferred
  aggregates and through tables have no scopes and no filter of their own.
* Key fields of unlike Go types (`int` and `int64`, pointers) are never equal as map
  keys: the relation is empty and no error says so (`relations.go:95`, `123`).
* A single relation field keeps its old value when nothing matches
  (`relations.go:552`), in a `dest` that is used again.
* While rows are scanned a panic of a cast leaves them open (`builder.go:972`).
* Update columns named for `Upsert` are not filtered by fillable and guarded
  (`write_map.go:180`); `InsertMany` and `Upsert` overwrite timestamps the rows give,
  `Insert` and `Update` keep them (`write_map.go:235`, `293`); a key a row of a batch
  lacks is NULL, and an upsert writes it over the stored value; MySQL ignores the
  conflict columns.
* CTEs are for `Update` and `UpdateReturning` (`builder.go:41`); the other terminals
  drop them and say nothing. The sub-builder of `WithCTEQuery` applies no scopes
  (`builder.go:703`).
* `Create` of a model whose key is not incrementing looks for id 0
  (`write_map.go:37`).

* After `Delete` or `ForceDelete` the struct keeps `exists` (`persistence.go:245`):
  saving it again updates no row. Habit `reuseAfterDelete`.
* `Delete` and `Restore` of a struct change `deleted_at` without refreshing the
  baseline (`persistence.go:240`, `289`), so its next Update writes the column
  again, over a delete or restore another client made in between.
* `OnlyTrashed().Delete()` and `OnlyTrashed().ForceDelete()` delete live rows:
  the terminals have a soft-delete mode of their own (`builder.go:1055`, `1085`).
* A builder call that fails inside a scope does not stop the running terminal,
  and a builder is not scoped again after a scope rejected it (`builder.go:524`).
* The baseline shares maps, slices and pointees with the struct
  (`persistence.go:378`): a change in place is never dirty. Habit `mutateInPlace`.
* A NULL leaves what the destination held (`scan.go:155`). Habit `reuseDest`.
* A closure that calls `runtime.Goexit` is committed (`db.go:298`): the deferred
  function sees neither a panic nor an error. Habit `goexit`.
* `ResetQueryStats` resets its two counters one after the other
  (`querystats.go:160`).
* A handler fires when the total equals its threshold (`querystats.go:99`), where the
  comment says longer (`querystats.go:118`). The model does as the code;
  `DueHandlersFire` demands a handler only of a total above the threshold.
* `Attach` and `Sync` of a parent that was never saved write key zero
  (`pivot.go:62`).
* The seek of a cursor after an ungrouped `OrWhere` (`paginate.go:199`).

## 6. Not modelled

SQL text, wrapping and literals; logging and dumps; DSN building and pool settings
(`config.go`); the typed façade and the collections, which delegate or are pure; the
tag parser, and the metadata cache, a `sync.Map` of what parsing computes from the
type alone; rebinding of raw SQL; the cast registry. Of loading: aggregates other
than COUNT, `withPivot` columns, limits and orders in a constraint. Of the builder:
dotted relation paths, subquery columns and orders. Of map writes: `Create`, and
the refusals of empty arguments.

Of connections: `RawRows`, whose rows the caller closes; a listener or handler that
queries while rows are open on a pool of one; a closure that leaves by Goexit (it
is in `Persistence`). Of the database only what the properties need is modelled:
atomic statements, a transaction's own writes, and waiting for rows written by an
open transaction. Its deadlocks and timeouts are among the failures a statement
may return. A reply that is lost after the statement took effect is modelled for
commits only (`ConnPool`): an Insert retried after one inserts a second row. A key that
is the application's own and left zero is taken as one the database refuses.
