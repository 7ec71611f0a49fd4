---------------------------- MODULE Persistence ----------------------------
(***************************************************************************)
(* Model persistence (persistence.go, model.go, hooks.go, scan.go) and the *)
(* transaction wrapper DB.Tx (db.go).                                      *)
(*                                                                         *)
(* Each client is a goroutine that owns one struct: its primary key, its   *)
(* column fields and, when the struct embeds playsql.Model, the exists     *)
(* flag and the dirty-tracking baseline.  A call of Insert, Update, Save,  *)
(* Delete or ForceDelete is a sequence of stages (hooks, the statement,    *)
(* hooks), and the stages of different clients interleave.  The database   *)
(* is external: it runs one statement at a time, gives a transaction its   *)
(* own uncommitted rows over the committed ones, and makes a writer wait   *)
(* for a row another transaction has written.                              *)
(***************************************************************************)
EXTENDS Naturals, Sequences, FiniteSets

CONSTANTS
    Clients,      \* goroutines, each with one struct
    TxClients,    \* those whose code calls DB.Tx
    DataCols,     \* the struct's columns besides the key and deleted_at
    DeletedAt,    \* the soft-delete column
    Vals,         \* non-NULL values a data column takes
    Times,        \* values time.Now() gives deleted_at
    NULL,         \* SQL NULL, and the zero value of a field
    MaxId,        \* bound: rows the auto-increment sequence may hand out
    NoRow,        \* no such row; also "no baseline"
    Clean,        \* the transaction has not written the row
    Tracked,      \* clients whose struct embeds playsql.Model
    Incrementing, \* whose key is the database's to give (metadata.Incrementing)
    Signed,       \* whose key field is a signed integer, all setPK can set
    IdLost,       \* whose driver may return an error from LastInsertId
    SoftDeletes,  \* the struct has a deleted_at column
    Habits        \* Habits[c]: what c's code does with its struct, see below

(***************************************************************************)
(* What a careful application does not do with its structs:                *)
(*   reuseAfterRollback  keep using a struct whose transaction rolled back *)
(*   reuseAfterDelete    keep using a struct after deleting its row        *)
(*   mutateInPlace       change a map, slice or pointee a field refers to  *)
(*   reuseDest           load a row into a struct that was used before     *)
(*   updateUnsaved       update a struct that was neither loaded nor saved *)
(*   assignKey           give a struct a key that is the database's to give*)
(*   goexit              leave the closure of DB.Tx by runtime.Goexit      *)
(***************************************************************************)
AllHabits == {"reuseAfterRollback", "reuseAfterDelete", "mutateInPlace",
              "reuseDest", "updateUnsaved", "assignKey", "goexit"}

ASSUME ConstantsAssumption ==
    /\ DeletedAt \notin DataCols
    /\ NULL \notin Vals \cup Times
    /\ TxClients \subseteq Clients
    /\ MaxId \in Nat \ {0}
    /\ Tracked \subseteq Clients
    /\ Signed \subseteq Incrementing /\ Incrementing \subseteq Clients
    /\ IdLost \subseteq Clients
    /\ SoftDeletes \in BOOLEAN
    /\ Habits \in [Clients -> SUBSET AllHabits]

Ids     == 1 .. MaxId
Columns == DataCols \cup (IF SoftDeletes THEN {DeletedAt} ELSE {})
Values  == Vals \cup Times \cup {NULL}
Row     == [Columns -> Values]

ASSUME SentinelAssumption == NoRow \notin Row /\ Clean \notin Row \cup {NoRow}

EmptyRow == [col \in Columns |-> NULL]

VARIABLES
    rows,      \* committed rows
    pending,   \* pending[c]: rows written by c's open transaction
    nextId,    \* the auto-increment sequence (never rolled back)
    pk,        \* pk[c]: the struct's key field, 0 when unset
    exists,    \* exists[c]: Model.exists
    cur,       \* cur[c]: the struct's column fields
    orig,      \* orig[c]: Model.original, the baseline (NoRow when nil)
    op,        \* op[c]: the persistence call in progress
    at,        \* at[c]: its next stage
    tx,        \* tx[c]: how far DB.Tx is
    known,     \* history: the row as this struct last read or wrote it
    base,      \* history: what known falls back to when the tx rolls back
    owned,     \* history: ids the struct's Insert calls created
    clean,     \* history: nothing was assigned since the last load or write
    dropped    \* history: the struct's tx rolled back, or its row was deleted

dbVars    == <<rows, pending, nextId>>
modelVars == <<pk, exists, cur, orig>>
ghostVars == <<known, base, owned, clean, dropped>>
vars      == <<dbVars, modelVars, op, at, tx, ghostVars>>

(***************************************************************************)
(* The stages of a call, in the order the code runs them.                  *)
(***************************************************************************)
Plan ==
    [insert      |-> <<"BeforeSave", "BeforeCreate", "InsertRow",
                       "AfterCreate", "AfterSave">>,
     update      |-> <<"BeforeSave", "BeforeUpdate", "UpdateRow",
                       "AfterUpdate", "AfterSave">>,
     delete      |-> <<"BeforeDelete", "DeleteRow", "AfterDelete">>,
     forceDelete |-> <<"BeforeDelete", "HardDeleteRow", "AfterDelete">>,
     restore     |-> <<"RestoreRow">>]

Ops   == {"insert", "update", "delete", "forceDelete", "restore"}
Hooks == {"BeforeSave", "BeforeCreate", "BeforeUpdate", "BeforeDelete",
          "AfterSave", "AfterCreate", "AfterUpdate", "AfterDelete"}

Idle(c)      == op[c] = "none"
Stage(c)     == IF Idle(c) THEN "none" ELSE Plan[op[c]][at[c]]
InTx(c)      == tx[c] = "open"
\* Application code runs between calls, outside DB.Tx or in its closure.
Running(c)   == Idle(c) /\ tx[c] \in {"none", "open"}

Start(c, o)  == op' = [op EXCEPT ![c] = o] /\ at' = [at EXCEPT ![c] = 1]
Return(c)    == op' = [op EXCEPT ![c] = "none"] /\ at' = [at EXCEPT ![c] = 0]
\* Mutant: the end of a call is missed by one.
AdvanceTooFar(c) == IF at[c] > Len(Plan[op[c]])
                    THEN Return(c)
                    ELSE at' = [at EXCEPT ![c] = @ + 1] /\ UNCHANGED op

Advance(c)   == IF at[c] = Len(Plan[op[c]])
                THEN Return(c)
                ELSE at' = [at EXCEPT ![c] = @ + 1] /\ UNCHANGED op

(***************************************************************************)
(* The database, as a statement of client c meets it.                      *)
(***************************************************************************)
View(c)       == [id \in Ids |-> IF pending[c][id] = Clean
                                 THEN rows[id] ELSE pending[c][id]]
Blocked(c, id) == \E d \in Clients \ {c} : pending[d][id] # Clean

\* Mutant: the session of a transaction kept the pool as its runner.
StoreOnPool(c, id, row) ==
    rows' = [rows EXCEPT ![id] = row] /\ UNCHANGED pending

Store(c, id, row) ==
    IF InTx(c)
    THEN /\ pending' = [pending EXCEPT ![c][id] = row]
         /\ UNCHANGED rows
    ELSE /\ rows' = [rows EXCEPT ![id] = row]
         /\ UNCHANGED pending

\* UPDATE ... SET row[cols] WHERE pk = id: no row, nothing happens.
UpdateWhere(c, id, cols, row) ==
    /\ ~Blocked(c, id)
    /\ IF View(c)[id] = NoRow
       THEN UNCHANGED <<rows, pending>>
       ELSE Store(c, id, [col \in Columns |->
                            IF col \in cols THEN row[col] ELSE View(c)[id][col]])

\* DELETE ... WHERE pk = id.
DeleteWhere(c, id) ==
    /\ ~Blocked(c, id)
    /\ IF View(c)[id] = NoRow
       THEN UNCHANGED <<rows, pending>>
       ELSE Store(c, id, NoRow)

(***************************************************************************)
(* The history variables: what the struct's own reads and writes say of    *)
(* its row.                                                                *)
(***************************************************************************)
Learn(c, row) ==
    /\ known' = [known EXCEPT ![c] = row]
    /\ base'  = IF InTx(c) THEN base ELSE [base EXCEPT ![c] = row]

LearnCols(c, cols, row) ==
    Learn(c, IF known[c] = NoRow THEN NoRow
             ELSE [col \in Columns |->
                     IF col \in cols THEN row[col] ELSE known[c][col]])

Forget(c, row, committed) ==
    /\ known'   = [known EXCEPT ![c] = row]
    /\ base'    = [base EXCEPT ![c] = committed]
    /\ owned'   = [owned EXCEPT ![c] = {}]
    /\ dropped' = [dropped EXCEPT ![c] = "no"]

Usable(c) ==
    /\ dropped[c] = "rolledBack" => "reuseAfterRollback" \in Habits[c]
    /\ dropped[c] = "deleted"    => "reuseAfterDelete" \in Habits[c]

(***************************************************************************)
(* The struct.                                                             *)
(***************************************************************************)
\* markPersisted: exists is set and the current fields become the baseline.
MarkPersisted(c, row) ==
    IF c \in Tracked
    THEN /\ exists' = [exists EXCEPT ![c] = TRUE]
         /\ orig'   = [orig EXCEPT ![c] = row]
    ELSE UNCHANGED <<exists, orig>>

\* Mutant: the baseline has no entry for a column that was NULL.
DirtySkipsNull(c) == IF orig[c] = NoRow
                     THEN Columns
                     ELSE {col \in Columns : /\ orig[c][col] # NULL
                                             /\ cur[c][col] # orig[c][col]}
\* Mutant: the baseline is not consulted.
DirtyEverything(c) == Columns

\* The columns Update writes: all of them without a baseline.
Dirty(c) == IF orig[c] = NoRow
            THEN Columns
            ELSE {col \in Columns : cur[c][col] # orig[c][col]}

\* A fresh struct: T{}.
NewStruct(c) ==
    /\ Running(c)
    /\ pk'     = [pk EXCEPT ![c] = 0]
    /\ exists' = [exists EXCEPT ![c] = FALSE]
    /\ cur'    = [cur EXCEPT ![c] = EmptyRow]
    /\ orig'   = [orig EXCEPT ![c] = NoRow]
    /\ clean'  = [clean EXCEPT ![c] = FALSE]
    /\ Forget(c, NoRow, NoRow)
    /\ UNCHANGED <<dbVars, op, at, tx>>

\* The application gives a new struct its key.
AssignKey(c, id) ==
    /\ Running(c)
    /\ Usable(c)
    /\ c \in Incrementing => "assignKey" \in Habits[c]
    /\ pk[c] = 0 /\ known[c] = NoRow
    /\ pk'    = [pk EXCEPT ![c] = id]
    /\ clean' = [clean EXCEPT ![c] = FALSE]
    /\ UNCHANGED <<dbVars, exists, cur, orig, op, at, tx, known, base, owned,
                   dropped>>

\* Assigning a field between calls.
Assign(c, col, v) ==
    /\ Running(c)
    /\ Usable(c)
    /\ cur'   = [cur EXCEPT ![c][col] = v]
    /\ clean' = [clean EXCEPT ![c] = FALSE]
    /\ UNCHANGED <<dbVars, pk, exists, orig, op, at, tx, known, base, owned,
                   dropped>>

\* Changing the object a field refers to.  snapshot stores the field's value,
\* so right after a load or a write the baseline refers to the same object.
MutateInPlace(c, col, v) ==
    /\ "mutateInPlace" \in Habits[c]
    /\ Running(c)
    /\ Usable(c)
    /\ orig[c] # NoRow
    /\ cur[c][col] = orig[c][col]
    /\ cur[c][col] # NULL
    /\ cur'   = [cur EXCEPT ![c][col] = v]
    /\ orig'  = [orig EXCEPT ![c][col] = v]
    /\ clean' = [clean EXCEPT ![c] = FALSE]
    /\ UNCHANGED <<dbVars, pk, exists, op, at, tx, known, base, owned, dropped>>

(***************************************************************************)
(* First and Find: scanOne copies the non-NULL columns onto dest, then     *)
(* marks it persisted.  dest is a fresh struct, or the client's old one.   *)
(***************************************************************************)
Scanned(dest, row) ==
    [col \in Columns |-> IF row[col] = NULL THEN dest[col] ELSE row[col]]

LoadInto(c, id, dest) ==
    LET row == View(c)[id]
        new == Scanned(dest, row)
    IN  /\ Running(c)
        /\ row # NoRow
        /\ pk'  = [pk EXCEPT ![c] = id]
        /\ cur' = [cur EXCEPT ![c] = new]
        /\ MarkPersisted(c, new)
        /\ Forget(c, row, rows[id])
        /\ clean' = [clean EXCEPT ![c] = TRUE]
        /\ UNCHANGED <<dbVars, op, at, tx>>

Load(c, id) == LoadInto(c, id, EmptyRow)
Reload(c, id) == "reuseDest" \in Habits[c] /\ LoadInto(c, id, cur[c])

(***************************************************************************)
(* Starting a call.  Update, Delete and ForceDelete refuse a zero key.     *)
(***************************************************************************)
Call(c, o) ==
    /\ Running(c)
    /\ Usable(c)
    /\ o # "insert" => pk[c] # 0
    /\ o = "update" /\ known[c] = NoRow => "updateUnsaved" \in Habits[c]
    /\ o = "restore" => SoftDeletes
    /\ Start(c, o)
    /\ UNCHANGED <<dbVars, modelVars, tx, ghostVars>>

\* The dispatch of Save: by the exists flag, or, without a base, by whether an
\* incrementing key is zero.
SaveOp(c) == IF c \in Tracked
             THEN IF exists[c] THEN "update" ELSE "insert"
             ELSE IF c \in Incrementing /\ pk[c] = 0 THEN "insert" ELSE "update"

Save(c)        == Call(c, SaveOp(c))
Insert(c)      == Call(c, "insert")
Update(c)      == Call(c, "update")
Delete(c)      == Call(c, "delete")
ForceDelete(c) == Call(c, "forceDelete")
Restore(c)     == Call(c, "restore")

(***************************************************************************)
(* Hooks run between the stages; they may assign fields of the struct, and *)
(* an error ends the call there.                                           *)
(***************************************************************************)
HookSucceeds(c) ==
    /\ Stage(c) \in Hooks
    /\ Advance(c)
    /\ UNCHANGED <<dbVars, modelVars, tx, ghostVars>>

HookAssigns(c, col, v) ==
    /\ Stage(c) \in Hooks
    /\ cur'   = [cur EXCEPT ![c][col] = v]
    /\ clean' = [clean EXCEPT ![c] = FALSE]
    /\ Advance(c)
    /\ UNCHANGED <<dbVars, pk, exists, orig, tx, known, base, owned, dropped>>

HookFails(c) ==
    /\ Stage(c) \in Hooks
    /\ Return(c)
    /\ UNCHANGED <<dbVars, modelVars, tx, ghostVars>>

(***************************************************************************)
(* The statements.                                                         *)
(***************************************************************************)
\* setPK sets signed integer fields and leaves any other as it is.
SetPK(c, id) == pk' = IF c \in Signed THEN [pk EXCEPT ![c] = id] ELSE pk

\* Mutant: the generated key is not written back.
KeyNotWrittenBack(c, id) == UNCHANGED pk

\* The id of the new row goes back onto the struct, unless the driver has none
\* to give: Insert then succeeds without it.
WriteKeyBack(c, id) == SetPK(c, id) \/ (c \in IdLost /\ UNCHANGED pk)

\* INSERT: an unset incrementing key is left to the database.  The database
\* refuses the zero value as a key of the application's own.
InsertRow(c) ==
    LET generated == c \in Incrementing /\ pk[c] = 0
        id        == IF generated THEN nextId ELSE pk[c]
    IN  /\ Stage(c) = "InsertRow"
        /\ id \in Ids
        /\ ~Blocked(c, id)
        /\ View(c)[id] = NoRow
        /\ Store(c, id, cur[c])
        /\ nextId' = IF generated THEN nextId + 1 ELSE nextId
        /\ WriteKeyBack(c, id)
        /\ MarkPersisted(c, cur[c])
        /\ Advance(c)
        /\ Learn(c, cur[c])
        /\ owned' = [owned EXCEPT ![c] = @ \cup {id}]
        /\ clean' = [clean EXCEPT ![c] = TRUE]
        /\ UNCHANGED <<cur, tx, dropped>>

\* UPDATE of the dirty columns; the number of rows it matched is not read.
UpdateRow(c) ==
    /\ Stage(c) = "UpdateRow"
    /\ Dirty(c) # {} \/ orig[c] = NoRow
    /\ UpdateWhere(c, pk[c], Dirty(c), cur[c])
    /\ MarkPersisted(c, cur[c])
    /\ Advance(c)
    /\ LearnCols(c, Dirty(c), cur[c])
    /\ clean' = [clean EXCEPT ![c] = TRUE]
    /\ UNCHANGED <<nextId, pk, cur, tx, owned, dropped>>

\* Nothing changed: no statement, but the after hooks still run.
UpdateNothing(c) ==
    /\ Stage(c) = "UpdateRow"
    /\ Dirty(c) = {} /\ orig[c] # NoRow
    /\ Advance(c)
    /\ clean' = [clean EXCEPT ![c] = TRUE]
    /\ UNCHANGED <<dbVars, modelVars, tx, known, base, owned, dropped>>

\* Delete of a soft-deletable struct stamps deleted_at, in the row and on
\* the struct; the baseline stays as it was.
SoftDeleteRow(c, t) ==
    /\ Stage(c) = "DeleteRow" /\ SoftDeletes
    /\ UpdateWhere(c, pk[c], {DeletedAt}, [EmptyRow EXCEPT ![DeletedAt] = t])
    /\ cur' = [cur EXCEPT ![c][DeletedAt] = t]
    /\ Advance(c)
    /\ LearnCols(c, {DeletedAt}, [EmptyRow EXCEPT ![DeletedAt] = t])
    /\ dropped' = [dropped EXCEPT ![c] = "deleted"]
    /\ UNCHANGED <<nextId, pk, exists, orig, tx, owned, clean>>

HardDeleteRow(c) ==
    /\ \/ Stage(c) = "HardDeleteRow"
       \/ Stage(c) = "DeleteRow" /\ ~SoftDeletes
    /\ DeleteWhere(c, pk[c])
    /\ Advance(c)
    /\ Learn(c, NoRow)
    /\ dropped' = [dropped EXCEPT ![c] = "deleted"]
    /\ UNCHANGED <<nextId, modelVars, tx, owned, clean>>

RestoreRow(c) ==
    /\ Stage(c) = "RestoreRow"
    /\ UpdateWhere(c, pk[c], {DeletedAt}, EmptyRow)
    /\ cur' = [cur EXCEPT ![c][DeletedAt] = NULL]
    /\ Advance(c)
    /\ LearnCols(c, {DeletedAt}, EmptyRow)
    /\ UNCHANGED <<nextId, pk, exists, orig, tx, owned, clean, dropped>>

\* Mutant: the struct is marked persisted before the error is looked at.
StatementFailsMarked(c) ==
    /\ ~Idle(c) /\ Stage(c) \notin Hooks
    /\ MarkPersisted(c, cur[c])
    /\ Return(c)
    /\ UNCHANGED <<dbVars, pk, cur, tx, ghostVars>>

\* The statement (or the cast before it) fails and the call returns its error;
\* the only way out of a duplicate key, a deadlock or a lock timeout.
StatementFails(c) ==
    /\ ~Idle(c) /\ Stage(c) \notin Hooks
    /\ Return(c)
    /\ UNCHANGED <<dbVars, modelVars, tx, ghostVars>>

(***************************************************************************)
(* DB.Tx: begin, run the closure, then the deferred function decides.      *)
(***************************************************************************)
Begin(c) ==
    /\ c \in TxClients
    /\ Idle(c) /\ tx[c] = "none"
    /\ tx' = [tx EXCEPT ![c] = "open"]
    /\ UNCHANGED <<dbVars, modelVars, op, at, ghostVars>>

\* The closure returns between calls; a panic or Goexit may cut a call short.
FnEnds(c, how) ==
    /\ InTx(c)
    /\ how \in {"returnedNil", "returnedErr"} => Idle(c)
    /\ how = "goexited" => "goexit" \in Habits[c]
    /\ tx' = [tx EXCEPT ![c] = how]
    /\ Return(c)
    /\ UNCHANGED <<dbVars, modelVars, ghostVars>>

Merge(c) == [id \in Ids |-> IF pending[c][id] = Clean
                            THEN rows[id] ELSE pending[c][id]]
Discard(c) == pending' = [pending EXCEPT ![c] = [id \in Ids |-> Clean]]

\* recover() is nil and err is nil: Commit.  That is the closure's nil return,
\* and also a Goexit, which runs the deferred function with both still nil.
Commit(c) ==
    /\ tx[c] \in {"returnedNil", "goexited"}
    /\ rows' = Merge(c)
    /\ Discard(c)
    /\ tx'   = [tx EXCEPT ![c] = "none"]
    /\ base' = [base EXCEPT ![c] = known[c]]
    /\ UNCHANGED <<nextId, modelVars, op, at, known, owned, clean, dropped>>

\* Rollback after an error or a panic, or a Commit that the driver refuses.
\* The structs keep what the closure did to them.
Rollback(c) ==
    /\ tx[c] \in {"returnedNil", "returnedErr", "panicked", "goexited"}
    /\ Discard(c)
    /\ tx'      = [tx EXCEPT ![c] = "none"]
    /\ known'   = [known EXCEPT ![c] = base[c]]
    /\ clean'   = [clean EXCEPT ![c] = FALSE]
    /\ dropped' = [dropped EXCEPT ![c] = "rolledBack"]
    /\ UNCHANGED <<rows, nextId, modelVars, op, at, base, owned>>

-----------------------------------------------------------------------------
Init ==
    /\ rows    = [id \in Ids |-> NoRow]
    /\ pending = [c \in Clients |-> [id \in Ids |-> Clean]]
    /\ nextId  = 1
    /\ pk      = [c \in Clients |-> 0]
    /\ exists  = [c \in Clients |-> FALSE]
    /\ cur     = [c \in Clients |-> EmptyRow]
    /\ orig    = [c \in Clients |-> NoRow]
    /\ op      = [c \in Clients |-> "none"]
    /\ at      = [c \in Clients |-> 0]
    /\ tx      = [c \in Clients |-> "none"]
    /\ known   = [c \in Clients |-> NoRow]
    /\ base    = [c \in Clients |-> NoRow]
    /\ owned   = [c \in Clients |-> {}]
    /\ clean   = [c \in Clients |-> FALSE]
    /\ dropped = [c \in Clients |-> "no"]

StructStep(c) ==
    \/ NewStruct(c)
    \/ \E id \in Ids : AssignKey(c, id)
    \/ \E col \in DataCols, v \in Vals : Assign(c, col, v)
    \/ \E col \in DataCols, v \in Vals : MutateInPlace(c, col, v)
    \/ \E id \in Ids : Load(c, id)
    \/ \E id \in Ids : Reload(c, id)

CallStep(c) ==
    \/ Save(c) \/ Insert(c) \/ Update(c)
    \/ Delete(c) \/ ForceDelete(c) \/ Restore(c)
    \/ HookSucceeds(c)
    \/ \E col \in DataCols, v \in Vals : HookAssigns(c, col, v)
    \/ HookFails(c)
    \/ InsertRow(c) \/ UpdateRow(c) \/ UpdateNothing(c)
    \/ \E t \in Times : SoftDeleteRow(c, t)
    \/ HardDeleteRow(c) \/ RestoreRow(c)
    \/ StatementFails(c)

TxStep(c) ==
    \/ Begin(c)
    \/ \E how \in {"returnedNil", "returnedErr", "panicked", "goexited"} :
           FnEnds(c, how)
    \/ Commit(c) \/ Rollback(c)

Next == \E c \in Clients : StructStep(c) \/ CallStep(c) \/ TxStep(c)

Spec == Init /\ [][Next]_vars
-----------------------------------------------------------------------------
\* The shape of the state.
TypeOK ==
    /\ rows    \in [Ids -> Row \cup {NoRow}]
    /\ pending \in [Clients -> [Ids -> Row \cup {NoRow, Clean}]]
    /\ nextId  \in 1 .. MaxId + 1
    /\ pk      \in [Clients -> 0 .. MaxId]
    /\ exists  \in [Clients -> BOOLEAN]
    /\ cur     \in [Clients -> Row]
    /\ orig    \in [Clients -> Row \cup {NoRow}]
    /\ op      \in [Clients -> Ops \cup {"none"}]
    /\ at      \in [Clients -> 0 .. 5]
    /\ \A c \in Clients : IF Idle(c) THEN at[c] = 0
                                     ELSE at[c] \in 1 .. Len(Plan[op[c]])
    /\ tx      \in [Clients -> {"none", "open", "returnedNil", "returnedErr",
                                "panicked", "goexited"}]
    /\ known   \in [Clients -> Row \cup {NoRow}]
    /\ base    \in [Clients -> Row \cup {NoRow}]
    /\ owned   \in [Clients -> SUBSET Ids]
    /\ clean   \in [Clients -> BOOLEAN]
    /\ dropped \in [Clients -> {"no", "rolledBack", "deleted"}]

\* The exists flag of a struct in use says whether its row exists, as far as
\* the struct's own operations and the fate of their transaction tell
\* (model.go: "whether the row exists yet (insert vs update)").
ExistsTruthful ==
    \A c \in Tracked : Usable(c) => (exists[c] <=> known[c] # NoRow)

\* When a load or a Save has returned and no field was assigned since, the
\* struct equals its row as those operations left it: no assignment, by the
\* application or by a Before hook, is forgotten by the dirty check.
SavedMeansStored == \A c \in Clients : clean[c] /\ Usable(c) => cur[c] = known[c]

\* However often one struct is saved, through hook errors, failed statements and
\* rollbacks, its Insert calls leave it one row at most: they write the generated
\* key back, and Save inserts only a struct that has no identity yet.
AtMostOneRow == \A c \in Clients : Cardinality(owned[c]) <= 1

\* c's statement changes column col of row id though the struct's field is what
\* the struct last read or wrote there.
Overwrites(c, id, col) ==
    /\ Stage(c) = "UpdateRow" /\ (op[c] # op'[c] \/ at[c] # at'[c])
    /\ known[c] # NoRow /\ View(c)[id] # NoRow /\ View(c)'[id] # NoRow
    /\ View(c)[id][col] # View(c)'[id][col]
    /\ cur[c][col] = known[c][col]

\* Update of a tracked struct writes only what the application changed: a column
\* another client changed since the load survives
\* (persistence.go: "only changed columns are written").
OnlyChangedColumnsWritten ==
    [][\A c \in Tracked, id \in Ids, col \in DataCols :
         ~Overwrites(c, id, col)]_vars

\* What may change the committed rows.
Published ==
    \A id \in Ids : rows'[id] # rows[id] =>
       \E c \in Clients :
          \/ tx[c] = "none" /\ ~Idle(c)
          \/ tx[c] = "returnedNil" /\ tx'[c] = "none" /\ rows' = Merge(c)

\* Committed rows change by a statement outside DB.Tx, or, all at once, when
\* a closure of DB.Tx that returned nil is committed: never by a statement
\* inside one, and never after an error, a panic or a Goexit.
OnlySuccessfulTxPublishes == [][Published]_vars
=============================================================================
