------------------------- MODULE PersistenceProofs -------------------------
(***************************************************************************)
(* Persistence, proved for every set of clients, columns and values, every *)
(* bound on ids and every habit: the shape of the state, that a struct     *)
(* never gets two rows, and what a transaction publishes.  For structs     *)
(* used with care: exists, the baseline and the UPDATEs follow the row.    *)
(***************************************************************************)
EXTENDS Persistence, FiniteSetTheorems, TLAPS

-----------------------------------------------------------------------------
(***************************************************************************)
(* The shape of the state.                                                 *)
(***************************************************************************)
LEMMA Plans ==
    ASSUME NEW o \in Ops
    PROVE  Len(Plan[o]) \in 1 .. 5
BY DEF Plan, Ops

LEMMA NoValues == EmptyRow \in Row
BY DEF EmptyRow, Row, Values

LEMMA OfferedRows ==
    ASSUME TypeOK, NEW c \in Clients
    PROVE  View(c) \in [Ids -> Row \cup {NoRow}]
BY SentinelAssumption DEF TypeOK, View

\* The stage of a call moves on within its plan, or the call is over.
LEMMA Moves ==
    ASSUME TypeOK, NEW c \in Clients,
           (Advance(c) /\ ~Idle(c)) \/ Return(c)
    PROVE  /\ op' \in [Clients -> Ops \cup {"none"}]
           /\ at' \in [Clients -> 0 .. 5]
           /\ \A d \in Clients : IF Idle(d)' THEN at'[d] = 0
                                 ELSE at'[d] \in 1 .. Len(Plan[op'[d]])
<1>1. CASE Return(c)
  BY <1>1 DEF TypeOK, Return, Idle
<1>2. CASE Advance(c) /\ ~Idle(c) /\ at[c] = Len(Plan[op[c]])
  BY <1>1, <1>2 DEF Advance
<1>3. CASE Advance(c) /\ ~Idle(c) /\ at[c] # Len(Plan[op[c]])
  <2>1. op[c] \in Ops /\ at[c] \in 1 .. Len(Plan[op[c]])
    BY <1>3 DEF TypeOK, Idle
  <2>2. PICK n \in 1 .. 5 : n = Len(Plan[op[c]])
    BY <2>1, Plans
  <2>3. at' = [at EXCEPT ![c] = @ + 1] /\ op' = op
    BY <1>3 DEF Advance
  <2>4. at[c] \in 1 .. n /\ at[c] # n
    BY <1>3, <2>1, <2>2
  <2>5. at[c] + 1 \in 0 .. 5 /\ at[c] + 1 \in 1 .. n
    BY <2>4
  <2>6. \A d \in Clients : at'[d] = IF d = c THEN at[c] + 1 ELSE at[d]
    BY <2>3 DEF TypeOK
  <2>7. at' \in [Clients -> 0 .. 5]
    BY <2>3, <2>5 DEF TypeOK
  <2>8. \A d \in Clients : Idle(d)' <=> Idle(d)
    BY <2>3 DEF Idle
  <2>9. \A d \in Clients : IF Idle(d)' THEN at'[d] = 0
                           ELSE at'[d] \in 1 .. Len(Plan[op'[d]])
    BY <1>3, <2>2, <2>3, <2>5, <2>6, <2>8 DEF TypeOK
  <2> QED  BY <2>3, <2>7, <2>9 DEF TypeOK
<1> QED  BY <1>1, <1>2, <1>3

DBType ==
    /\ rows    \in [Ids -> Row \cup {NoRow}]
    /\ pending \in [Clients -> [Ids -> Row \cup {NoRow, Clean}]]

LEMMA Stores ==
    ASSUME TypeOK, NEW c \in Clients, NEW id \in Ids,
           NEW row \in Row \cup {NoRow}, Store(c, id, row)
    PROVE  DBType'
<1>1. CASE InTx(c)
  <2>1. pending' = [pending EXCEPT ![c] = [pending[c] EXCEPT ![id] = row]]
        /\ rows' = rows
    BY <1>1 DEF Store
  <2>2. pending[c] \in [Ids -> Row \cup {NoRow, Clean}]
    BY DEF TypeOK
  <2>3. [pending[c] EXCEPT ![id] = row] \in [Ids -> Row \cup {NoRow, Clean}]
    BY <2>2
  <2> QED  BY <2>1, <2>3 DEF TypeOK, DBType
<1>2. CASE ~InTx(c)
  BY <1>2 DEF Store, TypeOK, DBType
<1> QED  BY <1>1, <1>2

LEMMA Updates ==
    ASSUME TypeOK, NEW c \in Clients, NEW id, NEW cols, NEW row \in Row,
           UpdateWhere(c, id, cols, row), id \in Ids
    PROVE  DBType'
<1> DEFINE new == [col \in Columns |->
                     IF col \in cols THEN row[col] ELSE View(c)[id][col]]
<1>1. CASE View(c)[id] = NoRow
  BY <1>1 DEF UpdateWhere, TypeOK, DBType
<1>2. CASE View(c)[id] # NoRow
  <2>1. View(c)[id] \in Row
    BY <1>2, OfferedRows
  <2>2. new \in Row
    BY <2>1 DEF Row
  <2>3. Store(c, id, new)
    BY <1>2 DEF UpdateWhere
  <2> QED  BY <2>2, <2>3, Stores
<1> QED  BY <1>1, <1>2

LEMMA Learns ==
    ASSUME TypeOK, NEW c \in Clients, NEW row \in Row \cup {NoRow},
           Learn(c, row)
    PROVE  /\ known' \in [Clients -> Row \cup {NoRow}]
           /\ base'  \in [Clients -> Row \cup {NoRow}]
BY DEF TypeOK, Learn

LEMMA LearnsColumns ==
    ASSUME TypeOK, NEW c \in Clients, NEW cols, NEW row \in Row,
           LearnCols(c, cols, row)
    PROVE  /\ known' \in [Clients -> Row \cup {NoRow}]
           /\ base'  \in [Clients -> Row \cup {NoRow}]
<1> DEFINE new == IF known[c] = NoRow THEN NoRow
                  ELSE [col \in Columns |->
                          IF col \in cols THEN row[col] ELSE known[c][col]]
<1>1. new \in Row \cup {NoRow}
  BY DEF TypeOK, Row
<1>2. Learn(c, new)
  BY DEF LearnCols
<1> QED  BY <1>1, <1>2, Learns

LEMMA Marks ==
    ASSUME TypeOK, NEW c \in Clients, NEW row \in Row, MarkPersisted(c, row)
    PROVE  /\ exists' \in [Clients -> BOOLEAN]
           /\ orig' \in [Clients -> Row \cup {NoRow}]
BY DEF TypeOK, MarkPersisted

LEMMA TypeInit == Init => TypeOK
<1> SUFFICES ASSUME Init PROVE TypeOK
  OBVIOUS
<1>1. 1 \in 1 .. MaxId + 1 /\ 0 \in 0 .. MaxId /\ 0 \in 0 .. 5
  BY ConstantsAssumption
<1> QED  BY <1>1, NoValues DEF Init, TypeOK, Idle

\* Each group of variables has its type after a step that keeps the others'.
StructType ==
    /\ pk     \in [Clients -> 0 .. MaxId]
    /\ exists \in [Clients -> BOOLEAN]
    /\ cur    \in [Clients -> Row]
    /\ orig   \in [Clients -> Row \cup {NoRow}]

CallType ==
    /\ op \in [Clients -> Ops \cup {"none"}]
    /\ at \in [Clients -> 0 .. 5]
    /\ \A c \in Clients : IF Idle(c) THEN at[c] = 0
                                     ELSE at[c] \in 1 .. Len(Plan[op[c]])

TxType == tx \in [Clients -> {"none", "open", "returnedNil", "returnedErr",
                              "panicked", "goexited"}]

KnownType == /\ known \in [Clients -> Row \cup {NoRow}]
             /\ base  \in [Clients -> Row \cup {NoRow}]

MarkType == /\ owned   \in [Clients -> SUBSET Ids]
            /\ clean   \in [Clients -> BOOLEAN]
            /\ dropped \in [Clients -> {"no", "rolledBack", "deleted"}]

SeqType == nextId \in 1 .. MaxId + 1

LEMMA PartsUnchanged ==
    ASSUME TypeOK
    PROVE  /\ DBType' /\ SeqType' /\ StructType' /\ CallType' /\ TxType'
              /\ KnownType' /\ MarkType' => TypeOK'
           /\ UNCHANGED <<rows, pending>> => DBType'
           /\ UNCHANGED nextId => SeqType'
           /\ UNCHANGED modelVars => StructType'
           /\ UNCHANGED <<op, at>> => CallType'
           /\ UNCHANGED tx => TxType'
           /\ UNCHANGED <<known, base>> => KnownType'
           /\ UNCHANGED <<owned, clean, dropped>> => MarkType'
<1>1. DBType' /\ SeqType' /\ StructType' /\ CallType' /\ TxType'
      /\ KnownType' /\ MarkType' => TypeOK'
  BY DEF TypeOK, DBType, SeqType, StructType, CallType, TxType, KnownType,
         MarkType
<1>2. UNCHANGED <<op, at>> => CallType'
  BY DEF TypeOK, CallType, Idle
<1> QED
  BY <1>1, <1>2 DEF TypeOK, DBType, SeqType, StructType, TxType, KnownType,
                    MarkType, modelVars

LEMMA Assigns ==
    ASSUME NEW row \in Row, NEW col \in Columns, NEW v \in Values
    PROVE  [row EXCEPT ![col] = v] \in Row
BY DEF Row

LEMMA StructStepType ==
    ASSUME TypeOK, NEW c \in Clients, StructStep(c)
    PROVE  TypeOK'
<1>1. CASE NewStruct(c)
  <2>1. StructType' /\ KnownType' /\ MarkType'
    BY <1>1, NoValues, ConstantsAssumption
       DEF NewStruct, Forget, TypeOK, StructType, KnownType, MarkType
  <2> QED  BY <1>1, <2>1, PartsUnchanged DEF NewStruct, dbVars
<1>5. ASSUME NEW id \in Ids, AssignKey(c, id)
      PROVE  TypeOK'
  <2>1. id \in 0 .. MaxId
    BY ConstantsAssumption DEF Ids
  <2>2. StructType' /\ MarkType'
    BY <1>5, <2>1 DEF AssignKey, TypeOK, StructType, MarkType
  <2> QED  BY <1>5, <2>2, PartsUnchanged DEF AssignKey, dbVars
<1>2. ASSUME NEW col \in DataCols, NEW v \in Vals,
             Assign(c, col, v) \/ MutateInPlace(c, col, v)
      PROVE  TypeOK'
  <2>1. col \in Columns /\ v \in Values
    BY DEF Columns, Values
  <2>2. cur[c] \in Row /\ (orig[c] # NoRow => orig[c] \in Row)
    BY DEF TypeOK
  <2>3. cur' = [cur EXCEPT ![c] = [cur[c] EXCEPT ![col] = v]]
    BY <1>2 DEF Assign, MutateInPlace
  <2>4. cur' \in [Clients -> Row]
    BY <2>1, <2>2, <2>3, Assigns DEF TypeOK
  <2>5. orig' \in [Clients -> Row \cup {NoRow}]
    <3>1. CASE Assign(c, col, v)
      BY <3>1 DEF Assign, TypeOK
    <3>2. CASE MutateInPlace(c, col, v)
      <4>1. /\ orig[c] \in Row
            /\ orig' = [orig EXCEPT ![c] = [orig[c] EXCEPT ![col] = v]]
        BY <2>2, <3>2 DEF MutateInPlace
      <4> QED  BY <2>1, <4>1, Assigns DEF TypeOK
    <3> QED  BY <1>2, <3>1, <3>2
  <2>6. StructType' /\ MarkType'
    BY <1>2, <2>4, <2>5 DEF TypeOK, StructType, MarkType, Assign, MutateInPlace
  <2> QED  BY <1>2, <2>6, PartsUnchanged
              DEF Assign, MutateInPlace, dbVars
<1>3. ASSUME NEW id \in Ids, NEW dest \in Row, LoadInto(c, id, dest)
      PROVE  TypeOK'
  <2> DEFINE row == View(c)[id]
             new == Scanned(dest, row)
  <2>1. row \in Row
    BY <1>3, OfferedRows DEF LoadInto
  <2>2. new \in Row
    BY <2>1 DEF Scanned, Row
  <2>3. exists' \in [Clients -> BOOLEAN] /\ orig' \in [Clients -> Row \cup {NoRow}]
    BY <1>3, <2>2, Marks DEF LoadInto
  <2>4. StructType'
    <3>1. id \in 0 .. MaxId
      BY ConstantsAssumption DEF Ids
    <3> QED  BY <1>3, <2>2, <2>3, <3>1 DEF LoadInto, TypeOK, StructType
  <2>5. rows[id] \in Row \cup {NoRow}
    BY DEF TypeOK
  <2>6. KnownType' /\ MarkType'
    BY <1>3, <2>1, <2>5 DEF LoadInto, Forget, TypeOK, KnownType, MarkType
  <2> QED  BY <1>3, <2>4, <2>6, PartsUnchanged DEF LoadInto, dbVars
<1>4. cur[c] \in Row
  BY DEF TypeOK
<1> QED  BY <1>1, <1>2, <1>3, <1>4, <1>5, NoValues DEF StructStep, Load, Reload

LEMMA HookStepType ==
    ASSUME TypeOK, NEW c \in Clients,
           \/ HookSucceeds(c) \/ HookFails(c) \/ StatementFails(c)
           \/ UpdateNothing(c)
           \/ \E col \in DataCols, v \in Vals : HookAssigns(c, col, v)
    PROVE  TypeOK'
<1>1. Stage(c) # "none" => ~Idle(c)
  BY DEF Stage
<1>2. Stage(c) \in Hooks \/ Stage(c) = "UpdateRow" => ~Idle(c)
  BY <1>1 DEF Hooks
<1>3. CallType'
  <2>1. (Advance(c) /\ ~Idle(c)) \/ Return(c)
    BY <1>2 DEF HookSucceeds, HookFails, StatementFails, UpdateNothing,
                HookAssigns
  <2> QED  BY <2>1, Moves DEF CallType
<1>4. CASE HookSucceeds(c) \/ HookFails(c) \/ StatementFails(c)
  BY <1>3, <1>4, PartsUnchanged DEF HookSucceeds, HookFails, StatementFails,
                                    dbVars, ghostVars
<1>5. CASE UpdateNothing(c)
  <2>1. MarkType'
    BY <1>5 DEF UpdateNothing, MarkType, TypeOK
  <2> QED  BY <1>3, <1>5, <2>1, PartsUnchanged DEF UpdateNothing, dbVars
<1>6. ASSUME NEW col \in DataCols, NEW v \in Vals, HookAssigns(c, col, v)
      PROVE  TypeOK'
  <2>1. col \in Columns /\ v \in Values /\ cur[c] \in Row
    BY DEF Columns, Values, TypeOK
  <2>2. cur' = [cur EXCEPT ![c] = [cur[c] EXCEPT ![col] = v]]
    BY <1>6 DEF HookAssigns
  <2>3. cur' \in [Clients -> Row]
    BY <2>1, <2>2, Assigns DEF TypeOK
  <2>4. StructType' /\ MarkType'
    BY <1>6, <2>3 DEF TypeOK, StructType, MarkType, HookAssigns
  <2> QED  BY <1>3, <1>6, <2>4, PartsUnchanged DEF HookAssigns, dbVars
<1> QED  BY <1>4, <1>5, <1>6

\* The id of a new row: the database's, or the key the application gave.
NewId(c) == IF c \in Incrementing /\ pk[c] = 0 THEN nextId ELSE pk[c]

LEMMA InsertRowType ==
    ASSUME TypeOK, NEW c \in Clients, InsertRow(c)
    PROVE  TypeOK'
<1> DEFINE id == NewId(c)
<1> USE DEF NewId
<1>1. /\ id \in Ids /\ cur[c] \in Row /\ ~Idle(c)
      /\ id \in 0 .. MaxId
      /\ nextId' \in 1 .. MaxId + 1
  <2>1. id \in Ids /\ ~Idle(c)
    BY DEF InsertRow, Stage
  <2>2. nextId' \in 1 .. MaxId + 1
    BY <2>1, ConstantsAssumption DEF InsertRow, TypeOK, Ids
  <2> QED  BY <2>1, <2>2, ConstantsAssumption DEF TypeOK, Ids
<1>2. DBType'
  BY <1>1, Stores DEF InsertRow
<1>3. CallType'
  BY <1>1, Moves DEF InsertRow, CallType
<1>4. KnownType'
  BY <1>1, Learns DEF InsertRow, KnownType
<1>5. StructType'
  <2>1. exists' \in [Clients -> BOOLEAN] /\ orig' \in [Clients -> Row \cup {NoRow}]
    BY <1>1, Marks DEF InsertRow
  <2>2. pk' \in [Clients -> 0 .. MaxId]
    BY <1>1 DEF InsertRow, WriteKeyBack, SetPK, TypeOK
  <2> QED  BY <2>1, <2>2 DEF InsertRow, TypeOK, StructType
<1>6. MarkType' /\ SeqType'
  BY <1>1 DEF InsertRow, TypeOK, MarkType, SeqType
<1> QED  BY <1>2, <1>3, <1>4, <1>5, <1>6, PartsUnchanged DEF InsertRow

(***************************************************************************)
(* The statements that name a row by its key need one, and Restore needs   *)
(* a deleted_at column: the type of the rows is inductive only together    *)
(* with the guards of Update, Delete, ForceDelete and Restore, which hold  *)
(* until the statement runs because no hook and no other client sets the   *)
(* key.                                                                    *)
(***************************************************************************)
GuardsHold ==
    \A c \in Clients : /\ op[c] \notin {"none", "insert"} => pk[c] # 0
                       /\ op[c] = "restore" => SoftDeletes

LEMMA Stages ==
    ASSUME TypeOK, NEW c \in Clients,
           Stage(c) \in {"UpdateRow", "DeleteRow", "HardDeleteRow", "RestoreRow"}
    PROVE  /\ ~Idle(c) /\ op[c] \notin {"none", "insert"}
           /\ Stage(c) = "RestoreRow" => op[c] = "restore"
<1>1. ~Idle(c) /\ op[c] # "none"
  BY DEF Stage, Idle
<1>2. ASSUME op[c] = "insert" PROVE FALSE
  <2>1. Stage(c) = Plan["insert"][at[c]] /\ at[c] \in 1 .. Len(Plan["insert"])
    BY <1>1, <1>2 DEF Stage, TypeOK
  <2>2. Plan["insert"] = <<"BeforeSave", "BeforeCreate", "InsertRow",
                           "AfterCreate", "AfterSave">>
    BY DEF Plan
  <2>3. at[c] \in 1 .. 5
    BY <2>1, <2>2
  <2> QED  BY <2>1, <2>2, <2>3
<1>3. ASSUME op[c] \in {"update", "delete", "forceDelete"}
      PROVE  Stage(c) # "RestoreRow"
  <2>1. Stage(c) = Plan[op[c]][at[c]] /\ at[c] \in 1 .. Len(Plan[op[c]])
    BY <1>1 DEF Stage, TypeOK
  <2>2. CASE op[c] = "update"
    <3>1. Plan["update"] = <<"BeforeSave", "BeforeUpdate", "UpdateRow",
                             "AfterUpdate", "AfterSave">>
      BY DEF Plan
    <3>2. at[c] \in 1 .. 5
      BY <2>1, <2>2, <3>1
    <3> QED  BY <2>1, <2>2, <3>1, <3>2
  <2>3. CASE op[c] = "delete"
    <3>1. Plan["delete"] = <<"BeforeDelete", "DeleteRow", "AfterDelete">>
      BY DEF Plan
    <3>2. at[c] \in 1 .. 3
      BY <2>1, <2>3, <3>1
    <3> QED  BY <2>1, <2>3, <3>1, <3>2
  <2>4. CASE op[c] = "forceDelete"
    <3>1. Plan["forceDelete"] = <<"BeforeDelete", "HardDeleteRow", "AfterDelete">>
      BY DEF Plan
    <3>2. at[c] \in 1 .. 3
      BY <2>1, <2>4, <3>1
    <3> QED  BY <2>1, <2>4, <3>1, <3>2
  <2> QED  BY <1>3, <2>2, <2>3, <2>4
<1>4. op[c] \in Ops
  BY <1>1 DEF TypeOK
<1> QED  BY <1>1, <1>2, <1>3, <1>4 DEF Ops

LEMMA WriteStepType ==
    ASSUME TypeOK, GuardsHold, NEW c \in Clients,
           \/ UpdateRow(c) \/ HardDeleteRow(c) \/ RestoreRow(c)
           \/ \E t \in Times : SoftDeleteRow(c, t)
    PROVE  TypeOK'
<1>1. ~Idle(c) /\ pk[c] \in Ids
  <2>1. ~Idle(c) /\ op[c] \notin {"none", "insert"}
    BY Stages DEF UpdateRow, HardDeleteRow, RestoreRow, SoftDeleteRow
  <2>2. pk[c] # 0 /\ pk[c] \in 0 .. MaxId
    BY <2>1 DEF GuardsHold, TypeOK
  <2> QED  BY <2>1, <2>2, ConstantsAssumption DEF Ids
<1>2. CallType' /\ SeqType' /\ TxType'
  <2>1. Advance(c) /\ nextId' = nextId /\ tx' = tx
    BY DEF UpdateRow, HardDeleteRow, RestoreRow, SoftDeleteRow
  <2> QED  BY <1>1, <2>1, Moves, PartsUnchanged DEF CallType
<1>3. cur[c] \in Row
  BY DEF TypeOK
<1>4. CASE UpdateRow(c)
  <2>1. DBType'
    BY <1>1, <1>3, <1>4, Updates DEF UpdateRow
  <2>2. KnownType'
    BY <1>3, <1>4, LearnsColumns DEF UpdateRow, KnownType
  <2>3. exists' \in [Clients -> BOOLEAN] /\ orig' \in [Clients -> Row \cup {NoRow}]
    BY <1>3, <1>4, Marks DEF UpdateRow
  <2>4. StructType' /\ MarkType'
    BY <1>4, <2>3 DEF UpdateRow, TypeOK, StructType, MarkType
  <2> QED  BY <1>2, <2>1, <2>2, <2>4, PartsUnchanged
<1>5. CASE HardDeleteRow(c)
  <2>1. DBType'
    <3>1. CASE View(c)[pk[c]] = NoRow
      BY <1>5, <3>1, PartsUnchanged DEF HardDeleteRow, DeleteWhere
    <3>2. CASE View(c)[pk[c]] # NoRow
      BY <1>1, <1>5, <3>2, Stores DEF HardDeleteRow, DeleteWhere
    <3> QED  BY <3>1, <3>2
  <2>2. KnownType'
    BY <1>5, Learns DEF HardDeleteRow, KnownType
  <2>3. StructType' /\ MarkType'
    BY <1>5, PartsUnchanged DEF HardDeleteRow, TypeOK, MarkType
  <2> QED  BY <1>2, <2>1, <2>2, <2>3, PartsUnchanged
<1>6. ASSUME NEW t \in Times \cup {NULL}, NEW row \in Row,
             DeletedAt \in Columns,
             UpdateWhere(c, pk[c], {DeletedAt}, row),
             LearnCols(c, {DeletedAt}, row),
             cur' = [cur EXCEPT ![c][DeletedAt] = t],
             UNCHANGED <<pk, exists, orig>>
      PROVE  DBType' /\ KnownType' /\ StructType'
  <2>1. DBType' /\ KnownType'
    BY <1>1, <1>6, Updates, LearnsColumns DEF KnownType
  <2>2. cur' = [cur EXCEPT ![c] = [cur[c] EXCEPT ![DeletedAt] = t]]
    BY <1>6
  <2>3. [cur[c] EXCEPT ![DeletedAt] = t] \in Row
    BY <1>3, <1>6, Assigns DEF Values
  <2>4. StructType'
    BY <1>6, <2>2, <2>3 DEF TypeOK, StructType
  <2> QED  BY <2>1, <2>4
<1>7. ASSUME NEW t \in Times, SoftDeleteRow(c, t)
      PROVE  TypeOK'
  <2>1. DeletedAt \in Columns
    BY <1>7 DEF SoftDeleteRow, Columns
  <2>2. [EmptyRow EXCEPT ![DeletedAt] = t] \in Row
    BY <2>1, NoValues, Assigns DEF Values
  <2>3. DBType' /\ KnownType' /\ StructType'
    BY <1>6, <1>7, <2>1, <2>2 DEF SoftDeleteRow
  <2>4. MarkType'
    BY <1>7 DEF SoftDeleteRow, TypeOK, MarkType
  <2> QED  BY <1>2, <2>3, <2>4, PartsUnchanged
<1>8. CASE RestoreRow(c)
  <2>1. DeletedAt \in Columns
    BY <1>8, Stages DEF RestoreRow, GuardsHold, Columns
  <2>2. DBType' /\ KnownType' /\ StructType'
    BY <1>6, <1>8, <2>1, NoValues DEF RestoreRow
  <2>3. MarkType'
    BY <1>8, PartsUnchanged DEF RestoreRow
  <2> QED  BY <1>2, <2>2, <2>3, PartsUnchanged
<1> QED  BY <1>4, <1>5, <1>7, <1>8

LEMMA CallBegins ==
    ASSUME TypeOK, NEW c \in Clients, NEW o \in Ops, Call(c, o)
    PROVE  TypeOK'
<1>1. PICK n \in 1 .. 5 : n = Len(Plan[o])
  BY Plans
<1>2. CallType'
  <2>1. /\ op' = [op EXCEPT ![c] = o] /\ at' = [at EXCEPT ![c] = 1]
        /\ o # "none" /\ 1 \in 1 .. n /\ 1 \in 0 .. 5
    BY DEF Call, Start, Ops
  <2>2. op' \in [Clients -> Ops \cup {"none"}] /\ at' \in [Clients -> 0 .. 5]
    BY <2>1 DEF TypeOK
  <2>3. \A d \in Clients : /\ op'[d] = IF d = c THEN o ELSE op[d]
                           /\ at'[d] = IF d = c THEN 1 ELSE at[d]
    BY <2>1 DEF TypeOK
  <2>4. \A d \in Clients : IF Idle(d)' THEN at'[d] = 0
                           ELSE at'[d] \in 1 .. Len(Plan[op'[d]])
    BY <1>1, <2>1, <2>3 DEF TypeOK, Idle
  <2> QED  BY <2>2, <2>4 DEF CallType
<1> QED  BY <1>2, PartsUnchanged DEF Call, dbVars, ghostVars

LEMMA CallStepType ==
    ASSUME TypeOK, GuardsHold, NEW c \in Clients, CallStep(c)
    PROVE  TypeOK'
<1>1. \A o \in Ops : Call(c, o) => TypeOK'
  BY CallBegins
<1>2. SaveOp(c) \in Ops
  BY DEF SaveOp, Ops
<1>3. CASE Save(c) \/ Insert(c) \/ Update(c) \/ Delete(c) \/ ForceDelete(c)
           \/ Restore(c)
  BY <1>1, <1>2, <1>3 DEF Save, Insert, Update, Delete, ForceDelete, Restore, Ops
<1> QED  BY <1>3, HookStepType, InsertRowType, WriteStepType DEF CallStep

LEMMA TxStepType ==
    ASSUME TypeOK, NEW c \in Clients, TxStep(c)
    PROVE  TypeOK'
<1>1. CASE Begin(c)
  <2>1. TxType'
    BY <1>1 DEF Begin, TypeOK, TxType
  <2> QED  BY <1>1, <2>1, PartsUnchanged DEF Begin, dbVars, ghostVars
<1>2. ASSUME NEW how \in {"returnedNil", "returnedErr", "panicked", "goexited"},
             FnEnds(c, how)
      PROVE  TypeOK'
  <2>1. TxType'
    BY <1>2 DEF FnEnds, TypeOK, TxType
  <2>2. CallType'
    BY <1>2, Moves DEF FnEnds, CallType
  <2> QED  BY <1>2, <2>1, <2>2, PartsUnchanged DEF FnEnds, dbVars, ghostVars
<1>3. Discard(c) => pending' \in [Clients -> [Ids -> Row \cup {NoRow, Clean}]]
  BY DEF Discard, TypeOK
<1>4. CASE Commit(c)
  <2>1. Merge(c) \in [Ids -> Row \cup {NoRow}]
    BY SentinelAssumption DEF Merge, TypeOK
  <2>2. DBType' /\ TxType' /\ KnownType'
    BY <1>3, <1>4, <2>1 DEF Commit, TypeOK, DBType, TxType, KnownType
  <2> QED  BY <1>4, <2>2, PartsUnchanged DEF Commit
<1>5. CASE Rollback(c)
  <2>1. DBType' /\ TxType' /\ KnownType' /\ MarkType'
    BY <1>3, <1>5 DEF Rollback, TypeOK, DBType, TxType, KnownType, MarkType
  <2> QED  BY <1>5, <2>1, PartsUnchanged DEF Rollback
<1> QED  BY <1>1, <1>2, <1>4, <1>5 DEF TxStep

LEMMA GuardsStep ==
    ASSUME TypeOK, GuardsHold, [Next]_vars
    PROVE  GuardsHold'
<1>1. CASE UNCHANGED <<pk, op>>
  BY <1>1 DEF GuardsHold
<1>2. ASSUME NEW c \in Clients, Return(c) \/ Advance(c), UNCHANGED pk
      PROVE  GuardsHold'
  BY <1>2 DEF GuardsHold, Return, Advance, TypeOK
<1>3. ASSUME NEW c \in Clients, StructStep(c)
      PROVE  GuardsHold'
  <2>1. op' = op /\ Running(c)
    BY <1>3 DEF StructStep, NewStruct, AssignKey, Assign,
                MutateInPlace, Load, Reload,
                LoadInto
  <2>2. \A d \in Clients \ {c} : pk'[d] = pk[d]
    BY <1>3 DEF StructStep, NewStruct, AssignKey, Assign,
                MutateInPlace, Load, Reload,
                LoadInto, TypeOK
  <2> QED  BY <2>1, <2>2 DEF GuardsHold, Running, Idle
<1>4. ASSUME NEW c \in Clients, NEW o \in Ops, Call(c, o)
      PROVE  GuardsHold'
  BY <1>4 DEF Call, Start, GuardsHold, TypeOK, modelVars
<1>5. ASSUME NEW c \in Clients, InsertRow(c)
      PROVE  GuardsHold'
  <2>1. /\ \A d \in Clients : pk[d] # 0 => pk'[d] # 0
        /\ Advance(c)
    BY <1>5 DEF InsertRow, WriteKeyBack, SetPK, TypeOK, Ids
  <2>2. \A d \in Clients : op'[d] \in {op[d], "none"}
    BY <2>1 DEF Advance, Return, TypeOK
  <2> QED  BY <2>1, <2>2 DEF GuardsHold
<1>6. ASSUME NEW c \in Clients, CallStep(c)
      PROVE  GuardsHold'
  <2>1. SaveOp(c) \in Ops
    BY DEF SaveOp, Ops
  <2>2. CASE Save(c) \/ Insert(c) \/ Update(c) \/ Delete(c) \/ ForceDelete(c)
             \/ Restore(c)
    BY <1>4, <2>1, <2>2 DEF Save, Insert, Update, Delete, ForceDelete, Restore,
                            Ops
  <2>3. CASE HookSucceeds(c) \/ HookFails(c) \/ StatementFails(c)
             \/ UpdateNothing(c) \/ UpdateRow(c) \/ HardDeleteRow(c)
             \/ RestoreRow(c)
    BY <1>2, <2>3 DEF HookSucceeds, HookFails, StatementFails, UpdateNothing,
                      UpdateRow, HardDeleteRow, RestoreRow, modelVars
  <2>4. CASE \/ \E col \in DataCols, v \in Vals : HookAssigns(c, col, v)
             \/ \E t \in Times : SoftDeleteRow(c, t)
    BY <1>2, <2>4 DEF HookAssigns, SoftDeleteRow
  <2> QED  BY <1>5, <1>6, <2>2, <2>3, <2>4 DEF CallStep
<1>7. ASSUME NEW c \in Clients, TxStep(c)
      PROVE  GuardsHold'
  <2>1. CASE Begin(c) \/ Commit(c) \/ Rollback(c)
    BY <1>1, <2>1 DEF Begin, Commit, Rollback, modelVars
  <2>2. CASE \E how \in {"returnedNil", "returnedErr", "panicked", "goexited"} :
                 FnEnds(c, how)
    BY <1>2, <2>2 DEF FnEnds, modelVars
  <2> QED  BY <1>7, <2>1, <2>2 DEF TxStep
<1> QED  BY <1>1, <1>3, <1>6, <1>7 DEF Next, vars, modelVars

\* Every state of the model has its shape, and no statement that names a row
\* by the struct's key runs with the key unset.
THEOREM TypeCorrect == Spec => [](TypeOK /\ GuardsHold)
<1>1. Init => TypeOK /\ GuardsHold
  BY TypeInit DEF Init, GuardsHold
<1>2. TypeOK /\ GuardsHold /\ [Next]_vars => TypeOK' /\ GuardsHold'
  <2>1. ASSUME TypeOK, GuardsHold, NEW c \in Clients,
               StructStep(c) \/ CallStep(c) \/ TxStep(c)
        PROVE  TypeOK'
    BY <2>1, StructStepType, CallStepType, TxStepType
  <2>2. ASSUME TypeOK, UNCHANGED vars
        PROVE  TypeOK'
    BY <2>2, PartsUnchanged DEF vars, dbVars, ghostVars
  <2> QED  BY <2>1, <2>2, GuardsStep DEF Next
<1> QED  BY <1>1, <1>2, PTL DEF Spec

-----------------------------------------------------------------------------
(***************************************************************************)
(* A struct's rows.  When every generated key comes back to the struct     *)
(* (the key field is a signed integer, and no driver refuses the id), its  *)
(* Insert calls create only rows of the key the struct holds: no stage but *)
(* InsertRow touches the key, the application sets only one that is unset, *)
(* and a fresh or reloaded struct starts with no rows of its own.          *)
(***************************************************************************)
KeysComeBack == Incrementing \subseteq Signed \ IdLost

OwnsItsKeyOnly ==
    /\ pk    \in [Clients -> Nat]
    /\ owned \in [Clients -> SUBSET Ids]
    /\ \A c \in Clients : owned[c] \subseteq {pk[c]}

\* A call in progress or a transaction step leaves the key and the history
\* of its rows alone, except where InsertRow and a load change them.
LEMMA OwnershipInit == Init => OwnsItsKeyOnly
BY DEF Init, OwnsItsKeyOnly

LEMMA OwnershipStep ==
    ASSUME KeysComeBack, OwnsItsKeyOnly, [Next]_vars
    PROVE  OwnsItsKeyOnly'
<1> USE DEF OwnsItsKeyOnly
<1>1. CASE UNCHANGED <<pk, owned>>
  BY <1>1
<1>2. ASSUME NEW c \in Clients, NewStruct(c)
      PROVE  OwnsItsKeyOnly'
  BY <1>2 DEF NewStruct, Forget
<1>3. ASSUME NEW c \in Clients, NEW id \in Ids, Load(c, id) \/ Reload(c, id)
      PROVE  OwnsItsKeyOnly'
  BY <1>3 DEF Load, Reload, LoadInto, Forget, Ids
<1>4. ASSUME NEW c \in Clients, InsertRow(c)
      PROVE  OwnsItsKeyOnly'
  <2> DEFINE id == NewId(c)
  <2>1. /\ id \in Ids
        /\ owned' = [owned EXCEPT ![c] = @ \cup {id}]
    BY <1>4 DEF InsertRow, NewId
  <2>2. pk' = [pk EXCEPT ![c] = id]
    <3>1. WriteKeyBack(c, id)
      BY <1>4 DEF InsertRow, NewId
    <3>2. CASE c \in Incrementing
      BY <3>1, <3>2 DEF WriteKeyBack, SetPK, KeysComeBack
    <3>3. CASE c \notin Incrementing
      <4>1. c \notin Signed /\ id = pk[c]
        BY <3>3, ConstantsAssumption DEF NewId
      <4> QED  BY <3>1, <4>1 DEF WriteKeyBack, SetPK
    <3> QED  BY <3>2, <3>3
  <2>3. owned[c] \cup {id} \subseteq {id}
    BY <2>1 DEF Ids, NewId
  <2> QED  BY <2>1, <2>2, <2>3 DEF Ids
<1>8. ASSUME NEW c \in Clients, NEW id \in Ids, AssignKey(c, id)
      PROVE  OwnsItsKeyOnly'
  <2>1. owned[c] = {}
    BY <1>8 DEF AssignKey, Ids
  <2> QED  BY <1>8, <2>1 DEF AssignKey, Ids
<1>5. ASSUME NEW c \in Clients, StructStep(c)
      PROVE  OwnsItsKeyOnly'
  BY <1>1, <1>2, <1>3, <1>5, <1>8 DEF StructStep, Assign, MutateInPlace
<1>6. ASSUME NEW c \in Clients, CallStep(c)
      PROVE  OwnsItsKeyOnly'
  <2>1. CASE Save(c) \/ Insert(c) \/ Update(c) \/ Delete(c) \/ ForceDelete(c)
             \/ Restore(c)
    BY <1>1, <2>1 DEF Save, Insert, Update, Delete, ForceDelete, Restore, Call,
                      modelVars, ghostVars
  <2>2. CASE HookSucceeds(c) \/ HookFails(c) \/ StatementFails(c)
             \/ UpdateNothing(c)
    BY <1>1, <2>2 DEF HookSucceeds, HookFails, StatementFails, UpdateNothing,
                      modelVars, ghostVars
  <2>3. CASE \/ \E col \in DataCols, v \in Vals : HookAssigns(c, col, v)
             \/ UpdateRow(c)
             \/ \E t \in Times : SoftDeleteRow(c, t)
             \/ RestoreRow(c) \/ HardDeleteRow(c)
    BY <1>1, <2>3 DEF HookAssigns, UpdateRow, SoftDeleteRow, RestoreRow,
                      HardDeleteRow, modelVars
  <2> QED  BY <1>4, <1>6, <2>1, <2>2, <2>3 DEF CallStep
<1>7. ASSUME NEW c \in Clients, TxStep(c)
      PROVE  OwnsItsKeyOnly'
  BY <1>1, <1>7 DEF TxStep, Begin, FnEnds, Commit, Rollback, modelVars,
                    ghostVars
<1> QED
  BY <1>1, <1>5, <1>6, <1>7 DEF Next, vars, modelVars, ghostVars

\* When every generated key comes back, whatever a struct's calls, hooks and
\* transactions come to, all the rows it inserted have the one key it holds, so
\* that Save never makes a second one.
THEOREM OneRowEach ==
    ASSUME KeysComeBack
    PROVE  Spec => []AtMostOneRow
<1>1. OwnsItsKeyOnly => AtMostOneRow
  <2> SUFFICES ASSUME OwnsItsKeyOnly, NEW c \in Clients
               PROVE  Cardinality(owned[c]) <= 1
    BY DEF AtMostOneRow
  <2>1. owned[c] \subseteq {pk[c]}
    BY DEF OwnsItsKeyOnly
  <2>2. IsFiniteSet({pk[c]}) /\ Cardinality({pk[c]}) = 1
    BY FS_Singleton
  <2> QED  BY <2>1, <2>2, FS_Subset
<1>2. OwnsItsKeyOnly /\ [Next]_vars => OwnsItsKeyOnly'
  BY OwnershipStep
<1> QED  BY <1>1, <1>2, OwnershipInit, PTL DEF Spec
-----------------------------------------------------------------------------
(***************************************************************************)
(* What is published.  The property speaks of single steps; it needs to    *)
(* know of the state before the step that a statement runs only outside    *)
(* DB.Tx or inside an open closure, and that nothing left by Goexit.       *)
(***************************************************************************)
StatementsInScope ==
    /\ tx \in [Clients -> {"none", "open", "returnedNil", "returnedErr",
                           "panicked", "goexited"}]
    /\ op \in [Clients -> Ops \cup {"none"}]
    /\ \A c \in Clients : /\ ~Idle(c) => tx[c] \in {"none", "open"}
                          /\ tx[c] = "goexited" => "goexit" \in Habits[c]

\* The steps that change neither the call of a client nor its transaction.
LEMMA ScopeStep ==
    ASSUME StatementsInScope, [Next]_vars
    PROVE  StatementsInScope'
<1> USE DEF StatementsInScope
<1>1. CASE UNCHANGED <<tx, op>>
  BY <1>1 DEF Idle
<1>2. ASSUME NEW c \in Clients, Return(c) \/ Advance(c), UNCHANGED tx
      PROVE  StatementsInScope'
  BY <1>2 DEF Return, Advance, Idle
<1>3. ASSUME NEW c \in Clients, NEW o \in Ops, Call(c, o)
      PROVE  StatementsInScope'
  BY <1>3 DEF Call, Start, Running, Idle
<1>4. ASSUME NEW c \in Clients, StructStep(c)
      PROVE  StatementsInScope'
  BY <1>1, <1>4 DEF StructStep, NewStruct, AssignKey, Assign,
                    MutateInPlace, Load, Reload,
                    LoadInto
<1>5. ASSUME NEW c \in Clients, CallStep(c)
      PROVE  StatementsInScope'
  <2>1. SaveOp(c) \in Ops
    BY DEF SaveOp, Ops
  <2>2. CASE Save(c) \/ Insert(c) \/ Update(c) \/ Delete(c) \/ ForceDelete(c)
             \/ Restore(c)
    BY <1>3, <2>1, <2>2 DEF Save, Insert, Update, Delete, ForceDelete, Restore,
                            Ops
  <2>3. CASE HookSucceeds(c) \/ HookFails(c) \/ StatementFails(c)
             \/ UpdateNothing(c) \/ UpdateRow(c) \/ HardDeleteRow(c)
             \/ RestoreRow(c) \/ InsertRow(c)
    BY <1>2, <2>3 DEF HookSucceeds, HookFails, StatementFails, UpdateNothing,
                      UpdateRow, HardDeleteRow, RestoreRow, InsertRow
  <2>4. CASE \/ \E col \in DataCols, v \in Vals : HookAssigns(c, col, v)
             \/ \E t \in Times : SoftDeleteRow(c, t)
    BY <1>2, <2>4 DEF HookAssigns, SoftDeleteRow
  <2> QED  BY <1>5, <2>2, <2>3, <2>4 DEF CallStep
<1>6. ASSUME NEW c \in Clients, TxStep(c)
      PROVE  StatementsInScope'
  <2>1. CASE Begin(c)
    BY <2>1 DEF Begin, Idle
  <2>2. ASSUME NEW how \in {"returnedNil", "returnedErr", "panicked",
                            "goexited"}, FnEnds(c, how)
        PROVE  StatementsInScope'
    BY <2>2 DEF FnEnds, Return, Idle
  <2>3. CASE Commit(c) \/ Rollback(c)
    BY <2>3 DEF Commit, Rollback, Idle
  <2> QED  BY <1>6, <2>1, <2>2, <2>3 DEF TxStep
<1> QED  BY <1>1, <1>4, <1>5, <1>6 DEF Next, vars

\* A step that changes the committed rows is a statement outside DB.Tx or the
\* commit of a closure.
LEMMA Publishes ==
    ASSUME StatementsInScope, NEW c \in Clients,
           StructStep(c) \/ CallStep(c) \/ TxStep(c), rows' # rows
    PROVE  \/ ~Idle(c) /\ tx[c] = "none"
           \/ /\ tx[c] \in {"returnedNil", "goexited"}
              /\ tx'[c] = "none" /\ rows' = Merge(c)
<1>1. CASE StructStep(c)
  BY <1>1 DEF StructStep, NewStruct, AssignKey, Assign,
              MutateInPlace, Load, Reload,
              LoadInto, dbVars
<1>2. CASE TxStep(c)
  BY <1>2 DEF TxStep, Begin, FnEnds, Commit, Rollback, dbVars,
              StatementsInScope
<1>3. CASE CallStep(c)
  <2>1. InsertRow(c) \/ UpdateRow(c) \/ HardDeleteRow(c) \/ RestoreRow(c)
        \/ \E t \in Times : SoftDeleteRow(c, t)
    BY <1>3 DEF CallStep, Save, Insert, Update, Delete, ForceDelete, Restore,
                Call, HookSucceeds, HookAssigns, HookFails, UpdateNothing,
                StatementFails, dbVars
  <2>2. ~Idle(c)
    BY <2>1 DEF InsertRow, UpdateRow, HardDeleteRow, RestoreRow, SoftDeleteRow,
                Stage
  <2>3. ~InTx(c)
    BY <2>1 DEF InsertRow, UpdateRow, HardDeleteRow, RestoreRow, SoftDeleteRow,
                UpdateWhere, DeleteWhere, Store
  <2> QED  BY <2>2, <2>3 DEF StatementsInScope, InTx
<1> QED  BY <1>1, <1>2, <1>3

\* When no closure leaves by Goexit, the committed rows change only by a
\* statement outside DB.Tx or by the commit of a closure that returned nil, which
\* publishes all that it wrote: an error or a panic publishes nothing.
THEOREM TxIsAllOrNothing ==
    ASSUME \A c \in Clients : "goexit" \notin Habits[c]
    PROVE  Spec => OnlySuccessfulTxPublishes
<1>1. Init => StatementsInScope
  BY DEF Init, StatementsInScope, Idle
<1>2. StatementsInScope /\ [Next]_vars => StatementsInScope'
  BY ScopeStep
<1>3. StatementsInScope /\ [Next]_vars => [Published]_vars
  <2> SUFFICES ASSUME StatementsInScope, [Next]_vars, NEW id \in Ids,
                      rows'[id] # rows[id]
               PROVE  \E c \in Clients :
                         \/ tx[c] = "none" /\ ~Idle(c)
                         \/ tx[c] = "returnedNil" /\ tx'[c] = "none"
                            /\ rows' = Merge(c)
    BY DEF Published
  <2>1. PICK c \in Clients : StructStep(c) \/ CallStep(c) \/ TxStep(c)
    BY DEF Next, vars, dbVars
  <2>2. tx[c] # "goexited"
    BY DEF StatementsInScope
  <2> QED  BY <2>1, <2>2, Publishes
<1> QED  BY <1>1, <1>2, <1>3, PTL DEF Spec, OnlySuccessfulTxPublishes
-----------------------------------------------------------------------------
(***************************************************************************)
(* What a struct knows of its row.  The history variable known is the row  *)
(* as the struct's own reads and writes left it; until the struct is       *)
(* dropped (its transaction rolled back, or its row was deleted), the      *)
(* exists flag and the baseline agree with it.  A struct may be used in    *)
(* every way the code offers except those of Habits that break this by     *)
(* design: reuse after a rollback or a delete, a change behind a field's   *)
(* back, a load over an old struct, an update of an unsaved one.  A closure*)
(* may still leave by Goexit, and an application may assign the keys.      *)
(***************************************************************************)
CarefulUse == \A c \in Clients : Habits[c] \subseteq {"goexit", "assignKey"}

\* The baseline has the row's data columns; deleted_at is the exception, which
\* Restore clears in the row and on the struct and leaves in the baseline.
BaselineCurrent(c) ==
    /\ SoftDeletes => cur[c][DeletedAt] = known[c][DeletedAt]
    /\ c \in Tracked => /\ exists[c] /\ orig[c] # NoRow
                        /\ \A col \in DataCols : orig[c][col] = known[c][col]

OnRecord(c) ==
    /\ clean[c] => cur[c] = known[c]
    /\ IF known[c] = NoRow
       THEN orig[c] = NoRow /\ (c \in Tracked => ~exists[c])
       ELSE BaselineCurrent(c)

NoBaseline(c) == c \notin Tracked => orig[c] = NoRow

\* Update is called on a struct that was loaded or saved, and not dropped.
Updatable(c) == dropped[c] = "no" /\ known[c] # NoRow

StructsOnRecord ==
    \A c \in Clients : /\ NoBaseline(c)
                       /\ dropped[c] = "no" => OnRecord(c)
                       /\ op[c] = "update" => Updatable(c)

StructOf(c) == <<exists[c], cur[c], orig[c], known[c], clean[c],
                 dropped[c]>>

LEMMA RecordKept ==
    ASSUME NEW c \in Clients, OnRecord(c), StructOf(c)' = StructOf(c)
    PROVE  OnRecord(c)'
BY DEF OnRecord, BaselineCurrent, StructOf

\* A step of one client leaves the structs and the calls of the others alone.
LEMMA OthersKept ==
    ASSUME TypeOK, NEW c \in Clients, NEW d \in Clients \ {c},
           StructStep(c) \/ CallStep(c) \/ TxStep(c)
    PROVE  /\ StructOf(d)' = StructOf(d)
           /\ op'[d] = op[d] /\ at'[d] = at[d]
<1> USE DEF StructOf
<1>1. ASSUME \/ UNCHANGED <<op, at>>
             \/ Advance(c)
             \/ Return(c)
             \/ \E o \in Ops : Start(c, o)
      PROVE  op'[d] = op[d] /\ at'[d] = at[d]
  BY <1>1 DEF Advance, Return, Start, TypeOK
<1>2. CASE StructStep(c)
  BY <1>1, <1>2 DEF StructStep, NewStruct, AssignKey, Assign,
                    MutateInPlace, Load, Reload,
              LoadInto, MarkPersisted, Forget, TypeOK
<1>3. CASE TxStep(c)
  BY <1>1, <1>3 DEF TxStep, Begin, FnEnds, Commit, Rollback, modelVars,
                    ghostVars, TypeOK
<1>4. ASSUME NEW o \in Ops, Call(c, o)
      PROVE  StructOf(d)' = StructOf(d) /\ op'[d] = op[d] /\ at'[d] = at[d]
  BY <1>1, <1>4 DEF Call, modelVars, ghostVars
<1>5. CASE CallStep(c)
  <2>1. SaveOp(c) \in Ops
    BY DEF SaveOp, Ops
  <2>2. CASE Save(c) \/ Insert(c) \/ Update(c) \/ Delete(c) \/ ForceDelete(c)
             \/ Restore(c)
    BY <1>4, <2>1, <2>2 DEF Save, Insert, Update, Delete, ForceDelete, Restore,
                            Ops
  <2>3. CASE HookSucceeds(c) \/ HookFails(c) \/ StatementFails(c)
             \/ UpdateNothing(c)
             \/ \E col \in DataCols, v \in Vals : HookAssigns(c, col, v)
    BY <1>1, <2>3 DEF HookSucceeds, HookFails, StatementFails, UpdateNothing,
                      HookAssigns, modelVars, ghostVars, TypeOK
  <2>4. \A row : Learn(c, row) => known'[d] = known[d]
    BY DEF Learn, TypeOK
  <2>5. CASE InsertRow(c)
    BY <1>1, <2>4, <2>5 DEF InsertRow, MarkPersisted, TypeOK
  <2>6. CASE UpdateRow(c)
    BY <1>1, <2>4, <2>6 DEF UpdateRow, MarkPersisted, LearnCols, TypeOK
  <2>7. CASE HardDeleteRow(c)
    BY <1>1, <2>4, <2>7 DEF HardDeleteRow, modelVars, TypeOK
  <2>8. CASE RestoreRow(c)
    BY <1>1, <2>4, <2>8 DEF RestoreRow, LearnCols, TypeOK
  <2>9. ASSUME NEW t \in Times, SoftDeleteRow(c, t)
        PROVE  StructOf(d)' = StructOf(d) /\ op'[d] = op[d] /\ at'[d] = at[d]
    BY <1>1, <2>4, <2>9 DEF SoftDeleteRow, LearnCols, TypeOK
  <2> QED  BY <1>5, <2>2, <2>3, <2>5, <2>6, <2>7, <2>8, <2>9 DEF CallStep
<1> QED  BY <1>2, <1>3, <1>5

\* A struct that does not embed playsql.Model never gets a baseline.
LEMMA NoBaselineKept ==
    ASSUME TypeOK, NEW c \in Clients, NoBaseline(c),
           StructStep(c) \/ CallStep(c) \/ TxStep(c)
    PROVE  NoBaseline(c)'
<1> USE DEF NoBaseline
<1>1. CASE UNCHANGED orig
  BY <1>1
<1>2. CASE StructStep(c)
  BY <1>2 DEF StructStep, NewStruct, AssignKey, Assign,
              MutateInPlace, Load, Reload,
              LoadInto, MarkPersisted, TypeOK
<1>3. CASE TxStep(c)
  BY <1>1, <1>3 DEF TxStep, Begin, FnEnds, Commit, Rollback, modelVars
<1>4. CASE CallStep(c)
  <2>1. CASE InsertRow(c) \/ UpdateRow(c)
    BY <2>1 DEF InsertRow, UpdateRow, MarkPersisted
  <2> QED
    BY <1>1, <1>4, <2>1 DEF CallStep, Save, Insert, Update, Delete, ForceDelete,
       Restore, Call, HookSucceeds, HookFails, StatementFails, UpdateNothing,
       HookAssigns, SoftDeleteRow, HardDeleteRow, RestoreRow, modelVars
<1> QED  BY <1>2, <1>3, <1>4

\* The stages of Update and of the two deletes belong to their own calls.
LEMMA StagesOfCalls ==
    ASSUME TypeOK, NEW c \in Clients
    PROVE  /\ Stage(c) = "UpdateRow" => op[c] = "update"
           /\ Stage(c) \in {"DeleteRow", "HardDeleteRow"} => op[c] # "update"
<1>1. CASE Idle(c)
  BY <1>1 DEF Stage
<1>2. CASE ~Idle(c)
  <2>1. /\ op[c] \in Ops
        /\ Stage(c) = Plan[op[c]][at[c]] /\ at[c] \in 1 .. Len(Plan[op[c]])
    BY <1>2 DEF Stage, TypeOK, Idle
  <2>2. CASE op[c] \in {"insert", "update"}
    <3>1. /\ Plan["insert"] = <<"BeforeSave", "BeforeCreate", "InsertRow",
                                "AfterCreate", "AfterSave">>
          /\ Plan["update"] = <<"BeforeSave", "BeforeUpdate", "UpdateRow",
                                "AfterUpdate", "AfterSave">>
      BY DEF Plan
    <3>2. at[c] \in 1 .. 5
      BY <2>1, <2>2, <3>1
    <3> QED  BY <2>1, <2>2, <3>1, <3>2
  <2>3. CASE op[c] \in {"delete", "forceDelete"}
    <3>1. /\ Plan["delete"] = <<"BeforeDelete", "DeleteRow", "AfterDelete">>
          /\ Plan["forceDelete"] = <<"BeforeDelete", "HardDeleteRow",
                                     "AfterDelete">>
      BY DEF Plan
    <3>2. at[c] \in 1 .. 3
      BY <2>1, <2>3, <3>1
    <3> QED  BY <2>1, <2>3, <3>1, <3>2
  <2>4. CASE op[c] = "restore"
    <3>1. Plan["restore"] = <<"RestoreRow">> /\ at[c] \in 1 .. 1
      BY <2>1, <2>4 DEF Plan
    <3> QED  BY <2>1, <2>4, <3>1
  <2> QED  BY <2>1, <2>2, <2>3, <2>4 DEF Ops
<1> QED  BY <1>1, <1>2

\* A row loaded into a fresh struct is the struct.
LEMMA ScannedFresh ==
    ASSUME NEW row \in Row
    PROVE  Scanned(EmptyRow, row) = row
BY DEF Scanned, EmptyRow, Row

LEMMA RecordAfterStructStep ==
    ASSUME TypeOK, CarefulUse, NEW c \in Clients, StructStep(c),
           NoBaseline(c), dropped[c] = "no" => OnRecord(c)
    PROVE  dropped'[c] = "no" => OnRecord(c)'
<1>1. CASE NewStruct(c)
  BY <1>1 DEF NewStruct, Forget, OnRecord, TypeOK
<1>6. ASSUME NEW id \in Ids, AssignKey(c, id)
      PROVE  dropped'[c] = "no" => OnRecord(c)'
  <2>1. clean'[c] = FALSE /\ UNCHANGED <<exists, cur, orig, known, dropped>>
    BY <1>6 DEF AssignKey, TypeOK
  <2> QED  BY <2>1 DEF OnRecord, BaselineCurrent
<1>2. ASSUME NEW col \in DataCols, NEW v \in Vals, Assign(c, col, v)
      PROVE  dropped'[c] = "no" => OnRecord(c)'
  <2>1. dropped[c] = "no" => OnRecord(c)'
    <3> SUFFICES ASSUME OnRecord(c) PROVE OnRecord(c)'
      BY DEF TypeOK
    <3>1. /\ clean'[c] = FALSE
          /\ UNCHANGED <<pk, exists, orig, known>>
      BY <1>2 DEF Assign, TypeOK
    <3>2. SoftDeletes => cur'[c][DeletedAt] = cur[c][DeletedAt]
      <4>1. col # DeletedAt
        BY ConstantsAssumption
      <4>2. cur' = [cur EXCEPT ![c] = [cur[c] EXCEPT ![col] = v]]
        BY <1>2 DEF Assign
      <4>3. cur[c] \in [Columns -> Values] /\ cur'[c] = [cur[c] EXCEPT ![col] = v]
        BY <4>2 DEF TypeOK, Row
      <4>4. SoftDeletes => DeletedAt \in Columns
        BY DEF Columns
      <4> QED  BY <4>1, <4>3, <4>4
    <3> QED  BY <3>1, <3>2 DEF OnRecord, BaselineCurrent
  <2> QED  BY <1>2, <2>1 DEF Assign
<1>3. \A col \in DataCols, v \in Vals : ~MutateInPlace(c, col, v)
  BY DEF MutateInPlace, CarefulUse
<1>4. \A id \in Ids : ~Reload(c, id)
  BY DEF Reload, CarefulUse
<1>5. ASSUME NEW id \in Ids, Load(c, id)
      PROVE  OnRecord(c)'
  <2> DEFINE row == View(c)[id]
  <2>1. row \in Row /\ row # NoRow
    BY <1>5, OfferedRows DEF Load, LoadInto
  <2>2. Scanned(EmptyRow, row) = row
    BY <2>1, ScannedFresh
  <2>3. /\ cur'[c] = row
        /\ known'[c] = row
        /\ c \in Tracked => exists'[c] /\ orig'[c] = row
        /\ c \notin Tracked => orig'[c] = orig[c]
    BY <1>5, <2>2 DEF Load, LoadInto, MarkPersisted, Forget, Ids, TypeOK
  <2> QED  BY <2>1, <2>3 DEF NoBaseline, OnRecord,
                                BaselineCurrent
<1> QED  BY <1>1, <1>2, <1>3, <1>4, <1>5, <1>6 DEF StructStep

\* A hook assigns only columns of the data: the record misses nothing but that
\* the struct is no longer clean.
LEMMA RecordAfterHook ==
    ASSUME TypeOK, NEW c \in Clients, OnRecord(c),
           NEW col \in DataCols, NEW v \in Vals, HookAssigns(c, col, v)
    PROVE  OnRecord(c)'
<1>1. /\ clean'[c] = FALSE
      /\ UNCHANGED <<pk, exists, orig, known>>
  BY DEF HookAssigns, TypeOK
<1>2. SoftDeletes => cur'[c][DeletedAt] = cur[c][DeletedAt]
  <2>1. col # DeletedAt
    BY ConstantsAssumption
  <2>2. cur' = [cur EXCEPT ![c] = [cur[c] EXCEPT ![col] = v]]
    BY DEF HookAssigns
  <2>3. cur[c] \in [Columns -> Values] /\ cur'[c] = [cur[c] EXCEPT ![col] = v]
    BY <2>2 DEF TypeOK, Row
  <2>4. SoftDeletes => DeletedAt \in Columns
    BY DEF Columns
  <2> QED  BY <2>1, <2>3, <2>4
<1> QED  BY <1>1, <1>2 DEF OnRecord, BaselineCurrent

\* Insert: the row is the struct, and so is the baseline.
LEMMA RecordAfterInsert ==
    ASSUME TypeOK, NEW c \in Clients, NoBaseline(c), InsertRow(c)
    PROVE  OnRecord(c)'
<1>1. cur[c] \in Row /\ cur[c] # NoRow
  BY SentinelAssumption DEF TypeOK
<1>2. /\ cur'[c] = cur[c] /\ known'[c] = cur[c]
      /\ c \in Tracked => exists'[c] /\ orig'[c] = cur[c]
  BY DEF InsertRow, Learn, MarkPersisted, TypeOK
<1> QED  BY <1>1, <1>2 DEF OnRecord, BaselineCurrent

\* Update: the columns written are those the struct changed; in the others the
\* struct had the row's values, so that now it is the row as it knows it.
LEMMA RecordAfterUpdate ==
    ASSUME TypeOK, NEW c \in Clients, NoBaseline(c), OnRecord(c),
           UpdateRow(c) \/ UpdateNothing(c), op[c] = "update" => Updatable(c)
    PROVE  OnRecord(c)'
<1>1. known[c] # NoRow /\ BaselineCurrent(c)
  <2>1. known[c] # NoRow
    BY StagesOfCalls DEF UpdateRow, UpdateNothing, Updatable
  <2> QED  BY <2>1 DEF OnRecord
<1>2. /\ known[c] \in [Columns -> Values]
      /\ cur[c] \in [Columns -> Values]
      /\ orig[c] # NoRow => orig[c] \in [Columns -> Values]
  BY <1>1 DEF TypeOK, Row
<1>3. orig[c] # NoRow => c \in Tracked
  BY DEF NoBaseline
<1>4. \A col \in Columns : col \notin Dirty(c) => cur[c][col] = known[c][col]
  <2> SUFFICES ASSUME NEW col \in Columns, col \notin Dirty(c)
               PROVE  cur[c][col] = known[c][col]
    OBVIOUS
  <2>1. orig[c] # NoRow /\ cur[c][col] = orig[c][col]
    BY DEF Dirty
  <2>2. CASE col \in DataCols
    BY <1>1, <1>3, <2>1, <2>2 DEF BaselineCurrent
  <2>3. CASE col \notin DataCols
    BY <1>1, <2>3 DEF BaselineCurrent, Columns
  <2> QED  BY <2>2, <2>3
<1>5. CASE UpdateRow(c)
  <2> DEFINE new == [col \in Columns |-> IF col \in Dirty(c)
                                         THEN cur[c][col] ELSE known[c][col]]
  <2>1. new = cur[c]
    BY <1>2, <1>4
  <2>2. known'[c] = cur[c]
    BY <1>1, <1>5, <2>1 DEF UpdateRow, LearnCols, Learn, TypeOK
  <2>3. cur[c] # NoRow
    BY SentinelAssumption DEF TypeOK
  <2>4. /\ cur' = cur
        /\ c \in Tracked => exists'[c] /\ orig'[c] = cur[c]
    BY <1>5 DEF UpdateRow, MarkPersisted, TypeOK
  <2> QED  BY <1>1, <2>2, <2>3, <2>4 DEF OnRecord, BaselineCurrent
<1>6. CASE UpdateNothing(c)
  <2>1. Dirty(c) = {}
    BY <1>6 DEF UpdateNothing
  <2>2. cur[c] = known[c]
    BY <1>2, <1>4, <2>1
  <2>3. UNCHANGED <<exists, cur, orig, known>>
    BY <1>6 DEF UpdateNothing, modelVars
  <2> QED  BY <2>2, <2>3 DEF OnRecord, BaselineCurrent
<1> QED  BY <1>5, <1>6

\* Restore: deleted_at is NULL in the row and on the struct.  A struct that does
\* not know its row still does not, and has no baseline.
LEMMA RecordAfterRestore ==
    ASSUME TypeOK, GuardsHold, NEW c \in Clients, OnRecord(c), RestoreRow(c)
    PROVE  OnRecord(c)'
<1>1. SoftDeletes /\ DeletedAt \in Columns
  BY Stages DEF RestoreRow, GuardsHold, Columns
<1>0. CASE known[c] = NoRow
  <2>1. ~clean[c]
    <3>1. cur[c] # NoRow
      BY SentinelAssumption DEF TypeOK
    <3> QED  BY <1>0, <3>1 DEF OnRecord, TypeOK
  <2>2. known'[c] = NoRow /\ UNCHANGED <<exists, orig, clean>>
    BY <1>0 DEF RestoreRow, LearnCols, Learn, TypeOK
  <2> QED  BY <1>0, <2>1, <2>2 DEF OnRecord
<1> SUFFICES ASSUME known[c] # NoRow PROVE OnRecord(c)'
  BY <1>0
<1>2. known[c] # NoRow /\ BaselineCurrent(c)
  BY DEF OnRecord
<1>3. /\ known[c] \in [Columns -> Values] /\ known[c] \in Row
      /\ cur[c] \in [Columns -> Values]
  BY <1>2 DEF TypeOK, Row
<1> DEFINE new == [col \in Columns |-> IF col \in {DeletedAt}
                                       THEN EmptyRow[col] ELSE known[c][col]]
<1>4. known'[c] = new
  BY <1>2 DEF RestoreRow, LearnCols, Learn, TypeOK
<1>5. cur' = [cur EXCEPT ![c] = [cur[c] EXCEPT ![DeletedAt] = NULL]]
  BY DEF RestoreRow
<1>6. cur'[c] = [cur[c] EXCEPT ![DeletedAt] = NULL]
  BY <1>5 DEF TypeOK
<1>7. new \in Row /\ new # NoRow
  BY <1>3, NoValues, SentinelAssumption DEF Row
<1>8. /\ new[DeletedAt] = NULL
      /\ \A col \in DataCols : new[col] = known[c][col]
  BY <1>1, ConstantsAssumption DEF EmptyRow, Columns
<1>9. UNCHANGED <<exists, orig, clean>>
  BY DEF RestoreRow
<1>10. clean[c] => cur'[c] = new
  <2> SUFFICES ASSUME cur[c] = known[c] PROVE cur'[c] = new
    BY DEF OnRecord
  <2> QED  BY <1>3, <1>6 DEF EmptyRow
<1>11. cur'[c][DeletedAt] = NULL
  BY <1>1, <1>3, <1>6
<1>12. /\ known'[c] # NoRow
       /\ clean'[c] => cur'[c] = known'[c]
       /\ BaselineCurrent(c)'
  BY <1>1, <1>2, <1>4, <1>7, <1>8, <1>9, <1>10, <1>11 DEF BaselineCurrent
<1> QED  BY <1>12 DEF OnRecord

LEMMA RecordAfterCallStep ==
    ASSUME TypeOK, GuardsHold, NEW c \in Clients, CallStep(c), NoBaseline(c),
           dropped[c] = "no" => OnRecord(c), op[c] = "update" => Updatable(c)
    PROVE  dropped'[c] = "no" => OnRecord(c)'
<1>1. ASSUME NEW o \in Ops, Call(c, o)
      PROVE  dropped'[c] = "no" => OnRecord(c)'
  BY <1>1 DEF Call, modelVars, ghostVars, OnRecord, BaselineCurrent
<1>2. SaveOp(c) \in Ops
  BY DEF SaveOp, Ops
<1>3. CASE Save(c) \/ Insert(c) \/ Update(c) \/ Delete(c) \/ ForceDelete(c)
           \/ Restore(c)
  BY <1>1, <1>2, <1>3 DEF Save, Insert, Update, Delete, ForceDelete, Restore,
                          Ops
<1>4. CASE HookSucceeds(c) \/ HookFails(c) \/ StatementFails(c)
  BY <1>4, RecordKept DEF HookSucceeds, HookFails, StatementFails, modelVars,
                          ghostVars, StructOf
<1>5. ASSUME NEW col \in DataCols, NEW v \in Vals, HookAssigns(c, col, v)
      PROVE  dropped'[c] = "no" => OnRecord(c)'
  BY <1>5, RecordAfterHook DEF HookAssigns
<1>6. CASE InsertRow(c)
  BY <1>6, RecordAfterInsert
<1>7. CASE UpdateRow(c) \/ UpdateNothing(c)
  BY <1>7, RecordAfterUpdate DEF UpdateRow, UpdateNothing
<1>8. CASE RestoreRow(c)
  BY <1>8, RecordAfterRestore DEF RestoreRow
<1>9. CASE HardDeleteRow(c) \/ \E t \in Times : SoftDeleteRow(c, t)
  BY <1>9 DEF HardDeleteRow, SoftDeleteRow, TypeOK
<1> QED  BY <1>3, <1>4, <1>5, <1>6, <1>7, <1>8, <1>9 DEF CallStep

LEMMA RecordAfterTxStep ==
    ASSUME TypeOK, NEW c \in Clients, TxStep(c),
           dropped[c] = "no" => OnRecord(c)
    PROVE  dropped'[c] = "no" => OnRecord(c)'
<1>1. CASE Rollback(c)
  BY <1>1 DEF Rollback, TypeOK
<1>2. CASE ~Rollback(c)
  BY <1>2, RecordKept DEF TxStep, Begin, FnEnds, Commit, modelVars, ghostVars,
                          StructOf
<1> QED  BY <1>1, <1>2

\* A call of Update in progress has a struct that was loaded or saved and not
\* dropped: Call refuses another, the deletes are other calls, and a rollback or
\* a new struct finds the client idle.
LEMMA UpdatesUpdatable ==
    ASSUME TypeOK, StatementsInScope, CarefulUse, NEW c \in Clients,
           StructStep(c) \/ CallStep(c) \/ TxStep(c),
           op[c] = "update" => Updatable(c)
    PROVE  op'[c] = "update" => Updatable(c)'
<1>1. CASE StructStep(c)
  <2>1. op[c] # "update" /\ op' = op
    BY <1>1 DEF StructStep, NewStruct, AssignKey, Assign, MutateInPlace, Load,
                Reload, LoadInto, Running, Idle
  <2> QED  BY <2>1
<1>2. CASE TxStep(c)
  <2>1. Rollback(c) => op[c] # "update" /\ op' = op
    BY DEF Rollback, StatementsInScope, Idle
  <2> QED  BY <1>2, <2>1 DEF TxStep, Begin, FnEnds, Return, Commit, ghostVars,
                             TypeOK, Updatable
<1>3. ASSUME NEW o \in Ops, Call(c, o)
      PROVE  op'[c] = "update" => Updatable(c)'
  BY <1>3 DEF Call, Start, Usable, CarefulUse, ghostVars, TypeOK, Updatable
<1>4. CASE CallStep(c)
  <2>1. SaveOp(c) \in Ops
    BY DEF SaveOp, Ops
  <2>2. CASE Save(c) \/ Insert(c) \/ Update(c) \/ Delete(c) \/ ForceDelete(c)
             \/ Restore(c)
    BY <1>3, <2>1, <2>2 DEF Save, Insert, Update, Delete, ForceDelete, Restore,
                            Ops
  <2>3. CASE Advance(c) \/ Return(c)
    <3>1. op'[c] = "update" => op[c] = "update"
      BY <2>3 DEF Advance, Return, TypeOK
    <3>2. CASE op[c] = "update" /\ (InsertRow(c) \/ UpdateRow(c) \/ RestoreRow(c))
      <4>1. known[c] \in Row /\ cur[c] \in Row
        BY <3>2 DEF Updatable, TypeOK
      <4>2. known'[c] # NoRow /\ UNCHANGED dropped
        <5>1. \A cols : \A row \in Row :
                 [col \in Columns |-> IF col \in cols THEN row[col]
                                      ELSE known[c][col]] \in Row
          BY <4>1 DEF Row
        <5>2. /\ UNCHANGED dropped
              /\ \/ Learn(c, cur[c])
                 \/ \E cols : \E row \in Row : LearnCols(c, cols, row)
          BY <3>2, <4>1, NoValues DEF InsertRow, UpdateRow, RestoreRow
        <5>3. PICK row \in Row : Learn(c, row)
          BY <4>1, <5>1, <5>2, SentinelAssumption DEF LearnCols
        <5> QED  BY <5>2, <5>3, SentinelAssumption DEF Learn, TypeOK
      <4> QED  BY <3>2, <4>2 DEF Updatable
    <3>3. CASE op[c] = "update" /\ ~InsertRow(c) /\ ~UpdateRow(c) /\ ~RestoreRow(c)
      <4>1. UNCHANGED <<known, dropped>>
        BY <1>4, <3>3, StagesOfCalls DEF CallStep, Save, Insert, Update, Delete,
           ForceDelete, Restore, Call, HookSucceeds, HookFails, StatementFails,
           UpdateNothing, HookAssigns, SoftDeleteRow, HardDeleteRow, ghostVars
      <4> QED  BY <3>3, <4>1 DEF Updatable
    <3> QED  BY <3>1, <3>2, <3>3
  <2> QED
    BY <1>4, <2>2, <2>3 DEF CallStep, HookSucceeds, HookFails, StatementFails,
       UpdateNothing, HookAssigns, InsertRow, UpdateRow, SoftDeleteRow,
       HardDeleteRow, RestoreRow
<1> QED  BY <1>1, <1>2, <1>4

LEMMA RecordInit == Init => StructsOnRecord
BY SentinelAssumption DEF Init, StructsOnRecord, OnRecord, NoBaseline

LEMMA RecordStep ==
    ASSUME CarefulUse, TypeOK, GuardsHold, StatementsInScope, StructsOnRecord,
           [Next]_vars
    PROVE  StructsOnRecord'
<1>1. CASE UNCHANGED vars
  BY <1>1 DEF vars, modelVars, ghostVars, StructsOnRecord, OnRecord,
              BaselineCurrent, NoBaseline, Updatable
<1>2. ASSUME NEW c \in Clients, StructStep(c) \/ CallStep(c) \/ TxStep(c),
             NEW d \in Clients
      PROVE  /\ NoBaseline(d)'
             /\ dropped'[d] = "no" => OnRecord(d)'
             /\ op'[d] = "update" => Updatable(d)'
  <2>1. CASE d = c
    <3>1. /\ NoBaseline(c)
          /\ dropped[c] = "no" => OnRecord(c)
          /\ op[c] = "update" => Updatable(c)
      BY DEF StructsOnRecord
    <3>2. NoBaseline(c)'
      BY <1>2, <3>1, NoBaselineKept
    <3>3. op'[c] = "update" => Updatable(c)'
      BY <1>2, <3>1, UpdatesUpdatable
    <3>4. dropped'[c] = "no" => OnRecord(c)'
      BY <1>2, <3>1, RecordAfterStructStep, RecordAfterCallStep,
         RecordAfterTxStep
    <3> QED  BY <2>1, <3>2, <3>3, <3>4
  <2>2. CASE d # c
    <3>1. StructOf(d)' = StructOf(d) /\ op'[d] = op[d]
      BY <1>2, <2>2, OthersKept
    <3>2. /\ NoBaseline(d)
          /\ dropped[d] = "no" => OnRecord(d)
          /\ op[d] = "update" => Updatable(d)
      BY DEF StructsOnRecord
    <3>3. dropped'[d] = dropped[d] /\ orig'[d] = orig[d] /\ known'[d] = known[d]
      BY <3>1 DEF StructOf
    <3> QED  BY <3>1, <3>2, <3>3, RecordKept DEF NoBaseline, Updatable
  <2> QED  BY <2>1, <2>2
<1> QED  BY <1>1, <1>2 DEF Next, StructsOnRecord

LEMMA InScope == Spec => []StatementsInScope
<1>1. Init => StatementsInScope
  BY DEF Init, StatementsInScope, Idle
<1> QED  BY <1>1, ScopeStep, PTL DEF Spec

LEMMA RecordKeptAlways == ASSUME CarefulUse PROVE Spec => []StructsOnRecord
<1>1. TypeOK /\ GuardsHold /\ StatementsInScope /\ StructsOnRecord /\ [Next]_vars
      => StructsOnRecord'
  BY RecordStep
<1> QED  BY <1>1, RecordInit, TypeCorrect, InScope, PTL DEF Spec

\* With structs used with care, after any sequence of calls, failing hooks,
\* failing statements and transactions, the exists flag of a struct says
\* whether its row exists, so that Save takes the right one of its two ways.
THEOREM ExistsIsTruthful ==
    ASSUME CarefulUse
    PROVE  Spec => []ExistsTruthful
<1>1. TypeOK /\ StructsOnRecord => ExistsTruthful
  <2> SUFFICES ASSUME TypeOK, StructsOnRecord, NEW c \in Tracked, Usable(c)
               PROVE  exists[c] <=> known[c] # NoRow
    BY DEF ExistsTruthful
  <2>1. c \in Clients
    BY ConstantsAssumption
  <2>2. dropped[c] = "no"
    <3>1. Habits[c] \subseteq {"goexit", "assignKey"}
      BY <2>1 DEF CarefulUse
    <3>2. dropped[c] \in {"no", "rolledBack", "deleted"}
      BY <2>1 DEF TypeOK
    <3> QED  BY <3>1, <3>2 DEF Usable
  <2>3. OnRecord(c)
    BY <2>1, <2>2 DEF StructsOnRecord
  <2>4. CASE known[c] = NoRow
    BY <2>3, <2>4 DEF OnRecord
  <2>5. CASE known[c] # NoRow
    BY <2>3, <2>5 DEF OnRecord, BaselineCurrent
  <2> QED  BY <2>4, <2>5
<1> QED  BY <1>1, TypeCorrect, RecordKeptAlways, PTL

\* With structs used with care, a struct that was loaded or saved and not
\* assigned since is its row: the dirty check forgets no assignment, whether
\* the application or a Before hook made it.
THEOREM SavedIsStored ==
    ASSUME CarefulUse
    PROVE  Spec => []SavedMeansStored
<1>1. TypeOK /\ StructsOnRecord => SavedMeansStored
  <2> SUFFICES ASSUME TypeOK, StructsOnRecord, NEW c \in Clients, clean[c],
                      Usable(c)
               PROVE  cur[c] = known[c]
    BY DEF SavedMeansStored
  <2>1. dropped[c] = "no"
    BY DEF Usable, CarefulUse, TypeOK
  <2> QED  BY <2>1 DEF StructsOnRecord, OnRecord
<1> QED  BY <1>1, TypeCorrect, RecordKeptAlways, PTL

\* A statement's row as the statement's client sees it next: the row stored, or,
\* outside DB.Tx under an uncommitted row of its own, what it saw before.
LEMMA ViewAfterStore ==
    ASSUME TypeOK, NEW c \in Clients, NEW id \in Ids, NEW row \in Row \cup {NoRow},
           Store(c, id, row), NEW i \in Ids
    PROVE  View(c)'[i] = View(c)[i] \/ (i = id /\ View(c)'[i] = row)
<1>1. CASE InTx(c)
  <2>1. pending' = [pending EXCEPT ![c] = [pending[c] EXCEPT ![id] = row]]
        /\ rows' = rows
    BY <1>1 DEF Store
  <2>2. pending[c] \in [Ids -> Row \cup {NoRow, Clean}]
    BY DEF TypeOK
  <2>3. pending'[c] = [pending[c] EXCEPT ![id] = row]
    BY <2>1 DEF TypeOK
  <2>4. row # Clean
    BY SentinelAssumption
  <2>5. pending'[c][id] = row /\ (i # id => pending'[c][i] = pending[c][i])
    BY <2>2, <2>3
  <2> QED  BY <2>1, <2>4, <2>5 DEF View
<1>2. CASE ~InTx(c)
  BY <1>2 DEF Store, View, TypeOK
<1> QED  BY <1>1, <1>2

LEMMA WritesOnlyChanges ==
    ASSUME TypeOK, GuardsHold, NEW c \in Tracked, c \in Clients, OnRecord(c),
           UpdateRow(c), NEW id \in Ids, NEW col \in DataCols
    PROVE  ~Overwrites(c, id, col)
<1> SUFFICES ASSUME known[c] # NoRow, View(c)[id] # NoRow,
                    cur[c][col] = known[c][col]
             PROVE  View(c)[id][col] = View(c)'[id][col]
  BY DEF Overwrites
<1>1. col \in Columns /\ col \notin Dirty(c)
  BY DEF Columns, Dirty, OnRecord, BaselineCurrent
<1>2. pk[c] \in Ids
  <2>1. pk[c] # 0 /\ pk[c] \in 0 .. MaxId
    BY StagesOfCalls DEF UpdateRow, GuardsHold, TypeOK
  <2> QED  BY <2>1, ConstantsAssumption DEF Ids
<1> DEFINE new == [k \in Columns |-> IF k \in Dirty(c) THEN cur[c][k]
                                     ELSE View(c)[pk[c]][k]]
<1>3. CASE View(c)[pk[c]] = NoRow
  BY <1>3 DEF UpdateRow, UpdateWhere, View
<1>4. CASE View(c)[pk[c]] # NoRow
  <2>1. Store(c, pk[c], new)
    BY <1>4 DEF UpdateRow, UpdateWhere
  <2>2. new \in Row
    <3>1. View(c)[pk[c]] \in Row /\ cur[c] \in Row
      BY <1>2, <1>4, OfferedRows DEF TypeOK
    <3> QED  BY <3>1 DEF Row
  <2>3. new[col] = View(c)[pk[c]][col]
    BY <1>1
  <2>4. View(c)'[id] = View(c)[id] \/ (id = pk[c] /\ View(c)'[id] = new)
    BY <1>2, <2>1, <2>2, ViewAfterStore
  <2> QED  BY <2>3, <2>4
<1> QED  BY <1>3, <1>4

\* With structs used with care, the UPDATE of a struct that embeds
\* playsql.Model leaves alone every column that holds, on the struct, what the
\* struct last read or wrote there: what another client stored in it since the
\* load survives.
THEOREM OnlyChangesAreWritten ==
    ASSUME CarefulUse
    PROVE  Spec => OnlyChangedColumnsWritten
<1>1. TypeOK /\ GuardsHold /\ StructsOnRecord /\ [Next]_vars
      => [\A c \in Tracked, id \in Ids, col \in DataCols :
            ~Overwrites(c, id, col)]_vars
  <2> SUFFICES ASSUME TypeOK, GuardsHold, StructsOnRecord, Next,
                      NEW c \in Tracked, NEW id \in Ids, NEW col \in DataCols
               PROVE  ~Overwrites(c, id, col)
    OBVIOUS
  <2>1. PICK d \in Clients : StructStep(d) \/ CallStep(d) \/ TxStep(d)
    BY DEF Next
  <2>2. c \in Clients
    BY ConstantsAssumption
  <2>3. CASE c # d
    BY <2>1, <2>2, <2>3, OthersKept DEF Overwrites
  <2>4. CASE c = d
    <3> SUFFICES ASSUME Stage(c) = "UpdateRow", op[c] # op'[c] \/ at[c] # at'[c],
                        View(c) # View(c)'
                 PROVE  ~Overwrites(c, id, col)
      BY DEF Overwrites
    <3>1. ~Idle(c) /\ op[c] = "update"
      BY <2>2, StagesOfCalls DEF Stage
    <3>2. OnRecord(c)
      BY <2>2, <3>1 DEF StructsOnRecord, Updatable
    <3>3. ~StructStep(c) /\ ~TxStep(c)
      <4>1. ~UNCHANGED <<rows, pending>>
        BY DEF View
      <4>2. ~UNCHANGED <<op, at>>
        OBVIOUS
      <4> QED  BY <4>1, <4>2 DEF StructStep, NewStruct, AssignKey, Assign,
                  MutateInPlace, Load, Reload, LoadInto, TxStep, Begin, FnEnds, Commit,
                  Rollback, dbVars
    <3>4. CASE UpdateRow(c)
      BY <2>2, <3>2, <3>4, WritesOnlyChanges
    <3>5. CASE CallStep(c) /\ ~UpdateRow(c)
      <4>1. "UpdateRow" \notin Hooks
        BY DEF Hooks
      <4>2. ~UNCHANGED <<rows, pending>>
        BY DEF View
      <4> QED
        BY <3>5, <4>1, <4>2 DEF CallStep, Save, Insert, Update, Delete,
           ForceDelete, Restore, Call, HookSucceeds, HookFails, StatementFails,
           UpdateNothing, HookAssigns, InsertRow, SoftDeleteRow, HardDeleteRow,
           RestoreRow, dbVars
    <3> QED  BY <2>1, <2>4, <3>3, <3>4, <3>5
  <2> QED  BY <2>3, <2>4
<1> QED
  BY <1>1, TypeCorrect, RecordKeptAlways, PTL DEF Spec, OnlyChangedColumnsWritten
=============================================================================
