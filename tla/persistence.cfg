SPECIFICATION Spec
CONSTANTS
    Clients = {c1, c2}
    TxClients = {c1}
    DataCols = {a}
    DeletedAt = deleted_at
    Vals = {v1}
    Times = {t1}
    NULL = NULL
    NoRow = NoRow
    Clean = Clean
    MaxId = 1
    Tracked = {c1}
    Incrementing = {c1, c2}
    Signed = {c1, c2}
    IdLost = {c1, c2}
    SoftDeletes = TRUE
    Habits <- Careful
INVARIANTS TypeOK SavedMeansStored ExistsTruthful
PROPERTIES OnlyChangedColumnsWritten OnlySuccessfulTxPublishes
