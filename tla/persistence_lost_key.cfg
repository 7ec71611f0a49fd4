SPECIFICATION Spec
CONSTANTS
    Clients = {c1}
    TxClients = {}
    DataCols = {a}
    DeletedAt = deleted_at
    Vals = {v1}
    Times = {t1}
    NULL = NULL
    NoRow = NoRow
    Clean = Clean
    MaxId = 2
    Tracked = {}
    Incrementing = {c1}
    Signed = {}
    IdLost = {}
    SoftDeletes = FALSE
    Habits <- Careful
INVARIANTS AtMostOneRow
