SPECIFICATION Spec
CONSTANTS
    Clients = {c1}
    TxClients = {c1}
    DataCols = {a}
    DeletedAt = deleted_at
    Vals = {v1}
    Times = {t1}
    NULL = NULL
    NoRow = NoRow
    Clean = Clean
    MaxId = 2
    Tracked = {c1}
    Incrementing = {c1}
    Signed = {c1}
    IdLost = {}
    SoftDeletes = TRUE
    Habits <- Careless
INVARIANTS AtMostOneRow
