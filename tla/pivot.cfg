SPECIFICATION Spec
CONSTANTS
    Clients = {c1, c2}
    TxClients = {c1}
    Parents <- Morph
    Owner <- Post
    Related = {1, 2}
    Lists <- SomeLists
    Plain = Plain
    Notes = {n1}
    MaxCopies = 2
    Clean = Clean
    Lapsed = Lapsed
INVARIANTS TypeOK DoneAsPromised FailedHalfway
PROPERTIES OtherParentsUntouched
