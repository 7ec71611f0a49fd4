SPECIFICATION FairSpec
CONSTANTS
    st1 = st1
    st2 = st2
    st3 = st3
    sc1 = sc1
    Statements = {st1, st2, st3}
    db1 = db1
    db2 = db2
    DBs = {db1, db2}
    Scopes = {sc1}
    Untracked = Untracked
    Durations = {1, 2}
    Sends <- RaceOfTwo
    Thresholds <- OneDB
    Querying <- FirstQueries
    Resetting = {db2}
    Nobody = Nobody
INVARIANTS TypeOK ScopeCoherent SnapshotsCoherent HandlersFireOnce DueHandlersFire TippingStatementReported LifetimeTotals
PROPERTIES StatementsReturn
