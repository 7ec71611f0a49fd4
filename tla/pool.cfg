SPECIFICATION FairSpec
CONSTANTS
    c1 = c1
    c2 = c2
    a1 = a1
    a2 = a2
    b1 = b1
    big = big
    small = small
    Clients = {c1, c2}
    Pools = {big, small}
    Conns = {a1, a2, b1}
    PoolOf <- TwoPools
    Calls <- SomeCalls
    Nests <- OneNests
    Nothing = Nothing
INVARIANTS TypeOK NoConnectionLeaked NoStatementUnderOpenRows RightConnection ClosureAllOrNothing
PROPERTIES CallsReturn
