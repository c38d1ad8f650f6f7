SPECIFICATION Spec
CONSTANTS
    a1 = a1
    a2 = a2
    a3 = a3
    lost = lost
    Nobody = Nobody
    Clients = {c1, c2}
    Accounts = {a1, a2, a3}
    Unreadable = {a3}
    Commands <- AllCommands
    Opening <- Balances
    ExactBelow = 10
    MaxMoved = 2
INVARIANTS
    TypeOK
    ConnectionIsExclusive
    ServerInv
PROPERTIES
    ImplementsPromise
    Answered
