SPECIFICATION FairSpec
CONSTANTS
    a1 = a1
    a2 = a2
    a3 = a3
    usd = usd
    brl = brl
    Null = Null
    NoRow = NoRow
    Nobody = Nobody
    Accounts = {a1, a2, a3}
    Currencies = {usd}
    OpeningRows <- ThreeAccounts
    MaxCents = 3
    Amounts = {0, 4, 16, 30}
    Sessions = {s1, s2}
    Interactive = {}
    MaxLedger = 2
INVARIANTS
    TypeOK
    Reconciled
    MoneyConserved
PROPERTIES
    ImplementsBank
    NoOverdraft
    CallsEnd
