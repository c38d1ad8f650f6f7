SPECIFICATION Spec
CONSTANTS
    a1 = a1
    a2 = a2
    a3 = a3
    usd = usd
    brl = brl
    Null = Null
    NoRow = NoRow
    Nobody = Nobody
    Accounts = {a1, a2}
    Currencies = {usd, brl}
    OpeningRows <- TwoAccounts
    MaxCents = 3
    Amounts = {20}
    Sessions = {s1}
    Interactive = {s1}
    MaxLedger = 1
INVARIANTS
    ZeroBalanceDeletable
