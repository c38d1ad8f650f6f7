SPECIFICATION Spec
CONSTANTS
    a1 = a1
    a2 = a2
    a3 = a3
    usd = usd
    brl = brl
    Null = Null
    NoRow = NoRow
    Nobody = Nobody
    Accounts = {a1, a2}
    Currencies = {usd, brl}
    OpeningRows <- TwoAccounts
    MaxCents = 3
    Amounts <- MixedAmounts
    Sessions = {s1, s2}
    Interactive = {s2}
    MaxLedger = 1
INVARIANTS
    ChangesAreLocked
    CheckStillHolds
    LedgerAccountsExist
    ReadsAreCurrent
    OpenChanges
    IInv
PROPERTIES
    ImplementsBank
