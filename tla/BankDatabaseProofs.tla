-------------------------- MODULE BankDatabaseProofs --------------------------
(* Proofs about BankDatabase, for every value of its constants. *)
EXTENDS BankDatabase, FunctionSums, TLAPS

LEMMA ToCentsInt == \A m \in Int : ToCents(m) \in Int
BY DEF ToCents, Mills

LEMMA ToCentsMonotone ==
    \A m \in Int, b \in Int : m > 0 /\ m <= Mills * b => ToCents(m) >= 0 /\ ToCents(m) <= b
BY DEF ToCents, Mills

LEMMA ToCentsSplit ==
    ASSUME NEW b \in Int, NEW m \in Int, m > 0, ~IsTie(m)
    PROVE  /\ ToCents(Mills * b - m) = b - ToCents(m)
           /\ ToCents(Mills * b + m) = b + ToCents(m)
BY SMTT(60) DEF ToCents, Mills, IsTie

LEMMA ToCentsBounds ==
    ASSUME NEW b \in Int, NEW m \in Int, m > 0
    PROVE  /\ m <= Mills * b => ToCents(Mills * b - m) >= 0
           /\ ToCents(Mills * b + m) >= b
BY DEF ToCents, Mills

------------------------------------------------------------------------------
(* What a step of one session leaves alone for another session x. *)

Untouched(x) ==
    /\ pc'[x] = pc[x] /\ call'[x] = call[x] /\ ver'[x] = ver[x]
    /\ flag'[x] = flag[x] /\ recorded'[x] = recorded[x]
    /\ \A a \in Accounts : lock[a] = x =>
          lock'[a] = x /\ work'[a] = work[a] /\ accounts'[a] = accounts[a]

LEMMA UntouchedKeeps ==
    ASSUME TypeOK, NEW x \in Sessions, Untouched(x), ReadsCurrent(x), CheckHolds(x)
    PROVE  ReadsCurrent(x)' /\ CheckHolds(x)'
<1>1. call[x].from \in Accounts /\ call[x].to \in Accounts
  BY DEF TypeOK, Call
<1>2. ReadsCurrent(x)'
  BY <1>1 DEF Untouched, ReadsCurrent, Holds
<1>3. CheckHolds(x)'
  BY <1>1 DEF Untouched, CheckHolds
<1> QED BY <1>2, <1>3

\* A step of s that leaves every other session alone, and takes no row of
\* another, has to be examined for s only.
LEMMA OthersKeep ==
    ASSUME TypeOK, ReadsAreCurrent, CheckStillHolds, OpenChanges, NEW s \in Sessions,
           \A x \in Sessions \ {s} : Untouched(x),
           \A a \in Accounts : lock'[a] \in {s, Nobody, lock[a]},
           ReadsCurrent(s)', CheckHolds(s)', \A a \in Accounts : ChangedBy(s, a)'
    PROVE  ReadsAreCurrent' /\ CheckStillHolds' /\ OpenChanges'
<1>1. ReadsAreCurrent' /\ CheckStillHolds'
  BY UntouchedKeeps DEF ReadsAreCurrent, CheckStillHolds
<1>2. \A x \in Sessions \ {s}, a \in Accounts : ChangedBy(x, a)'
  BY ConstantsAssumption DEF Untouched, OpenChanges, ChangedBy, AfterDebit, AfterCredit
<1> QED BY <1>1, <1>2 DEF OpenChanges

------------------------------------------------------------------------------
(* One lemma per action: it preserves the inductive invariant. *)

LEMMA BeginInv ==
    ASSUME IInv, NEW s \in Sessions, Begin(s)
    PROVE  IInv'
<1> USE DEF Begin, IInv, rows, entries
<1>1. TypeOK'
  BY DEF TypeOK, Steps
<1>2. StepFacts'
  BY DEF TypeOK, StepFacts, EntryOf
<1>3. ChangesAreLocked'
  BY DEF TypeOK, ChangesAreLocked
<1>4. /\ \A x \in Sessions \ {s} : Untouched(x)
     /\ \A b \in Accounts : lock'[b] \in {s, Nobody, lock[b]}
  BY DEF TypeOK, Untouched
<1>5. ReadsCurrent(s)' /\ CheckHolds(s)'
  BY DEF TypeOK, ReadsCurrent, CheckStillHolds, CheckHolds
<1>6. \A b \in Accounts : ChangedBy(s, b)'
  BY DEF TypeOK, OpenChanges, ChangedBy, ChangesAreLocked, AfterDebit, AfterCredit
<1>7. LedgerAccountsExist'
  BY DEF TypeOK, LedgerAccountsExist, EntryOf
<1> QED BY <1>1, <1>2, <1>3, <1>4, <1>5, <1>6, <1>7, OthersKeep

LEMMA RollbackInv ==
    ASSUME IInv, NEW s \in Sessions, Rollback(s)
    PROVE  IInv'
<1> USE ConstantsAssumption DEF Rollback, End, ReleaseLocks, ResetSetting, IInv
<1>0. NoCall \in Call /\ NoVer \in Ver
  BY DEF NoCall, NoVer, Ver, Cents
<1>1. TypeOK'
  BY <1>0 DEF TypeOK, Steps, Rows
<1>2. StepFacts'
  BY DEF TypeOK, StepFacts, EntryOf
<1>3. ChangesAreLocked'
  BY DEF TypeOK, ChangesAreLocked
<1>4. /\ \A x \in Sessions \ {s} : Untouched(x)
     /\ \A b \in Accounts : lock'[b] \in {s, Nobody, lock[b]}
  BY DEF TypeOK, Untouched
<1>5. ReadsCurrent(s)' /\ CheckHolds(s)'
  BY DEF TypeOK, ReadsCurrent, CheckHolds
<1>6. \A b \in Accounts : ChangedBy(s, b)'
  BY DEF TypeOK, OpenChanges, ChangedBy, ChangesAreLocked, AfterDebit, AfterCredit
<1>7. LedgerAccountsExist'
  BY DEF TypeOK, LedgerAccountsExist, EntryOf
<1> QED BY <1>1, <1>2, <1>3, <1>4, <1>5, <1>6, <1>7, OthersKeep

\* The entry a session has recorded is of a positive amount its source covers.
LEMMA EntryIsCovered ==
    ASSUME IInv, NEW s \in Sessions, recorded[s]
    PROVE  LET e == EntryOf(s) IN
           /\ e.from \in Accounts /\ e.to \in Accounts /\ e.cents \in Int
           /\ accounts[e.from] \in Row
           /\ 0 < e.cents /\ e.cents <= accounts[e.from].balance
<1> DEFINE from == call[s].from
           amount == call[s].amount
<1>1. from \in Accounts /\ call[s].to \in Accounts /\ amount \in Int
  BY ConstantsAssumption DEF IInv, TypeOK, Call
<1>2. amount > 0 /\ amount <= Mills * accounts[from].balance /\ accounts[from] # NoRow
  BY DEF IInv, CheckStillHolds, CheckHolds
<1>3. accounts[from] \in Row /\ accounts[from].balance \in Int
  BY <1>1, <1>2, ConstantsAssumption DEF IInv, TypeOK, Rows, Row, Cents
<1>4. ToCents(amount) \in Int /\ ToCents(amount) <= accounts[from].balance
  BY <1>1, <1>2, <1>3, ToCentsInt, ToCentsMonotone
<1> QED BY <1>1, <1>3, <1>4 DEF IInv, StepFacts, EntryOf

LEMMA CommitInv ==
    ASSUME IInv, NEW s \in Sessions, Commit(s)
    PROVE  IInv'
<1> USE ConstantsAssumption DEF Commit, End, ReleaseLocks, ResetSetting, IInv
<1>0. NoCall \in Call /\ NoVer \in Ver
  BY DEF NoCall, NoVer, Ver, Cents
<1>1. recorded[s] => EntryOf(s) \in Entry
  BY EntryIsCovered DEF EntryOf, Entry, Cents, Row
<1>2. TypeOK'
  BY <1>0, <1>1 DEF TypeOK, Steps, Rows
<1>3. StepFacts'
  BY DEF TypeOK, StepFacts, EntryOf
<1>4. ChangesAreLocked'
  BY DEF TypeOK, ChangesAreLocked
<1>5. /\ \A x \in Sessions \ {s} : Untouched(x)
     /\ \A b \in Accounts : lock'[b] \in {s, Nobody, lock[b]}
  BY DEF TypeOK, Untouched
<1>6. ReadsCurrent(s)' /\ CheckHolds(s)'
  BY DEF TypeOK, ReadsCurrent, CheckHolds
<1>7. \A b \in Accounts : ChangedBy(s, b)'
  BY DEF TypeOK, OpenChanges, ChangedBy, ChangesAreLocked, AfterDebit, AfterCredit
<1>8. LedgerAccountsExist'
  <2>1. \A x \in Sessions : recorded'[x] => recorded[x] /\ EntryOf(x)' = EntryOf(x)
    BY DEF TypeOK, EntryOf
  <2>2. \A i \in DOMAIN transactions' :
          \/ i \in DOMAIN transactions /\ transactions'[i] = transactions[i]
          \/ recorded[s] /\ transactions'[i] = EntryOf(s)
    BY <1>1 DEF TypeOK
  <2>3. \A a \in Accounts : work[a] # NoRow /\ accounts[a] # NoRow => work'[a] # NoRow /\ accounts'[a] # NoRow
    OBVIOUS
  <2> QED BY <2>1, <2>2, <2>3 DEF LedgerAccountsExist
<1> QED BY <1>2, <1>3, <1>4, <1>5, <1>6, <1>7, <1>8, OthersKeep

LEMMA CallTransferMoneyInv ==
    ASSUME IInv, NEW s \in Sessions, NEW c \in Call, CallTransferMoney(s, c)
    PROVE  IInv'
<1>1. CASE Rollback(s)
  BY <1>1, RollbackInv
<1>2. CASE ~Rollback(s)
  <2> USE <1>2 DEF CallTransferMoney, IInv, rows, entries
  <2>1. TypeOK'
    BY DEF TypeOK, Steps
  <2>2. StepFacts'
    BY ConstantsAssumption DEF TypeOK, StepFacts, EntryOf
  <2>3. ChangesAreLocked'
    BY DEF TypeOK, ChangesAreLocked
  <2>4. /\ \A x \in Sessions \ {s} : Untouched(x)
       /\ \A b \in Accounts : lock'[b] \in {s, Nobody, lock[b]}
    BY DEF TypeOK, Untouched
  <2>5. ReadsCurrent(s)' /\ CheckHolds(s)'
    BY DEF TypeOK, ReadsCurrent, CheckHolds
  <2>6. \A b \in Accounts : ChangedBy(s, b)'
    BY DEF TypeOK, OpenChanges, ChangedBy, ChangesAreLocked, AfterDebit, AfterCredit
  <2>7. LedgerAccountsExist'
    BY DEF TypeOK, LedgerAccountsExist, EntryOf
  <2> QED BY <2>1, <2>2, <2>3, <2>4, <2>5, <2>6, <2>7, OthersKeep
<1> QED BY <1>1, <1>2

LEMMA LockSourceInv ==
    ASSUME IInv, NEW s \in Sessions, LockSource(s)
    PROVE  IInv'
<1> USE DEF LockSource, Lock, Free, entries, IInv
<1>1. TypeOK'
  <2>1. call[s].from \in Accounts
    BY DEF TypeOK, Call
  <2>2. lock' \in [Accounts -> Sessions \cup {Nobody}]
    BY <2>1 DEF TypeOK
  <2>3. ver' \in [Sessions -> Ver]
    <3>1. CASE work[call[s].from] = NoRow
      BY <3>1 DEF TypeOK
    <3>2. CASE work[call[s].from] # NoRow
      <4>1. work[call[s].from] \in Row /\ ver[s] \in Ver
        BY <2>1, <3>2 DEF TypeOK, Rows
      <4>2. ver'[s] \in Ver /\ ver' = [ver EXCEPT ![s] = ver'[s]]
        BY <3>2, <4>1 DEF TypeOK, Row, Ver
      <4> QED BY <4>2 DEF TypeOK
    <3> QED BY <3>1, <3>2
  <2>4. pc' \in [Sessions -> Steps]
    BY DEF TypeOK, Steps
  <2> QED BY <2>2, <2>3, <2>4 DEF TypeOK
<1>2. StepFacts'
  BY DEF TypeOK, StepFacts, EntryOf, NoVer
<1>3. ChangesAreLocked'
  BY ConstantsAssumption DEF TypeOK, ChangesAreLocked
<1>4. /\ \A x \in Sessions \ {s} : Untouched(x)
     /\ \A b \in Accounts : lock'[b] \in {s, Nobody, lock[b]}
  BY ConstantsAssumption DEF TypeOK, Untouched
<1>5. ReadsCurrent(s)' /\ CheckHolds(s)'
  BY DEF TypeOK, ReadsCurrent, CheckHolds, StepFacts, Holds, NoVer, Call, Ver, Rows, Row
<1>6. \A b \in Accounts : ChangedBy(s, b)'
  BY DEF TypeOK, OpenChanges, ChangedBy, ChangesAreLocked, AfterDebit, AfterCredit, StepFacts
<1>7. LedgerAccountsExist'
  BY DEF TypeOK, LedgerAccountsExist, EntryOf
<1> QED BY <1>1, <1>2, <1>3, <1>4, <1>5, <1>6, <1>7, OthersKeep

LEMMA LockDestinationInv ==
    ASSUME IInv, NEW s \in Sessions, LockDestination(s)
    PROVE  IInv'
<1> USE DEF LockDestination, Lock, Free, entries, IInv
<1>1. TypeOK'
  <2>1. call[s].to \in Accounts
    BY DEF TypeOK, Call
  <2>2. lock' \in [Accounts -> Sessions \cup {Nobody}]
    BY <2>1 DEF TypeOK
  <2>3. ver' \in [Sessions -> Ver]
    <3>1. CASE work[call[s].to] = NoRow
      BY <3>1 DEF TypeOK
    <3>2. CASE work[call[s].to] # NoRow
      <4>1. work[call[s].to] \in Row /\ ver[s] \in Ver
        BY <2>1, <3>2 DEF TypeOK, Rows
      <4>2. ver'[s] \in Ver /\ ver' = [ver EXCEPT ![s] = ver'[s]]
        BY <3>2, <4>1 DEF TypeOK, Row, Ver
      <4> QED BY <4>2 DEF TypeOK
    <3> QED BY <3>1, <3>2
  <2>4. pc' \in [Sessions -> Steps]
    BY DEF TypeOK, Steps
  <2> QED BY <2>2, <2>3, <2>4 DEF TypeOK
<1>2. StepFacts'
  BY DEF TypeOK, StepFacts, EntryOf, NoVer
<1>3. ChangesAreLocked'
  BY ConstantsAssumption DEF TypeOK, ChangesAreLocked
<1>4. /\ \A x \in Sessions \ {s} : Untouched(x)
     /\ \A b \in Accounts : lock'[b] \in {s, Nobody, lock[b]}
  BY ConstantsAssumption DEF TypeOK, Untouched
<1>5. ReadsCurrent(s)' /\ CheckHolds(s)'
  BY DEF TypeOK, ReadsAreCurrent, ReadsCurrent, CheckHolds, StepFacts, Holds, NoVer, Call, Ver, Rows, Row
<1>6. \A b \in Accounts : ChangedBy(s, b)'
  BY DEF TypeOK, OpenChanges, ChangedBy, ChangesAreLocked, AfterDebit, AfterCredit, StepFacts
<1>7. LedgerAccountsExist'
  BY DEF TypeOK, LedgerAccountsExist, EntryOf
<1> QED BY <1>1, <1>2, <1>3, <1>4, <1>5, <1>6, <1>7, OthersKeep

LEMMA CheckInv ==
    ASSUME IInv, NEW s \in Sessions, Check(s)
    PROVE  IInv'
<1>1. CASE Rollback(s)
  BY <1>1, RollbackInv
<1>2. CASE ~Rollback(s)
  <2> USE <1>2 DEF Check, IInv, rows, entries
  <2>1. TypeOK'
    BY DEF TypeOK, Steps
  <2>2. StepFacts'
    BY ConstantsAssumption DEF TypeOK, StepFacts, EntryOf
  <2>3. ChangesAreLocked'
    BY DEF TypeOK, ChangesAreLocked
  <2>4. /\ \A x \in Sessions \ {s} : Untouched(x)
       /\ \A b \in Accounts : lock'[b] \in {s, Nobody, lock[b]}
    BY DEF TypeOK, Untouched
  <2>5. ReadsCurrent(s)' /\ CheckHolds(s)'
    <3> DEFINE from == call[s].from
               to == call[s].to
    <3>1. from \in Accounts /\ to \in Accounts
      BY DEF TypeOK, Call
    <3>2. Holds(s, from, ver[s].from) /\ Holds(s, to, ver[s].to) /\ ver[s].balance = work[from].balance
      BY DEF ReadsAreCurrent, ReadsCurrent, Refusal
    <3>3. ver[s].from = ver[s].to /\ 0 < call[s].amount /\ call[s].amount <= Mills * ver[s].balance
      BY ConstantsAssumption DEF Refusal, Covered, StepFacts, TypeOK, Call, Ver, Cents, Mills
    <3>4. accounts[from] # NoRow /\ accounts[to] # NoRow
      BY <3>1, <3>2 DEF Holds, StepFacts
    <3>5. accounts[from].balance = work[from].balance
      BY <3>1, <3>2, <3>4, ConstantsAssumption
      DEF Holds, OpenChanges, ChangedBy, AfterDebit, AfterCredit, BalanceOf, StepFacts
    <3> QED BY <3>1, <3>2, <3>3, <3>4, <3>5 DEF TypeOK, ReadsCurrent, Holds, CheckHolds
  <2>6. \A b \in Accounts : ChangedBy(s, b)'
    BY DEF TypeOK, OpenChanges, ChangedBy, ChangesAreLocked, AfterDebit, AfterCredit
  <2>7. LedgerAccountsExist'
    BY DEF TypeOK, LedgerAccountsExist, EntryOf
  <2> QED BY <2>1, <2>2, <2>3, <2>4, <2>5, <2>6, <2>7, OthersKeep
<1> QED BY <1>1, <1>2

LEMMA DebitInv ==
    ASSUME IInv, NEW s \in Sessions, Debit(s)
    PROVE  IInv'
<1>1. CASE Rollback(s)
  BY <1>1, RollbackInv
<1>2. CASE ~Rollback(s)
  <2> DEFINE a == call[s].from
             cents == ToCents(Mills * work[a].balance - call[s].amount)
  <2> USE DEF IInv, entries
  <2>1. a \in Accounts /\ lock[a] = s /\ work[a] \in Row /\ accounts[a] # NoRow
    BY DEF Debit, CheckStillHolds, CheckHolds, TypeOK, Call, Rows
  <2>2. /\ cents \in Cents
        /\ work' = [work EXCEPT ![a].balance = cents]
        /\ pc' = [pc EXCEPT ![s] = "credit"]
        /\ UNCHANGED <<accounts, lock, entries, call, ver, flag, recorded>>
    BY <1>2, <2>1, ConstantsAssumption DEF Debit, UpdateBalance, Lock, TypeOK
  <2>3. work' \in Rows /\ \A b \in Accounts : (work'[b] = NoRow) <=> (work[b] = NoRow)
    BY <2>1, <2>2, ConstantsAssumption DEF TypeOK, Rows, Row
  <2>4. TypeOK'
    BY <2>2, <2>3 DEF TypeOK, Steps
  <2>5. StepFacts'
    BY <2>2, <2>3 DEF Debit, TypeOK, StepFacts, EntryOf
  <2>6. ChangesAreLocked'
    BY <2>1, <2>2, ConstantsAssumption DEF TypeOK, Rows, ChangesAreLocked
  <2>7. /\ \A x \in Sessions \ {s} : Untouched(x)
       /\ \A b \in Accounts : lock'[b] \in {s, Nobody, lock[b]}
    BY <2>1, <2>2 DEF TypeOK, Rows, Untouched
  <2>8. ReadsCurrent(s)' /\ CheckHolds(s)'
    <3>1. pc[s] = "debit" /\ pc'[s] = "credit" /\ CheckHolds(s)
      BY <2>2 DEF Debit, TypeOK, CheckStillHolds
    <3>2. \A b \in Accounts : work[b] # NoRow => work'[b].currency = work[b].currency
      BY <2>1, <2>2 DEF TypeOK, Rows, Row
    <3>3. call[s].to \in Accounts
      BY DEF TypeOK, Call
    <3> QED BY <2>1, <2>2, <2>3, <3>1, <3>2, <3>3 DEF ReadsCurrent, CheckHolds
  <2>9. \A b \in Accounts : ChangedBy(s, b)'
    <3> SUFFICES ASSUME NEW b \in Accounts, lock[b] = s, ChangedBy(s, b)
                 PROVE  ChangedBy(s, b)'
      BY <2>2 DEF OpenChanges, ChangedBy
    <3>1. /\ pc[s] = "debit" /\ ~recorded[s] /\ pc' = [pc EXCEPT ![s] = "credit"]
          /\ pc'[s] = "credit" /\ call' = call /\ recorded' = recorded /\ accounts' = accounts
      BY <2>2 DEF Debit, StepFacts, TypeOK
    <3>2. CASE b # a
      <4>1. work'[b] = work[b]
        BY <2>1, <2>2, <3>2 DEF TypeOK, Rows
      <4> QED BY <3>1, <3>2, <4>1 DEF ChangedBy, AfterDebit, AfterCredit
    <3>3. CASE b = a
      <4>1. BalanceOf(work'[b]) = cents /\ BalanceOf(work[b]) = work[a].balance
        BY <2>1, <2>2, <3>3, ConstantsAssumption DEF TypeOK, Rows, Row, BalanceOf
      <4> QED BY <3>1, <3>3, <4>1 DEF ChangedBy, AfterDebit, AfterCredit
    <3> QED BY <3>2, <3>3
  <2>10. LedgerAccountsExist'
    BY <2>2, <2>3 DEF LedgerAccountsExist, EntryOf
  <2> QED BY <2>4, <2>5, <2>6, <2>7, <2>8, <2>9, <2>10, OthersKeep
<1> QED BY <1>1, <1>2

LEMMA CreditInv ==
    ASSUME IInv, NEW s \in Sessions, Credit(s)
    PROVE  IInv'
<1>1. CASE Rollback(s)
  BY <1>1, RollbackInv
<1>2. CASE ~Rollback(s)
  <2> DEFINE a == call[s].to
             cents == ToCents(Mills * work[a].balance + call[s].amount)
  <2> USE DEF IInv, entries
  <2>1. a \in Accounts /\ lock[a] = s /\ work[a] \in Row /\ accounts[a] # NoRow
    BY DEF Credit, CheckStillHolds, CheckHolds, TypeOK, Call, Rows
  <2>2. /\ cents \in Cents
        /\ work' = [work EXCEPT ![a].balance = cents]
        /\ pc' = [pc EXCEPT ![s] = "record"]
        /\ UNCHANGED <<accounts, lock, entries, call, ver, flag, recorded>>
    BY <1>2, <2>1, ConstantsAssumption DEF Credit, UpdateBalance, Lock, TypeOK
  <2>3. work' \in Rows /\ \A b \in Accounts : (work'[b] = NoRow) <=> (work[b] = NoRow)
    BY <2>1, <2>2, ConstantsAssumption DEF TypeOK, Rows, Row
  <2>4. TypeOK'
    BY <2>2, <2>3 DEF TypeOK, Steps
  <2>5. StepFacts'
    BY <2>2, <2>3 DEF Credit, TypeOK, StepFacts, EntryOf
  <2>6. ChangesAreLocked'
    BY <2>1, <2>2, ConstantsAssumption DEF TypeOK, Rows, ChangesAreLocked
  <2>7. /\ \A x \in Sessions \ {s} : Untouched(x)
       /\ \A b \in Accounts : lock'[b] \in {s, Nobody, lock[b]}
    BY <2>1, <2>2 DEF TypeOK, Rows, Untouched
  <2>8. ReadsCurrent(s)' /\ CheckHolds(s)'
    BY <2>1, <2>2, <2>3 DEF Credit, TypeOK, Call, Rows, Row, ReadsCurrent, CheckStillHolds, CheckHolds
  <2>9. \A b \in Accounts : ChangedBy(s, b)'
    <3> SUFFICES ASSUME NEW b \in Accounts, lock[b] = s, ChangedBy(s, b)
                 PROVE  ChangedBy(s, b)'
      BY <2>2 DEF OpenChanges, ChangedBy
    <3>1. /\ pc[s] = "credit" /\ ~recorded[s] /\ pc' = [pc EXCEPT ![s] = "record"]
          /\ pc'[s] = "record" /\ call' = call /\ recorded' = recorded /\ accounts' = accounts
      BY <2>2 DEF Credit, StepFacts, TypeOK
    <3>2. CASE b # a
      <4>1. work'[b] = work[b]
        BY <2>1, <2>2, <3>2 DEF TypeOK, Rows
      <4> QED BY <3>1, <3>2, <4>1 DEF ChangedBy, AfterDebit, AfterCredit
    <3>3. CASE b = a
      <4>1. BalanceOf(work'[b]) = cents /\ BalanceOf(work[b]) = work[a].balance
        BY <2>1, <2>2, <3>3, ConstantsAssumption DEF TypeOK, Rows, Row, BalanceOf
      <4> QED BY <3>1, <3>3, <4>1 DEF ChangedBy, AfterDebit, AfterCredit
    <3> QED BY <3>2, <3>3
  <2>10. LedgerAccountsExist'
    BY <2>2, <2>3 DEF LedgerAccountsExist, EntryOf
  <2> QED BY <2>4, <2>5, <2>6, <2>7, <2>8, <2>9, <2>10, OthersKeep
<1> QED BY <1>1, <1>2

LEMMA RecordInv ==
    ASSUME IInv, NEW s \in Sessions, Record(s)
    PROVE  IInv'
<1>1. CASE Rollback(s)
  BY <1>1, RollbackInv
<1>2. CASE ~Rollback(s)
  <2> USE <1>2 DEF Record, IInv, rows, entries
  <2>1. TypeOK'
    BY DEF TypeOK, Steps
  <2>2. StepFacts'
    BY DEF TypeOK, StepFacts, EntryOf, Insertable
  <2>3. ChangesAreLocked'
    BY DEF TypeOK, ChangesAreLocked
  <2>4. /\ \A x \in Sessions \ {s} : Untouched(x)
       /\ \A b \in Accounts : lock'[b] \in {s, Nobody, lock[b]}
    BY DEF TypeOK, Untouched
  <2>5. ReadsCurrent(s)' /\ CheckHolds(s)'
    BY DEF TypeOK, ReadsCurrent, CheckStillHolds, CheckHolds
  <2>6. \A b \in Accounts : ChangedBy(s, b)'
    BY DEF TypeOK, OpenChanges, ChangedBy, ChangesAreLocked, StepFacts, AfterDebit, AfterCredit
  <2>7. LedgerAccountsExist'
    BY DEF TypeOK, LedgerAccountsExist, EntryOf, CheckStillHolds, CheckHolds, Names
  <2> QED BY <2>1, <2>2, <2>3, <2>4, <2>5, <2>6, <2>7, OthersKeep
<1> QED BY <1>1, <1>2

LEMMA StutterInv == IInv /\ UNCHANGED vars => IInv'
<1> SUFFICES ASSUME IInv, UNCHANGED vars PROVE IInv'
  OBVIOUS
<1> USE DEF IInv, vars, rows, entries
<1>1. TypeOK' /\ ChangesAreLocked'
  BY DEF TypeOK, ChangesAreLocked
<1>2. StepFacts' /\ LedgerAccountsExist'
  BY DEF StepFacts, LedgerAccountsExist, EntryOf
<1>3. ReadsAreCurrent' /\ CheckStillHolds'
  BY DEF ReadsAreCurrent, ReadsCurrent, Holds, CheckStillHolds, CheckHolds
<1>4. OpenChanges'
  BY DEF OpenChanges, ChangedBy, AfterDebit, AfterCredit
<1> QED BY <1>1, <1>2, <1>3, <1>4

\* The flag is down between calls: a direct UPDATE fails or finds no row.
LEMMA SetBalanceInv ==
    ASSUME IInv, NEW s \in Sessions, NEW a \in Accounts, NEW cents \in Cents, SetBalance(s, a, cents)
    PROVE  Rollback(s) \/ UNCHANGED vars
BY DEF SetBalance, UpdateBalance, Lock, IInv, TypeOK, StepFacts, vars, rows, entries

LEMMA SetCurrencyInv ==
    ASSUME IInv, NEW s \in Sessions, NEW a \in Accounts, NEW currency \in Currencies \cup {Null},
           SetCurrency(s, a, currency)
    PROVE  IInv'
<1> USE DEF SetCurrency, Lock, Free, entries, IInv
<1>1. work[a] \in Row /\ work' \in Rows
  BY DEF TypeOK, Rows, Row
<1>2. \A b \in Accounts : /\ (work'[b] = NoRow) <=> (work[b] = NoRow)
                          /\ BalanceOf(work'[b]) = BalanceOf(work[b])
                          /\ b # a => work'[b] = work[b]
  BY <1>1, ConstantsAssumption DEF TypeOK, Rows, Row, BalanceOf
<1>3. TypeOK'
  BY <1>1 DEF TypeOK
<1>4. StepFacts'
  BY <1>2 DEF TypeOK, StepFacts, EntryOf
<1>5. ChangesAreLocked'
  BY <1>2, ConstantsAssumption DEF TypeOK, ChangesAreLocked
<1>6. /\ \A x \in Sessions \ {s} : Untouched(x)
      /\ \A b \in Accounts : lock'[b] \in {s, Nobody, lock[b]}
  BY <1>2, ConstantsAssumption DEF TypeOK, Untouched
<1>7. ReadsCurrent(s)' /\ CheckHolds(s)'
  <2>1. ReadsCurrent(s)'
    BY DEF ReadsCurrent
  <2>2. CheckHolds(s)'
    BY <1>2 DEF TypeOK, Call, StepFacts, CheckStillHolds, CheckHolds
  <2> QED BY <2>1, <2>2
<1>8. ASSUME NEW b \in Accounts PROVE ChangedBy(s, b)'
  <2>1. UNCHANGED <<accounts, pc, call, recorded>> /\ BalanceOf(work'[b]) = BalanceOf(work[b])
    BY <1>2
  <2>2. CASE lock[b] = s
    BY <2>1, <2>2 DEF OpenChanges, ChangedBy, AfterDebit, AfterCredit
  <2>3. CASE lock'[b] = s /\ lock[b] # s
    <3>1. lock[b] = Nobody /\ work[b] = accounts[b]
      BY <2>3, ConstantsAssumption DEF TypeOK, ChangesAreLocked
    <3>2. pc[s] = "ready" /\ (recorded[s] => b # call[s].from /\ b # call[s].to)
      BY <2>3 DEF CheckStillHolds, CheckHolds
    <3> QED BY <2>1, <3>1, <3>2 DEF ChangedBy, AfterDebit, AfterCredit
  <2> QED BY <2>2, <2>3 DEF ChangedBy
<1>9. LedgerAccountsExist'
  BY <1>2 DEF LedgerAccountsExist, EntryOf
<1> QED BY <1>3, <1>4, <1>5, <1>6, <1>7, <1>8, <1>9, OthersKeep

\* An entry that a client inserts names rows that are there, and changes none.
LEMMA InsertEntryInv ==
    ASSUME IInv, NEW s \in Sessions, NEW from \in Accounts \cup {Null}, NEW to \in Accounts \cup {Null},
           NEW positive \in BOOLEAN, InsertEntry(s, from, to, positive)
    PROVE  IInv'
<1> DEFINE named == {from, to} \ {Null}
<1>1. CASE Rollback(s)
  BY <1>1, RollbackInv
<1>2. CASE ~Rollback(s)
  <2>1. /\ named \subseteq Accounts /\ \A a \in named : work[a] # NoRow
        /\ writing' = [writing EXCEPT ![s] = @ \cup named]
        /\ UNCHANGED <<rows, transactions, handwritten, pc, call, ver, flag, recorded>>
    BY <1>2 DEF InsertEntry
  <2> HIDE DEF named
  <2> USE <2>1 DEF IInv, rows
  <2>2. TypeOK'
    BY DEF TypeOK
  <2>3. StepFacts' /\ ChangesAreLocked'
    BY DEF StepFacts, ChangesAreLocked, EntryOf
  <2>4. ReadsAreCurrent' /\ CheckStillHolds'
    BY DEF ReadsAreCurrent, ReadsCurrent, Holds, CheckStillHolds, CheckHolds
  <2>5. OpenChanges'
    BY DEF OpenChanges, ChangedBy, AfterDebit, AfterCredit
  <2>6. LedgerAccountsExist'
    <3>1. \A a \in named : work[a] # NoRow /\ accounts[a] # NoRow
      BY DEF StepFacts
    <3>2. \A x \in Sessions : \A a \in writing'[x] : a \in writing[x] \/ a \in named
      BY DEF TypeOK
    <3> QED BY <3>1, <3>2 DEF LedgerAccountsExist, EntryOf
  <2> QED BY <2>2, <2>3, <2>4, <2>5, <2>6
<1> QED BY <1>1, <1>2

LEMMA DeleteAccountInv ==
    ASSUME IInv, NEW s \in Sessions, NEW a \in Accounts, DeleteAccount(s, a)
    PROVE  IInv'
<1>1. CASE Rollback(s)
  BY <1>1, RollbackInv
<1>2. CASE ~Rollback(s)
  <2> USE <1>2 DEF DeleteAccount, Lock, Free, Unshared, entries, IInv
  <2>1. TypeOK'
    BY DEF TypeOK, Rows
  <2>2. StepFacts'
    BY DEF TypeOK, StepFacts, Rows, EntryOf
  <2>3. ChangesAreLocked'
    BY ConstantsAssumption DEF TypeOK, Rows, ChangesAreLocked
  <2>4. /\ \A x \in Sessions \ {s} : Untouched(x)
       /\ \A b \in Accounts : lock'[b] \in {s, Nobody, lock[b]}
    BY ConstantsAssumption DEF TypeOK, Rows, Untouched
  <2>5. ReadsCurrent(s)' /\ CheckHolds(s)'
    BY ConstantsAssumption DEF TypeOK, Rows, Call, StepFacts, ReadsCurrent, CheckStillHolds, CheckHolds,
       Referenced, Names, EntryOf
  <2>6. \A b \in Accounts : ChangedBy(s, b)'
    BY ConstantsAssumption DEF TypeOK, Rows, Row, OpenChanges, ChangedBy, ChangesAreLocked, StepFacts, BalanceOf,
       Referenced, Names, EntryOf, AfterDebit, AfterCredit
  <2>7. LedgerAccountsExist'
    BY ConstantsAssumption DEF TypeOK, Rows, LedgerAccountsExist, EntryOf, Referenced, Names,
       CheckStillHolds, CheckHolds
  <2> QED BY <2>1, <2>2, <2>3, <2>4, <2>5, <2>6, <2>7, OthersKeep
<1> QED BY <1>1, <1>2

------------------------------------------------------------------------------
(* The theorems. *)

LEMMA InitInv == Init => IInv
<1> SUFFICES ASSUME Init PROVE IInv
  OBVIOUS
<1> USE ConstantsAssumption DEF Init
<1>0. NoCall \in Call /\ NoVer \in Ver
  BY DEF NoCall, NoVer, Ver, Cents
<1>1. TypeOK
  BY <1>0 DEF TypeOK, Steps
<1>2. StepFacts /\ ChangesAreLocked /\ LedgerAccountsExist
  BY DEF StepFacts, ChangesAreLocked, LedgerAccountsExist
<1>3. ReadsAreCurrent /\ CheckStillHolds /\ OpenChanges
  BY DEF ReadsAreCurrent, ReadsCurrent, CheckStillHolds, CheckHolds, OpenChanges, ChangedBy
<1> QED BY <1>1, <1>2, <1>3 DEF IInv

\* Every step preserves the inductive invariant.
LEMMA NextInv == IInv /\ [Next]_vars => IInv'
<1> SUFFICES ASSUME IInv, [Next]_vars PROVE IInv'
  OBVIOUS
<1>1. CASE UNCHANGED vars
  BY <1>1, StutterInv
<1>2. ASSUME NEW s \in Sessions, Begin(s) PROVE IInv'
  BY <1>2, BeginInv
<1>3. ASSUME NEW s \in Sessions, NEW c \in Call, CallTransferMoney(s, c) PROVE IInv'
  BY <1>3, CallTransferMoneyInv
<1>4. ASSUME NEW s \in Sessions, CallStep(s) PROVE IInv'
  BY <1>4, LockSourceInv, LockDestinationInv, CheckInv, DebitInv, CreditInv, RecordInv DEF CallStep
<1>5. ASSUME NEW s \in Sessions, Statement(s) PROVE IInv'
  <2>1. ASSUME NEW a \in Accounts, NEW cents \in Cents, SetBalance(s, a, cents) PROVE IInv'
    BY <2>1, <1>5, SetBalanceInv, RollbackInv, StutterInv
  <2>2. ASSUME NEW a \in Accounts, NEW currency \in Currencies \cup {Null}, SetCurrency(s, a, currency)
        PROVE  IInv'
    BY <2>2, <1>5, SetCurrencyInv
  <2>3. ASSUME NEW a \in Accounts, DeleteAccount(s, a) PROVE IInv'
    BY <2>3, <1>5, DeleteAccountInv
  <2>4. ASSUME NEW from \in Accounts \cup {Null}, NEW to \in Accounts \cup {Null},
               NEW positive \in BOOLEAN, InsertEntry(s, from, to, positive)
        PROVE  IInv'
    BY <2>4, <1>5, InsertEntryInv
  <2>5. CASE EditTransactions(s)
    BY <2>5, <1>5, RollbackInv DEF EditTransactions
  <2> QED BY <1>5, <2>1, <2>2, <2>3, <2>4, <2>5 DEF Statement
<1>6. ASSUME NEW s \in Sessions, Commit(s) PROVE IInv'
  BY <1>6, CommitInv
<1>7. ASSUME NEW s \in Sessions, Disconnect(s) \/ DeadlockVictim(s) PROVE IInv'
  BY <1>7, RollbackInv DEF Disconnect, DeadlockVictim
<1> QED BY <1>1, <1>2, <1>3, <1>4, <1>5, <1>6, <1>7 DEF Next

\* The inductive invariant holds in every reachable state.
THEOREM InvariantHolds == Spec => []IInv
BY InitInv, NextInv, PTL DEF Spec

\* The variables keep their types, the balances the range of the column.
THEOREM TypeCorrect == Spec => []TypeOK
BY InvariantHolds, PTL DEF IInv

\* Rows are changed only under the lock of an open transaction.
THEOREM ChangesLocked == Spec => []ChangesAreLocked
BY InvariantHolds, PTL DEF IInv

\* What transferMoney checks stays true until its transaction ends.
THEOREM CheckIsStable == Spec => []CheckStillHolds
BY InvariantHolds, PTL DEF IInv

\* What a call has read does not become stale before it is checked.
THEOREM ReadsStayCurrent == Spec => []ReadsAreCurrent
BY InvariantHolds, PTL DEF IInv

\* An open transaction has changed balances by what its call has done so far,
\* so a failure between two updates leaves nothing but what Rollback undoes.
THEOREM ChangesAreExact == Spec => []OpenChanges
BY InvariantHolds, PTL DEF IInv

\* No entry of the ledger, committed or pending, names a missing account.
THEOREM LedgerIsSound == Spec => []LedgerAccountsExist
BY InvariantHolds, PTL DEF IInv

------------------------------------------------------------------------------
(* What a commit does to the balances others see. *)

LEMMA OnlyCommitsShow ==
    ASSUME [Next]_vars
    PROVE  UNCHANGED <<accounts, transactions>> \/ \E s \in Sessions : Commit(s)
<1>1. CASE UNCHANGED vars
  BY <1>1 DEF vars, rows, entries
<1>2. ASSUME NEW s \in Sessions, CallStep(s) PROVE UNCHANGED <<accounts, transactions>>
  BY <1>2 DEF CallStep, LockSource, LockDestination, Check, Debit, Credit, Record, UpdateBalance, Rollback, rows, entries
<1>3. ASSUME NEW s \in Sessions, Statement(s) PROVE UNCHANGED <<accounts, transactions>>
  BY <1>3 DEF Statement, SetBalance, SetCurrency, DeleteAccount, EditTransactions, UpdateBalance, Rollback,
     InsertEntry, rows, entries
<1>4. ASSUME NEW s \in Sessions, Begin(s) \/ Disconnect(s) \/ DeadlockVictim(s)
      PROVE  UNCHANGED <<accounts, transactions>>
  BY <1>4 DEF Begin, Disconnect, DeadlockVictim, Rollback, rows, entries
<1>5. ASSUME NEW s \in Sessions, NEW c \in Call, CallTransferMoney(s, c)
      PROVE  UNCHANGED <<accounts, transactions>>
  BY <1>5 DEF CallTransferMoney, Rollback, rows, entries
<1> QED BY <1>1, <1>2, <1>3, <1>4, <1>5 DEF Next

LEMMA CommitShows ==
    ASSUME IInv, NEW s \in Sessions, Commit(s), NEW a \in Accounts
    PROVE  /\ Balances[a] \in Int
           /\ ~recorded[s] => Balances'[a] = Balances[a]
           /\ recorded[s] => Balances'[a] = AfterCredit(s, a, AfterDebit(s, a, Balances[a]))
<1>1. Balances[a] = BalanceOf(accounts[a]) /\ Balances'[a] = BalanceOf(accounts'[a])
  BY DEF Balances
<1>2. Balances[a] \in Int
  BY <1>1, ConstantsAssumption DEF IInv, TypeOK, Rows, Row, Cents, BalanceOf
<1>3. CASE lock[a] = s
  BY <1>1, <1>2, <1>3 DEF Commit, IInv, OpenChanges, ChangedBy, AfterDebit, AfterCredit
<1>4. CASE lock[a] # s
  BY <1>1, <1>2, <1>4 DEF Commit, IInv, CheckStillHolds, CheckHolds, AfterDebit, AfterCredit
<1> QED BY <1>2, <1>3, <1>4

LEMMA CommitNoOverdraft ==
    ASSUME IInv, NEW s \in Sessions, Commit(s), NEW a \in Accounts, Balances'[a] < Balances[a]
    PROVE  Balances'[a] >= 0
<1> DEFINE amount == call[s].amount
           debited == AfterDebit(s, a, Balances[a])
<1>1. Balances[a] \in Int /\ recorded[s] /\ Balances'[a] = AfterCredit(s, a, debited)
  BY CommitShows
<1>2. amount \in Int /\ amount > 0 /\ (a = call[s].from => amount <= Mills * Balances[a])
  <2>1. call[s] \in Call
    BY DEF IInv, TypeOK
  <2>2. amount \in Int
    BY <2>1, ConstantsAssumption DEF Call
  <2>3. CheckHolds(s)
    BY DEF IInv, CheckStillHolds
  <2>4. amount > 0 /\ accounts[call[s].from] # NoRow /\ amount <= Mills * accounts[call[s].from].balance
    BY <1>1, <2>3 DEF CheckHolds
  <2>5. Balances[a] = BalanceOf(accounts[a])
    BY DEF Balances
  <2> QED BY <2>2, <2>4, <2>5 DEF BalanceOf
<1>3. debited \in Int /\ (a = call[s].from => debited >= 0) /\ (a # call[s].from => debited = Balances[a])
  <2>1. CASE a = call[s].from
    <3>1. debited = ToCents(Mills * Balances[a] - amount)
      BY <1>1, <2>1 DEF AfterDebit
    <3>2. Mills * Balances[a] - amount \in Int
      BY <1>1, <1>2 DEF Mills
    <3> QED BY <1>1, <1>2, <2>1, <3>1, <3>2, ToCentsBounds, ToCentsInt
  <2>2. CASE a # call[s].from
    BY <1>1, <2>2 DEF AfterDebit
  <2> QED BY <2>1, <2>2
<1>4. AfterCredit(s, a, debited) \in Int /\ AfterCredit(s, a, debited) >= debited
  <2>1. ToCents(Mills * debited + amount) \in Int /\ ToCents(Mills * debited + amount) >= debited
    <3>1. Mills * debited + amount \in Int
      BY <1>2, <1>3 DEF Mills
    <3> QED BY <1>2, <1>3, <3>1, ToCentsBounds, ToCentsInt
  <2>2. AfterCredit(s, a, debited) \in {ToCents(Mills * debited + amount), debited}
    BY DEF AfterCredit
  <2> QED BY <1>3, <2>1, <2>2
<1> QED BY <1>1, <1>3, <1>4

\* No committed balance shrinks below zero, for any number of sessions,
\* accounts and amounts, amounts of half cents included.
THEOREM OverdraftNever == Spec => NoOverdraft
<1>1. IInv /\ [Next]_vars => [\A a \in Accounts : Balances'[a] < Balances[a] => Balances'[a] >= 0]_vars
  <2> SUFFICES ASSUME IInv, [Next]_vars, NEW a \in Accounts, Balances'[a] < Balances[a]
               PROVE  Balances'[a] >= 0
    OBVIOUS
  <2>1. CASE UNCHANGED <<accounts, transactions>>
    BY <2>1, ConstantsAssumption DEF Balances, BalanceOf, IInv, TypeOK, Rows, Row, Cents
  <2>2. CASE \E s \in Sessions : Commit(s)
    BY <2>2, CommitNoOverdraft
  <2> QED BY <2>1, <2>2, OnlyCommitsShow
<1> QED BY <1>1, InvariantHolds, PTL DEF Spec, NoOverdraft

------------------------------------------------------------------------------
(* Refinement of Bank. *)

\* No amount lies exactly between two cents.
NoTies == \A m \in Amounts : ~IsTie(m)

LEMMA CommitIsTransfer ==
    ASSUME IInv, NoTies, NEW s \in Sessions, Commit(s), recorded[s]
    PROVE  LET e == EntryOf(s) IN e.from \in Accounts /\ e.to \in Accounts
                                  /\ e.cents \in 1 .. Balances[e.from]
                                  /\ Promise!Transfer(e.from, e.to, e.cents)
<1> DEFINE from == call[s].from
           to == call[s].to
           cents == ToCents(call[s].amount)
<1>1. from \in Accounts /\ to \in Accounts /\ cents \in Int /\ 0 < cents /\ cents <= Balances[from]
  BY EntryIsCovered, ConstantsAssumption DEF EntryOf, Balances, BalanceOf
<1>2. call[s].amount \in Int /\ call[s].amount > 0 /\ ~IsTie(call[s].amount)
  BY ConstantsAssumption DEF IInv, TypeOK, Call, CheckStillHolds, CheckHolds, NoTies
<1>3. ASSUME NEW a \in Accounts
      PROVE  Balances'[a] = Balances[a] - (IF a = from THEN cents ELSE 0) + (IF a = to THEN cents ELSE 0)
  <2>1. Balances[a] \in Int /\ Balances'[a] = AfterCredit(s, a, AfterDebit(s, a, Balances[a]))
    BY CommitShows
  <2>2. AfterDebit(s, a, Balances[a]) = IF a = from THEN Balances[a] - cents ELSE Balances[a]
    BY <1>2, <2>1, ToCentsSplit DEF AfterDebit
  <2>3. \A b \in Int : AfterCredit(s, a, b) = IF a = to THEN b + cents ELSE b
    BY <1>2, ToCentsSplit DEF AfterCredit
  <2> QED BY <1>1, <2>1, <2>2, <2>3
<1>4. Balances' = [a \in Accounts |-> Balances[a] - (IF a = from THEN cents ELSE 0)
                                                  + (IF a = to THEN cents ELSE 0)]
  BY <1>3 DEF Balances
<1>5. transactions' = Append(transactions, [from |-> from, to |-> to, cents |-> cents])
  BY DEF Commit, EntryOf
<1> QED BY <1>1, <1>4, <1>5 DEF EntryOf, Promise!Transfer

\* The database keeps the promise of Bank when no amount is an exact half cent:
\* balances change by whole, covered, recorded transfers and by nothing else,
\* also when clients insert entries, update rows and delete accounts.
THEOREM Implementation == NoTies => (Spec => ImplementsBank)
<1> SUFFICES ASSUME NoTies PROVE Spec => ImplementsBank
  OBVIOUS
<1>1. Init => Promise!Init
  BY DEF Init, Promise!Init, Balances, OpeningBalances
<1>2. IInv /\ [Next]_vars => [Promise!Next]_Promise!bankVars
  <2> SUFFICES ASSUME IInv, [Next]_vars PROVE [Promise!Next]_Promise!bankVars
    OBVIOUS
  <2>1. CASE UNCHANGED <<accounts, transactions>>
    BY <2>1 DEF Balances, Promise!bankVars
  <2>2. ASSUME NEW s \in Sessions, Commit(s), recorded[s] PROVE Promise!Next
    BY <2>2, CommitIsTransfer DEF Promise!Next
  <2>3. ASSUME NEW s \in Sessions, Commit(s), ~recorded[s] PROVE UNCHANGED Promise!bankVars
    <3>1. \A a \in Accounts : Balances'[a] = Balances[a]
      BY <2>3, CommitShows
    <3>2. Balances' = Balances
      BY <3>1 DEF Balances
    <3> QED BY <2>3, <3>2 DEF Commit, Promise!bankVars
  <2> QED BY <2>1, <2>2, <2>3, OnlyCommitsShow
<1> QED BY <1>1, <1>2, InvariantHolds, PTL DEF Spec, ImplementsBank, Promise!Spec

------------------------------------------------------------------------------
(* The ledger adds up: what a commit does to the sums over the table of     *)
(* transactions and over the balances.                                      *)

\* The ledger m is l and one more entry, e.
Extends(m, l, e) == l \in Seq(Entry) /\ e \in Entry /\ m = Append(l, e)

CentsOf(l) == [i \in DOMAIN l |-> l[i].cents]
Into(l, a) == {i \in DOMAIN l : l[i].to = a}
OutOf(l, a) == {i \in DOMAIN l : l[i].from = a}

LEMMA SumAppend ==
    ASSUME NEW m, NEW l, NEW e, Extends(m, l, e), NEW D, D \subseteq DOMAIN l
    PROVE  /\ SumFunctionOnSet(CentsOf(l), D) \in Int
           /\ SumFunctionOnSet(CentsOf(m), D) = SumFunctionOnSet(CentsOf(l), D)
           /\ SumFunctionOnSet(CentsOf(m), D \cup {Len(l) + 1})
                = SumFunctionOnSet(CentsOf(l), D) + e.cents
<1> DEFINE last == Len(l) + 1
<1>1. /\ Len(l) \in Nat /\ DOMAIN l = 1 .. Len(l) /\ DOMAIN m = 1 .. last
      /\ m[last] = e /\ e \in Entry /\ \A n \in D : m[n] = l[n] /\ l[n] \in Entry
  BY DEF Extends
<1>2. \A x \in Entry : x.cents \in Int
  BY ConstantsAssumption DEF Entry, Cents
<1>3. /\ CentsOf(m)[last] = e.cents /\ e.cents \in Int
      /\ \A n \in D : CentsOf(m)[n] = CentsOf(l)[n] /\ CentsOf(l)[n] \in Int
      /\ last \notin D
  BY <1>1, <1>2 DEF CentsOf
<1>4. IsFiniteSet(D)
  <2>1. IsFiniteSet(1 .. Len(l))
    BY <1>1, FS_Interval
  <2> QED BY <1>1, <2>1, FS_Subset
<1>5. SumFunctionOnSet(CentsOf(l), D) \in Int
  BY <1>3, <1>4, SumInt
<1>6. SumFunctionOnSet(CentsOf(m), D) = SumFunctionOnSet(CentsOf(l), D)
  BY <1>3, <1>4, SumSame
<1>7. SumFunctionOnSet(CentsOf(m), D \cup {last}) = SumFunctionOnSet(CentsOf(m), D) + CentsOf(m)[last]
  <2> HIDE DEF last
  <2> QED BY <1>3, <1>4, SumAdd
<1> QED BY <1>3, <1>5, <1>6, <1>7

LEMMA SelectAppend ==
    ASSUME NEW m, NEW l, NEW e, Extends(m, l, e), NEW a
    PROVE  /\ Into(m, a) = (IF e.to = a THEN Into(l, a) \cup {Len(l) + 1} ELSE Into(l, a))
           /\ OutOf(m, a) = (IF e.from = a THEN OutOf(l, a) \cup {Len(l) + 1} ELSE OutOf(l, a))
<1> DEFINE last == Len(l) + 1
<1>1. /\ DOMAIN m = DOMAIN l \cup {last} /\ last \notin DOMAIN l
      /\ m[last] = e /\ \A n \in DOMAIN l : m[n] = l[n]
  BY DEF Extends
<1> QED BY <1>1 DEF Into, OutOf

LEMMA EntryCounts ==
    ASSUME TypeOK, NEW e \in Entry, transactions' = Append(transactions, e), NEW a \in Accounts
    PROVE  /\ Received(a) \in Int /\ Sent(a) \in Int
           /\ Received(a)' = Received(a) + (IF e.to = a THEN e.cents ELSE 0)
           /\ Sent(a)' = Sent(a) + (IF e.from = a THEN e.cents ELSE 0)
<1> PICK l, m : l = transactions /\ m = transactions'
  OBVIOUS
<1>1. Extends(m, l, e)
  BY DEF TypeOK, Extends
<1>2. /\ Received(a) = SumFunctionOnSet(CentsOf(l), Into(l, a))
      /\ Sent(a) = SumFunctionOnSet(CentsOf(l), OutOf(l, a))
      /\ Received(a)' = SumFunctionOnSet(CentsOf(m), Into(m, a))
      /\ Sent(a)' = SumFunctionOnSet(CentsOf(m), OutOf(m, a))
  BY DEF Received, Sent, Moved, CentsOf, Into, OutOf
<1>3. Into(l, a) \subseteq DOMAIN l /\ OutOf(l, a) \subseteq DOMAIN l
  BY DEF Into, OutOf
<1>4. ASSUME NEW D, D \subseteq DOMAIN l
      PROVE  /\ SumFunctionOnSet(CentsOf(l), D) \in Int
             /\ SumFunctionOnSet(CentsOf(m), D) = SumFunctionOnSet(CentsOf(l), D)
             /\ SumFunctionOnSet(CentsOf(m), D \cup {Len(l) + 1})
                  = SumFunctionOnSet(CentsOf(l), D) + e.cents
  BY <1>1, <1>4, SumAppend
<1>5. /\ Into(m, a) = (IF e.to = a THEN Into(l, a) \cup {Len(l) + 1} ELSE Into(l, a))
      /\ OutOf(m, a) = (IF e.from = a THEN OutOf(l, a) \cup {Len(l) + 1} ELSE OutOf(l, a))
  BY <1>1, SelectAppend
<1>6. /\ Received(a) \in Int
      /\ Received(a)' = Received(a) + (IF e.to = a THEN e.cents ELSE 0)
  <2>1. CASE e.to = a
    BY <1>2, <1>3, <1>4, <1>5, <2>1
  <2>2. CASE e.to # a
    <3>1. Into(m, a) = Into(l, a)
      BY <1>5, <2>2
    <3>2. Received(a)' = Received(a)
      BY <1>2, <1>3, <1>4, <3>1
    <3>3. Received(a) \in Int
      BY <1>2, <1>3, <1>4
    <3> QED BY <2>2, <3>2, <3>3
  <2> QED BY <2>1, <2>2
<1>7. /\ Sent(a) \in Int
      /\ Sent(a)' = Sent(a) + (IF e.from = a THEN e.cents ELSE 0)
  <2>1. CASE e.from = a
    BY <1>2, <1>3, <1>4, <1>5, <2>1
  <2>2. CASE e.from # a
    <3>1. OutOf(m, a) = OutOf(l, a)
      BY <1>5, <2>2
    <3>2. Sent(a)' = Sent(a)
      BY <1>2, <1>3, <1>4, <3>1
    <3>3. Sent(a) \in Int
      BY <1>2, <1>3, <1>4
    <3> QED BY <2>2, <3>2, <3>3
  <2> QED BY <2>1, <2>2
<1> QED BY <1>6, <1>7

LEMMA BalancesInt ==
    ASSUME TypeOK
    PROVE  Balances \in [Accounts -> Int] /\ OpeningBalances \in [Accounts -> Int]
BY ConstantsAssumption DEF TypeOK, Rows, Row, Cents, Balances, OpeningBalances, BalanceOf

LEMMA ReconciledInit == Init => Reconciled
<1> SUFFICES ASSUME Init, NEW a \in Accounts
             PROVE  Balances[a] = OpeningBalances[a] + Received(a) - Sent(a)
  BY DEF Reconciled
<1>1. Received(a) = 0 /\ Sent(a) = 0
  <2>1. DOMAIN transactions = {}
    BY DEF Init
  <2>2. /\ {i \in DOMAIN transactions : transactions[i].to = a} = {}
        /\ {i \in DOMAIN transactions : transactions[i].from = a} = {}
    BY <2>1
  <2> QED BY <2>2, SumEmpty DEF Received, Sent
<1>2. Balances = OpeningBalances
  BY DEF Init, Balances, OpeningBalances
<1>3. OpeningBalances[a] \in Int
  BY InitInv, BalancesInt DEF IInv
<1> QED BY <1>1, <1>2, <1>3

LEMMA TransferReconciles ==
    ASSUME TypeOK, Reconciled, NEW from \in Accounts, NEW to \in Accounts, NEW cents \in Cents,
           Promise!Transfer(from, to, cents)
    PROVE  Reconciled'
<1> SUFFICES ASSUME NEW a \in Accounts
             PROVE  Balances'[a] = OpeningBalances[a] + Received(a)' - Sent(a)'
  BY DEF Reconciled
<1> DEFINE e == [from |-> from, to |-> to, cents |-> cents]
<1>1. e \in Entry /\ transactions' = Append(transactions, e) /\ cents \in Int
  BY ConstantsAssumption DEF Promise!Transfer, Entry, Cents
<1>2. /\ Received(a) \in Int /\ Sent(a) \in Int
      /\ Received(a)' = Received(a) + (IF to = a THEN cents ELSE 0)
      /\ Sent(a)' = Sent(a) + (IF from = a THEN cents ELSE 0)
  BY <1>1, EntryCounts
<1>3. Balances'[a] = Balances[a] - (IF a = from THEN cents ELSE 0) + (IF a = to THEN cents ELSE 0)
  BY DEF Promise!Transfer
<1>4. Balances[a] = OpeningBalances[a] + Received(a) - Sent(a) /\ OpeningBalances[a] \in Int
  BY BalancesInt DEF Reconciled
<1> QED BY <1>1, <1>2, <1>3, <1>4

\* A step of the database is a transfer of Bank that the ledger records, or
\* leaves what clients see alone.
LEMMA StepIsTransfer ==
    ASSUME IInv, NoTies, [Next]_vars
    PROVE  \/ UNCHANGED <<Balances, transactions>>
           \/ \E from, to \in Accounts, cents \in Cents : Promise!Transfer(from, to, cents)
<1>1. CASE UNCHANGED <<accounts, transactions>>
  BY <1>1 DEF Balances
<1>2. ASSUME NEW s \in Sessions, Commit(s), recorded[s]
      PROVE  \E from, to \in Accounts, cents \in Cents : Promise!Transfer(from, to, cents)
  <2> DEFINE e == EntryOf(s)
  <2>1. e.from \in Accounts /\ e.to \in Accounts /\ e.cents \in 1 .. Balances[e.from]
        /\ Promise!Transfer(e.from, e.to, e.cents)
    BY <1>2, CommitIsTransfer
  <2>2. Balances[e.from] \in Cents
    BY <2>1, ConstantsAssumption DEF IInv, TypeOK, Rows, Row, Cents, Balances, BalanceOf
  <2>3. e.cents \in Cents
    BY <2>1, <2>2, ConstantsAssumption DEF Cents
  <2> QED BY <2>1, <2>3
<1>3. ASSUME NEW s \in Sessions, Commit(s), ~recorded[s] PROVE UNCHANGED <<Balances, transactions>>
  <2>1. \A a \in Accounts : Balances'[a] = Balances[a]
    BY <1>3, CommitShows
  <2>2. Balances' = Balances
    BY <2>1 DEF Balances
  <2> QED BY <1>3, <2>2 DEF Commit
<1> QED BY <1>1, <1>2, <1>3, OnlyCommitsShow

\* The entries that transferMoney recorded explain every committed balance, when
\* no amount is an exact half cent, whatever entries clients add beside them.
THEOREM LedgerExplainsBalances == NoTies => (Spec => []Reconciled)
<1> SUFFICES ASSUME NoTies PROVE Spec => []Reconciled
  OBVIOUS
<1>1. IInv /\ Reconciled /\ [Next]_vars => Reconciled'
  <2> SUFFICES ASSUME IInv, Reconciled, [Next]_vars PROVE Reconciled'
    OBVIOUS
  <2>1. CASE UNCHANGED <<Balances, transactions>>
    BY <2>1 DEF Reconciled, Received, Sent, Moved
  <2>2. ASSUME NEW from \in Accounts, NEW to \in Accounts, NEW cents \in Cents,
               Promise!Transfer(from, to, cents)
        PROVE  Reconciled'
    BY <2>2, TransferReconciles DEF IInv
  <2> QED BY <2>1, <2>2, StepIsTransfer
<1> QED BY <1>1, ReconciledInit, InvariantHolds, PTL DEF Spec

------------------------------------------------------------------------------

\* The balances g are f after a transfer.
Moves(g, f, from, to, cents) ==
    /\ f \in [Accounts -> Int] /\ g \in [Accounts -> Int] /\ cents \in Int
    /\ \A a \in Accounts : g[a] = f[a] - (IF a = from THEN cents ELSE 0)
                                     + (IF a = to THEN cents ELSE 0)

LEMMA TransferConserves ==
    ASSUME NEW g, NEW f, NEW from \in Accounts, NEW to \in Accounts, NEW cents,
           Moves(g, f, from, to, cents)
    PROVE  SumFunctionOnSet(g, Accounts) = SumFunctionOnSet(f, Accounts)
<1> DEFINE Others == Accounts \ {from}
           Rest2 == Others \ {to}
<1>1. IsFiniteSet(Accounts) /\ IsFiniteSet(Others) /\ IsFiniteSet(Rest2)
  BY ConstantsAssumption, FS_RemoveElement
<1>2. CASE from = to
  <2>1. \A a \in Accounts : g[a] = f[a]
    BY <1>2 DEF Moves
  <2> QED BY <1>1, <2>1, SumSame
<1>3. CASE from # to
  <2>1. ASSUME NEW h \in [Accounts -> Int]
        PROVE  /\ SumFunctionOnSet(h, Accounts) = h[from] + (h[to] + SumFunctionOnSet(h, Rest2))
               /\ SumFunctionOnSet(h, Rest2) \in Int
    <3>1. SumFunctionOnSet(h, Accounts) = h[from] + SumFunctionOnSet(h, Others)
      BY <1>1, SumRemove
    <3>2. to \in Others /\ \A a \in Others : h[a] \in Int
      BY <1>3
    <3>3. SumFunctionOnSet(h, Others) = h[to] + SumFunctionOnSet(h, Rest2)
      BY <1>1, <3>2, SumRemove
    <3>4. SumFunctionOnSet(h, Rest2) \in Int
      BY <1>1, SumInt
    <3> QED BY <3>1, <3>3, <3>4
  <2>2. SumFunctionOnSet(g, Rest2) = SumFunctionOnSet(f, Rest2)
    <3>1. \A a \in Rest2 : g[a] = f[a]
      BY DEF Moves
    <3> HIDE DEF Rest2
    <3> QED BY <1>1, <3>1, SumSame
  <2>3. /\ g[from] = f[from] - cents /\ g[to] = f[to] + cents
        /\ f[from] \in Int /\ f[to] \in Int /\ cents \in Int
    BY <1>3 DEF Moves
  <2> HIDE DEF Rest2
  <2>4. /\ SumFunctionOnSet(g, Accounts) = g[from] + (g[to] + SumFunctionOnSet(g, Rest2))
        /\ SumFunctionOnSet(f, Accounts) = f[from] + (f[to] + SumFunctionOnSet(f, Rest2))
        /\ SumFunctionOnSet(f, Rest2) \in Int
    BY <2>1 DEF Moves
  <2> QED BY <2>2, <2>3, <2>4
<1> QED BY <1>2, <1>3

\* No transfer creates or destroys money, when no amount is an exact half cent.
THEOREM MoneyIsConserved == NoTies => (Spec => []MoneyConserved)
<1> SUFFICES ASSUME NoTies PROVE Spec => []MoneyConserved
  OBVIOUS
<1>1. Init => MoneyConserved
  BY DEF Init, MoneyConserved, Balances, OpeningBalances
<1>2. IInv /\ MoneyConserved /\ [Next]_vars => MoneyConserved'
  <2> SUFFICES ASSUME IInv, MoneyConserved, [Next]_vars PROVE MoneyConserved'
    OBVIOUS
  <2>1. CASE UNCHANGED <<Balances, transactions>>
    BY <2>1 DEF MoneyConserved, OpeningBalances
  <2>2. ASSUME NEW from \in Accounts, NEW to \in Accounts, NEW cents \in Cents,
               Promise!Transfer(from, to, cents)
        PROVE  MoneyConserved'
    <3>1. Balances \in [Accounts -> Int] /\ cents \in Int
      BY BalancesInt, ConstantsAssumption DEF IInv, Cents
    <3>2. Moves(Balances', Balances, from, to, cents)
      BY <2>2, <3>1 DEF Promise!Transfer, Moves
    <3>3. SumFunctionOnSet(Balances', Accounts) = SumFunctionOnSet(Balances, Accounts)
      BY <3>2, TransferConserves
    <3> QED BY <3>3 DEF MoneyConserved, OpeningBalances
  <2> QED BY <2>1, <2>2, StepIsTransfer
<1> QED BY <1>1, <1>2, InvariantHolds, PTL DEF Spec
==============================================================================
