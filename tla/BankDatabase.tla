----------------------------- MODULE BankDatabase -----------------------------
(***************************************************************************)
(* PostgreSQL sessions that run transferMoney() and statements on account  *)
(* rows against the schema and triggers of database/.  Every transaction   *)
(* is READ COMMITTED (no caller asks for more).  A row lock belongs to a   *)
(* session from the statement that takes it to the end of its transaction; *)
(* a session that needs a row another one holds waits, that is, its step   *)
(* is not enabled.  An error, raised or found by a constraint, ends the    *)
(* transaction: every caller in the repository rolls back on one.          *)
(*                                                                         *)
(* `work' is the latest version of each row, uncommitted changes included, *)
(* and `accounts' the committed one.                                       *)
(***************************************************************************)
EXTENDS Numeric, Sequences, FiniteSets, Functions

CONSTANTS Accounts,     \* account ids a call may name, in the table or not
          Currencies,   \* values of the currency column
          Null,         \* the SQL null, which that column allows
          NoRow,        \* in place of the row of an id that is not in the table
          OpeningRows,  \* the rows of the table when the sessions begin
          MaxCents,     \* the largest balance NUMERIC(14,2) can hold
          Amounts,      \* transfer amounts, in mills
          Sessions,     \* connections to the database
          Interactive,  \* those that also issue statements on rows (psql)
          Nobody,       \* the holder of a row that is not locked
          MaxLedger     \* bound: no transfer is called beyond this many

Cents == -MaxCents .. MaxCents
Row   == [balance : Cents, currency : Currencies \cup {Null}]
Rows  == [Accounts -> Row \cup {NoRow}]
Call  == [from : Accounts, to : Accounts, amount : Amounts]
Entry == [from : Accounts, to : Accounts, cents : Cents]
Ver   == [balance : Cents, from : Currencies \cup {Null}, to : Currencies \cup {Null}]

ASSUME ConstantsAssumption ==
    /\ IsFiniteSet(Accounts)
    /\ NoRow \notin Row
    /\ Null \notin Currencies \cup Accounts
    /\ Nobody \notin Sessions
    /\ Interactive \subseteq Sessions
    /\ MaxCents \in Nat
    /\ Amounts \subseteq Int
    /\ Call # {}
    /\ OpeningRows \in Rows

VARIABLES accounts,      \* the committed rows
          work,          \* the rows with the changes of open transactions
          lock,          \* lock[a]: the session holding row a, or Nobody
          transactions,  \* the committed entries that transferMoney inserted, oldest first
          handwritten,   \* the accounts named by committed entries a client inserted itself
          writing,       \* writing[s]: those named by such entries of s, uncommitted; s
                         \*   shares their keys, as the foreign key check does
          pc,            \* pc[s]: idle outside a transaction, ready between statements,
                         \*   else the next statement of the transferMoney() call of s
          call,          \* call[s]: the arguments of that call
          ver,           \* ver[s]: its variables ver_from_balance, ver_*_currency
          flag,          \* flag[s]: database1.allow_balance_update is 'on'
          recorded       \* recorded[s]: s inserted the entry of its call, uncommitted

rows == <<accounts, work, lock>>
entries == <<transactions, handwritten, writing>>
vars == <<rows, entries, pc, call, ver, flag, recorded>>

NoCall == CHOOSE c \in Call : TRUE    \* the arguments kept while no call runs
NoVer  == [balance |-> 0, from |-> Null, to |-> Null]

Init ==
    /\ accounts = OpeningRows
    /\ work = OpeningRows
    /\ lock = [a \in Accounts |-> Nobody]
    /\ transactions = << >> /\ handwritten = {}
    /\ writing = [s \in Sessions |-> {}]
    /\ pc = [s \in Sessions |-> "idle"]
    /\ call = [s \in Sessions |-> NoCall]
    /\ ver = [s \in Sessions |-> NoVer]
    /\ flag = [s \in Sessions |-> FALSE]
    /\ recorded = [s \in Sessions |-> FALSE]

------------------------------------------------------------------------------
(* Transactions and row locks. *)

Free(s, a) == lock[a] \in {Nobody, s}

\* Locking a row that does not exist locks nothing.
Lock(s, a) ==
    /\ Free(s, a)
    /\ lock' = IF work[a] = NoRow THEN lock ELSE [lock EXCEPT ![a] = s]

\* FOR UPDATE and DELETE wait also for the sessions that share the row's key.
Unshared(s, a) == \A x \in Sessions \ {s} : a \notin writing[x]

Begin(s) ==
    /\ pc[s] = "idle"
    /\ pc' = [pc EXCEPT ![s] = "ready"]
    /\ UNCHANGED <<rows, entries, call, ver, flag, recorded>>

KeepLocks(s) == UNCHANGED lock    \* mutant of ReleaseLocks: the failed transaction stays open
ReleaseLocks(s) == lock' = [a \in Accounts |-> IF lock[a] = s THEN Nobody ELSE lock[a]]

ResetSetting(s) == flag' = [flag EXCEPT ![s] = FALSE]

\* The end of a transaction: its locks, its LOCAL setting and its variables go.
End(s) ==
    /\ ReleaseLocks(s)
    /\ ResetSetting(s)
    /\ pc' = [pc EXCEPT ![s] = "idle"]
    /\ call' = [call EXCEPT ![s] = NoCall]
    /\ ver' = [ver EXCEPT ![s] = NoVer]
    /\ recorded' = [recorded EXCEPT ![s] = FALSE]
    /\ writing' = [writing EXCEPT ![s] = {}]

\* Mutant of Rollback: the first update survives when a later statement fails.
RollbackKeepsChanges(s) == End(s) /\ UNCHANGED <<accounts, work, transactions, handwritten>>

Rollback(s) ==
    /\ work' = [a \in Accounts |-> IF lock[a] = s THEN accounts[a] ELSE work[a]]
    /\ End(s)
    /\ UNCHANGED <<accounts, transactions, handwritten>>

\* Mutants of EntryOf: an amount column without scale; an amount cut to cents.
EntryUnrounded(s) == [from |-> call[s].from, to |-> call[s].to, cents |-> call[s].amount]
EntryTruncated(s) ==
    [from |-> call[s].from, to |-> call[s].to, cents |-> call[s].amount \div Mills]

EntryOf(s) == [from |-> call[s].from, to |-> call[s].to, cents |-> ToCents(call[s].amount)]

Commit(s) ==
    /\ pc[s] = "ready"
    /\ accounts' = [a \in Accounts |-> IF lock[a] = s THEN work[a] ELSE accounts[a]]
    /\ transactions' = IF recorded[s] THEN Append(transactions, EntryOf(s)) ELSE transactions
    /\ handwritten' = handwritten \cup writing[s]
    /\ End(s)
    /\ UNCHANGED work

\* The client's connection is lost or it gives up, in any statement.
Disconnect(s) == pc[s] # "idle" /\ Rollback(s)

------------------------------------------------------------------------------
(* transferMoney(), statement by statement. *)

\* Mutant of CallTransferMoney: the amount is not checked.
CallUnchecked(s, c) ==
    /\ pc[s] = "ready" /\ ~recorded[s] /\ Len(transactions) < MaxLedger
    /\ pc' = [pc EXCEPT ![s] = "lock_source"]
    /\ call' = [call EXCEPT ![s] = c]
    /\ UNCHANGED <<rows, entries, ver, flag, recorded>>

\* At most one transfer per transaction, as TransactionService::transfer does.
CallTransferMoney(s, c) ==
    /\ pc[s] = "ready" /\ ~recorded[s] /\ Len(transactions) < MaxLedger
    /\ \/ /\ c.amount <= 0
          /\ Rollback(s)
       \/ /\ c.amount > 0
          /\ pc' = [pc EXCEPT ![s] = "lock_source"]
          /\ call' = [call EXCEPT ![s] = c]
          /\ UNCHANGED <<rows, entries, ver, flag, recorded>>

\* Mutant of LockSource: the row is read without FOR UPDATE.
ReadSource(s) ==
    LET a == call[s].from IN
    /\ pc[s] = "lock_source"
    /\ ver' = IF accounts[a] = NoRow THEN ver
              ELSE [ver EXCEPT ![s].balance = accounts[a].balance, ![s].from = accounts[a].currency]
    /\ pc' = [pc EXCEPT ![s] = "lock_destination"]
    /\ UNCHANGED <<rows, entries, call, flag, recorded>>

\* SELECT ... INTO leaves the variables null when there is no row.
LockSource(s) ==
    LET a == call[s].from IN
    /\ pc[s] = "lock_source"
    /\ Unshared(s, a) /\ Lock(s, a)
    /\ ver' = IF work[a] = NoRow THEN ver
              ELSE [ver EXCEPT ![s].balance = work[a].balance, ![s].from = work[a].currency]
    /\ pc' = [pc EXCEPT ![s] = "lock_destination"]
    /\ UNCHANGED <<accounts, work, entries, call, flag, recorded>>

\* Mutant of LockDestination: the row is read without FOR UPDATE.
ReadDestination(s) ==
    LET a == call[s].to IN
    /\ pc[s] = "lock_destination"
    /\ ver' = IF accounts[a] = NoRow THEN ver ELSE [ver EXCEPT ![s].to = accounts[a].currency]
    /\ pc' = [pc EXCEPT ![s] = "check"]
    /\ UNCHANGED <<rows, entries, call, flag, recorded>>

LockDestination(s) ==
    LET a == call[s].to IN
    /\ pc[s] = "lock_destination"
    /\ Unshared(s, a) /\ Lock(s, a)
    /\ ver' = IF work[a] = NoRow THEN ver ELSE [ver EXCEPT ![s].to = work[a].currency]
    /\ pc' = [pc EXCEPT ![s] = "check"]
    /\ UNCHANGED <<accounts, work, entries, call, flag, recorded>>

Covered(s) == Mills * ver[s].balance >= call[s].amount

Refusal(s) ==
    IF      ver[s].from = Null        THEN "no_source"
    ELSE IF ver[s].to = Null          THEN "no_destination"
    ELSE IF ver[s].from # ver[s].to   THEN "currency_mismatch"
    ELSE IF ~Covered(s)               THEN "insufficient_funds"
    ELSE "accepted"

Check(s) ==
    /\ pc[s] = "check"
    /\ \/ /\ Refusal(s) # "accepted"
          /\ Rollback(s)
       \/ /\ Refusal(s) = "accepted"
          /\ pc' = [pc EXCEPT ![s] = "debit"]
          /\ flag' = [flag EXCEPT ![s] = TRUE]
          /\ UNCHANGED <<rows, entries, call, ver, recorded>>

\* UPDATE accounts SET balance = <mills> for row a, with the numeric's range
\* check and the trigger that guards the column.  No row: nothing to update.
UpdateBalance(s, a, mills, next) ==
    /\ Free(s, a)
    /\ \/ /\ work[a] # NoRow
          /\ ToCents(mills) \notin Cents
          /\ Rollback(s)
       \/ /\ work[a] # NoRow
          /\ ToCents(mills) \in Cents /\ ~flag[s]
          /\ Rollback(s)
       \/ /\ work[a] = NoRow \/ (ToCents(mills) \in Cents /\ flag[s])
          /\ work' = IF work[a] = NoRow THEN work
                     ELSE [work EXCEPT ![a].balance = ToCents(mills)]
          /\ Lock(s, a)
          /\ pc' = [pc EXCEPT ![s] = next]
          /\ UNCHANGED <<accounts, entries, call, ver, flag, recorded>>

Debit(s) ==
    LET a == call[s].from IN
    /\ pc[s] = "debit"
    /\ UpdateBalance(s, a, Mills * work[a].balance - call[s].amount, "credit")

Credit(s) ==
    LET a == call[s].to IN
    /\ pc[s] = "credit"
    /\ UpdateBalance(s, a, Mills * work[a].balance + call[s].amount, "record")

\* Mutant of Insertable: the column has no CHECK (amount > 0).
InsertableZero(s) == work[call[s].from] # NoRow /\ work[call[s].to] # NoRow

\* The constraints of table transactions: CHECK (amount > 0) on the amount as
\* stored, and both ids in accounts.
Insertable(s) ==
    /\ EntryOf(s).cents > 0
    /\ work[call[s].from] # NoRow /\ work[call[s].to] # NoRow

\* Mutant of Record: the flag is not turned off again.
RecordLeavesFlag(s) ==
    /\ pc[s] = "record"
    /\ \/ /\ ~Insertable(s)
          /\ Rollback(s)
       \/ /\ Insertable(s)
          /\ recorded' = [recorded EXCEPT ![s] = TRUE]
          /\ pc' = [pc EXCEPT ![s] = "ready"]
          /\ UNCHANGED <<rows, entries, call, ver, flag>>

Record(s) ==
    /\ pc[s] = "record"
    /\ \/ /\ ~Insertable(s)
          /\ Rollback(s)
       \/ /\ Insertable(s)
          /\ recorded' = [recorded EXCEPT ![s] = TRUE]
          /\ flag' = [flag EXCEPT ![s] = FALSE]
          /\ pc' = [pc EXCEPT ![s] = "ready"]
          /\ UNCHANGED <<rows, entries, call, ver>>

------------------------------------------------------------------------------
(* Statements on rows, with the triggers that guard them.  A statement that *)
(* has to wait for a row is taken when its wait is over.                    *)

SetBalance(s, a, cents) ==
    /\ s \in Interactive /\ pc[s] = "ready"
    /\ UpdateBalance(s, a, Mills * cents, "ready")

\* No trigger guards the other columns.
SetCurrency(s, a, currency) ==
    /\ s \in Interactive /\ pc[s] = "ready" /\ work[a] # NoRow
    /\ Lock(s, a)
    /\ work' = [work EXCEPT ![a].currency = currency]
    /\ UNCHANGED <<accounts, entries, pc, call, ver, flag, recorded>>

Names(entry, a) == a \in {entry.from, entry.to}

\* Mutant of Referenced: from_account has no foreign key.
ReferencedAsDestination(s, a) ==
    \/ \E i \in DOMAIN transactions : transactions[i].to = a
    \/ recorded[s] /\ call[s].to = a
    \/ a \in handwritten \cup writing[s]

\* The foreign keys of transactions look at committed entries and one's own.
Referenced(s, a) ==
    \/ \E i \in DOMAIN transactions : Names(transactions[i], a)
    \/ recorded[s] /\ Names(EntryOf(s), a)
    \/ a \in handwritten \cup writing[s]

DeleteAccount(s, a) ==
    /\ s \in Interactive /\ pc[s] = "ready" /\ work[a] # NoRow
    /\ Free(s, a) /\ Unshared(s, a)
    /\ \/ /\ work[a].balance # 0
          /\ Rollback(s)
       \/ /\ work[a].balance = 0 /\ Referenced(s, a)
          /\ Rollback(s)
       \/ /\ work[a].balance = 0 /\ ~Referenced(s, a)
          /\ Lock(s, a)
          /\ work' = [work EXCEPT ![a] = NoRow]
          /\ UNCHANGED <<accounts, entries, pc, call, ver, flag, recorded>>

\* The rows a call of x has locked FOR UPDATE so far, or x has deleted: a lock
\* that a plain update took leaves the key to others.
HoldsKey(x, a) ==
    /\ lock[a] = x
    /\ \/ work[a] = NoRow
       \/ a = call[x].from /\ (pc[x] \notin {"idle", "ready", "lock_source"} \/ recorded[x])
       \/ a = call[x].to /\ (pc[x] \in {"check", "debit", "credit", "record"} \/ recorded[x])

KeysFree(s, named) == \A a \in named, x \in Sessions \ {s} : ~HoldsKey(x, a)

\* INSERT of an entry, which no trigger guards: the constraints of the table
\* do, CHECK (amount > 0) first.  No balance is touched.
InsertEntry(s, from, to, positive) ==
    LET named == {from, to} \ {Null} IN
    /\ s \in Interactive /\ pc[s] = "ready"
    /\ \/ /\ ~positive
          /\ Rollback(s)
       \/ /\ positive /\ KeysFree(s, named) /\ \E a \in named : work[a] = NoRow
          /\ Rollback(s)
       \/ /\ positive /\ KeysFree(s, named) /\ \A a \in named : work[a] # NoRow
          /\ writing' = [writing EXCEPT ![s] = @ \cup named]
          /\ UNCHANGED <<rows, transactions, handwritten, pc, call, ver, flag, recorded>>

\* UPDATE or DELETE of an entry the session can see.
EditTransactions(s) ==
    /\ s \in Interactive /\ pc[s] = "ready"
    /\ transactions # << >> \/ recorded[s] \/ handwritten \cup writing[s] # {}
    /\ Rollback(s)

------------------------------------------------------------------------------
(* PostgreSQL's deadlock detector: one session of a cycle of waits fails. *)

WaitsFor(s) ==
    LET needed == IF pc[s] = "lock_source" THEN {call[s].from}
                  ELSE IF pc[s] = "lock_destination" THEN {call[s].to} ELSE {}
    IN  ({lock[a] : a \in needed} \ {Nobody, s})
            \cup {x \in Sessions \ {s} : writing[x] \cap needed # {}}

Deadlocked(s) ==
    \E cycle \in SUBSET Sessions : s \in cycle /\ cycle = UNION {WaitsFor(x) : x \in cycle}

DeadlockVictim(s) == Deadlocked(s) /\ Rollback(s)

------------------------------------------------------------------------------
CallStep(s) == LockSource(s) \/ LockDestination(s) \/ Check(s) \/ Debit(s) \/ Credit(s) \/ Record(s)

Statement(s) ==
    \/ \E a \in Accounts, cents \in Cents : SetBalance(s, a, cents)
    \/ \E a \in Accounts, currency \in Currencies \cup {Null} : SetCurrency(s, a, currency)
    \/ \E a \in Accounts : DeleteAccount(s, a)
    \/ \E from, to \in Accounts \cup {Null}, positive \in BOOLEAN : InsertEntry(s, from, to, positive)
    \/ EditTransactions(s)

Next ==
    \E s \in Sessions :
        \/ Begin(s)
        \/ \E c \in Call : CallTransferMoney(s, c)
        \/ CallStep(s)
        \/ Statement(s)
        \/ Commit(s)
        \/ Disconnect(s)
        \/ DeadlockVictim(s)

Spec == Init /\ [][Next]_vars

\* The backend runs each statement to its end; a client commits what it began;
\* waiters for a row get it in turn; the detector finds every deadlock.
Fairness ==
    \A s \in Sessions :
        /\ WF_vars(CallStep(s))
        /\ SF_vars(LockSource(s)) /\ SF_vars(LockDestination(s))
        /\ WF_vars(Commit(s))
        /\ WF_vars(DeadlockVictim(s))

FairSpec == Spec /\ Fairness

------------------------------------------------------------------------------
(* Properties. *)

Steps == {"idle", "ready", "lock_source", "lock_destination", "check", "debit", "credit", "record"}

\* Types of the variables.
TypeOK ==
    /\ accounts \in Rows /\ work \in Rows
    /\ lock \in [Accounts -> Sessions \cup {Nobody}]
    /\ transactions \in Seq(Entry)
    /\ handwritten \subseteq Accounts /\ writing \in [Sessions -> SUBSET Accounts]
    /\ pc \in [Sessions -> Steps]
    /\ call \in [Sessions -> Call]
    /\ ver \in [Sessions -> Ver]
    /\ flag \in [Sessions -> BOOLEAN] /\ recorded \in [Sessions -> BOOLEAN]

\* A change that is not committed is always under the lock of an open
\* transaction, so nobody builds on it and rolling that one back removes it.
ChangesAreLocked ==
    \A a \in Accounts :
        /\ work[a] # accounts[a] => lock[a] # Nobody
        /\ lock[a] # Nobody => pc[lock[a]] # "idle"

\* From the check to the end of its transaction, what transferMoney verified
\* about its two accounts stays true in the database: the session holds both
\* rows, the committed balance covers the amount and, until the entry is
\* recorded, the accounts have one currency.
CheckHolds(s) ==
    LET from == call[s].from  to == call[s].to IN
    pc[s] \in {"debit", "credit", "record"} \/ recorded[s] =>
        /\ lock[from] = s /\ lock[to] = s
        /\ accounts[from] # NoRow /\ accounts[to] # NoRow
        /\ work[from] # NoRow /\ work[to] # NoRow
        /\ recorded[s] \/ work[from].currency = work[to].currency
        /\ 0 < call[s].amount /\ call[s].amount <= Mills * accounts[from].balance

CheckStillHolds == \A s \in Sessions : CheckHolds(s)

\* Foreign keys: both accounts of an entry, committed or not, are in the table.
LedgerAccountsExist ==
    \A a \in Accounts :
        /\ \/ \E i \in DOMAIN transactions : Names(transactions[i], a)
           \/ \E s \in Sessions : recorded[s] /\ Names(EntryOf(s), a)
           \/ a \in handwritten \/ \E s \in Sessions : a \in writing[s]
        => work[a] # NoRow /\ accounts[a] # NoRow

\* What a call read to check itself is still what its rows hold: once a row
\* is locked for it, no other session can make ver_* stale.
Holds(s, a, currency) == lock[a] = s /\ work[a] # NoRow /\ currency = work[a].currency

ReadsCurrent(s) ==
    /\ pc[s] \in {"lock_destination", "check"} /\ ver[s].from # Null =>
           /\ Holds(s, call[s].from, ver[s].from)
           /\ ver[s].balance = work[call[s].from].balance
    /\ pc[s] = "check" /\ ver[s].to # Null => Holds(s, call[s].to, ver[s].to)

ReadsAreCurrent == \A s \in Sessions : ReadsCurrent(s)

BalanceOf(row) == IF row = NoRow THEN 0 ELSE row.balance

\* What the updates a call has done so far make of a committed balance.
AfterDebit(s, a, cents) ==
    IF a = call[s].from /\ (pc[s] \in {"credit", "record"} \/ recorded[s])
    THEN ToCents(Mills * cents - call[s].amount) ELSE cents

AfterCredit(s, a, cents) ==
    IF a = call[s].to /\ (pc[s] = "record" \/ recorded[s])
    THEN ToCents(Mills * cents + call[s].amount) ELSE cents

ChangedBy(s, a) ==
    lock[a] = s => BalanceOf(work[a]) = AfterCredit(s, a, AfterDebit(s, a, BalanceOf(accounts[a])))

\* An open transaction has changed the balances of its rows by exactly the
\* updates its call has done so far, whatever other statements it ran.
OpenChanges == \A s \in Sessions, a \in Accounts : ChangedBy(s, a)

\* Facts of single steps: accounts are not inserted, the flag is up only
\* during the updates of a call, an entry waits only for the commit.
StepFacts ==
    /\ \A a \in Accounts : accounts[a] = NoRow => work[a] = NoRow
    /\ \A s \in Sessions :
        /\ flag[s] => pc[s] \in {"debit", "credit", "record"}
        /\ recorded[s] => pc[s] = "ready" /\ EntryOf(s).cents > 0
        /\ pc[s] \notin {"idle", "ready"} => call[s].amount > 0
        /\ pc[s] \in {"idle", "ready", "lock_source"} /\ ~recorded[s] => ver[s] = NoVer
        /\ pc[s] = "lock_destination" => ver[s].to = Null

\* The inductive invariant behind the properties above and below.
IInv ==
    /\ TypeOK /\ StepFacts /\ ChangesAreLocked /\ ReadsAreCurrent
    /\ CheckStillHolds /\ OpenChanges /\ LedgerAccountsExist

Balances == [a \in Accounts |-> BalanceOf(accounts[a])]
OpeningBalances == [a \in Accounts |-> BalanceOf(OpeningRows[a])]

\* The committed amounts, and what they add up to into and out of an account.
Moved == [i \in DOMAIN transactions |-> transactions[i].cents]
Received(a) == SumFunctionOnSet(Moved, {i \in DOMAIN transactions : transactions[i].to = a})
Sent(a) == SumFunctionOnSet(Moved, {i \in DOMAIN transactions : transactions[i].from = a})

\* The entries of transferMoney explain every committed balance: the opening
\* balance, plus what it received, less what it sent.  Entries a client inserts
\* itself stand beside them and move nothing.
Reconciled == \A a \in Accounts : Balances[a] = OpeningBalances[a] + Received(a) - Sent(a)

\* No transfer creates or destroys money.
MoneyConserved == SumFunctionOnSet(Balances, Accounts) = SumFunctionOnSet(OpeningBalances, Accounts)

\* A committed balance that shrinks does not end below zero, however many
\* transfers out of the account run at once.
NoOverdraft ==
    [][\A a \in Accounts : Balances'[a] < Balances[a] => Balances'[a] >= 0]_vars

\* The database implements the promise of module Bank.
Promise == INSTANCE Bank WITH balance <- Balances, ledger <- transactions, Opening <- OpeningBalances
ImplementsBank == Promise!Spec

\* Every transferMoney call ends, in spite of the rows it has to wait for.
CallsEnd == \A s \in Sessions : pc[s] = "lock_source" ~> pc[s] = "idle"

\* database/tests/test_triggers.sql:93: deleting a zero-balance account is allowed.
ZeroBalanceDeletable ==
    \A s \in Interactive, a \in Accounts :
        pc[s] = "ready" /\ Free(s, a) /\ work[a] # NoRow =>
            (work[a].balance = 0 => ~Referenced(s, a))
==============================================================================
