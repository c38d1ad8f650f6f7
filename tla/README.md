# A formal model of the Core Bank Infrastructure

TLA+ modules that model the bank's database procedures and its transaction
server, the TLC runs that check them on small instances, and TLAPS proofs of
what matters most for every instance. Paths below are relative to the
repository.

## 1. The system

| part | code | state | operations |
|---|---|---|---|
| schema | `database/initdb.sql` | tables `accounts`, `transactions` | constraints: `NUMERIC(14,2)` range and rounding, `CHECK (amount > 0)`, foreign keys |
| transfer procedure | `database/procedures/transferMoney.sql` | the variables of a call, the session setting `database1.allow_balance_update` | `transferMoney(from, to, amount, description)` |
| triggers | `database/procedures/triggers.sql` | none | refuse direct updates of `balance`, changes of `transactions`, deletion of an account that holds money |
| data access layer | `core/src/{db_connection,account_service,transactions}.cpp` | one `pqxx::connection` for the whole process, `dbMutex` | `connect`, `lock`, `createWriteTransaction`, `createReadTransaction`; `getBalance`; `transfer` |
| transaction server | `core/src/server.cpp`, `main.cpp` | `listenSocket`, `running`, the accept thread, one detached worker thread per client | `start`, `stop`, `acceptLoop`, `handleClient` (PING, BALANCE, TRANSFER) |
| demos | `server/demo`, `server/concurrency`, `core/demo` | a listening socket; a global counter | a sequential HTTP responder; a mutex demonstration |

**How they interact.** A worker thread receives a command, takes `dbMutex`,
opens a transaction on the shared connection, runs a query, commits, lets the
transaction and then the lock go, and sends the answer. PostgreSQL runs
`transferMoney` inside that transaction, statement by statement, beside other
sessions (psql, the tests, a second server) that lock the same rows. The
triggers run inside those statements and read the session's setting.

**What is hard.** Two sessions interleave between any two statements of
`transferMoney`. The row locks are taken in argument order, so transfers in
opposite directions can deadlock. The checks are made on values read earlier.
An update can fail after the other one was done. The setting that opens the
balance column must not stay open. The three places an amount reaches round it
separately. In the server, all workers share one connection and one mutex, and
the connection can be lost in every step, the commit included, and is never
opened again. `stop` runs beside the accept loop, which reads `listenSocket`
without synchronisation while descriptor numbers are freed and used again. TCP
cuts what a client writes as it likes, and `handleClient` takes each piece for
a command. A client that leaves at the wrong moment can end the process of all
others.

**What makes each part correct.**

- Database: a committed transfer is whole (debit, credit and entry in one
  step), covered by the source's committed balance, and recorded with the
  amount that moved; nothing else changes a balance; the entries of transfers
  explain every balance; all entries name existing accounts; every call ends.
- Server: one worker at a time uses the connection; each command takes effect
  at one instant between its arrival and its answer, at most once; `OK` and
  `BALANCE` are true of that instant, to the digits that are printed; a client
  that asked is answered, unless the process ends; a transfer that the process
  was in when it died is whole or not done.
- Commands: a client that waits for its answers reads one for each line, in
  order; no cut of the stream makes a transfer run twice or between other
  accounts.
- Server lifecycle: the socket of a client is closed by its worker and nobody
  else; the listening socket is never leaked; after `stop` no thread accepts;
  `stop` returns although `accept` blocks.
- Demos: no increment is lost, and the printed count is the expected one; every
  client of the HTTP demo has its turn, one that stays is sent the whole page,
  and no descriptor is leaked.

`PROJECT.json` lists all components and hazards, each at its line.

## 2. Modules

| module | models |
|---|---|
| `Numeric` | money as it is stored and printed: `ToCents`, `IsTie`, `Shown` |
| `Bank` | abstract: what the database promises. A transfer is one step |
| `BankDatabase` | the sessions, `transferMoney` by statement, triggers, constraints, locks; implements `Bank` |
| `ServicePromise` | abstract: what the server promises a client |
| `TransactionServer` | `main`, the workers, `dbMutex`, the shared connection, clients that leave, crash and restart; implements `ServicePromise` |
| `CommandStream` | one connection as a stream: lines, segments, buffer, commands, answers |
| `ServerLifecycle` | `start`, `stop`, the accept loop and the detached workers over the descriptor table |
| `HttpDemo` | the sequential HTTP server and its clients |
| `AtomicCounter` | abstract: a counter with atomic increments |
| `CounterDemo` | the concurrency demo; implements `AtomicCounter` |
| `BankDatabaseProofs`, `TransactionServerProofs`, `ServerLifecycleProofs`, `CommandStreamProofs`, `HttpDemoProofs`, `CounterDemoProofs` | theorems about the module they are named after |
| `CommandOrderProofs` | where each symbol of a stream comes from: the order of its transfers |
| `FunctionSums` | lemmas about sums over finite sets, for the ledger |
| `MCBankDatabase`, `MCTransactionServer`, `MCServerLifecycle`, `MCCommandStream`, `MCDemos` | small instances for TLC |

`BankDatabase`, `TransactionServer` and `CounterDemo` implement their abstract
modules by an instance each. `TransactionServer` takes the database as the
environment that `BankDatabase` models and receives commands already parsed;
`CommandStream` finds those commands in the bytes and keeps of their execution
only the order; `ServerLifecycle` keeps of a command only that its worker is in
a query. The demos touch nothing of the rest; `MCDemos` runs one after the
other, which leaves the properties of each what they are.

### BankDatabase and the code

`work` is the newest version of each row and `accounts` the committed one;
`lock[a]` is the session whose transaction holds the row, so that
`accounts[a]` and `work[a]` differ only under a lock (this is checked and
proved: `ChangesAreLocked`). `pc[s]` is the next statement of the session's
call. `ver[s]` holds `ver_from_balance`, `ver_from_currency`,
`ver_to_currency`; `flag[s]` is the setting; `recorded[s]` says that the entry
of the call is inserted and not yet committed.

The table `transactions` is kept in two parts. The variable `transactions` has
the entries that `transferMoney` inserted. No trigger guards an `INSERT`
(`triggers.sql:32`: transactions "can be only added on the table"), and `sample.sql:92` and
`test_triggers.sql:42` insert entries without any transfer; of those only the
accounts they name matter, to the foreign keys, and `handwritten` (committed)
and `writing[s]` (not yet) keep them. What is promised of the ledger is
promised of the first part. The table as a whole explains the balances only as
long as nobody inserts an entry: one made by hand says that money moved, and
none did. Loading the sample data is a first transaction of such inserts.

| action | code |
|---|---|
| `Begin`, `Commit`, `Rollback` | `transactions.cpp:20-48`: `createWriteTransaction`, `commit`, the destructor after an exception |
| `CallTransferMoney` | the amount check, `transferMoney.sql:16-19` |
| `LockSource`, `LockDestination` | the two `SELECT ... FOR UPDATE`, lines 21-33 |
| `Check` | lines 35-58: the four refusals in their order, then the setting |
| `Debit`, `Credit` | lines 60-67; both are `UpdateBalance`, which holds the column's range check and the trigger `prevent_direct_balance_update` |
| `Record` | lines 69-79: the insert with its constraints, the setting reset |
| `SetBalance`, `SetCurrency`, `DeleteAccount`, `EditTransactions` | statements a person types in psql, with the triggers and foreign keys that guard them |
| `InsertEntry` | an `INSERT INTO transactions` by a client: `CHECK (amount > 0)`, then the foreign keys, which share the keys of the two rows (`FOR KEY SHARE`) until the transaction ends |
| `Disconnect` | the session ends in any statement; PostgreSQL rolls back |
| `DeadlockVictim` | PostgreSQL's deadlock detector |

Money is counted in cents, amounts of calls in *mills* (tenths of a cent):
PostgreSQL drops the type modifier of a function argument, so `transf_amount
NUMERIC(12,2)` does not round, and the columns do.

Abstractions, all deliberate:

- READ COMMITTED, which every caller uses. A statement that has to wait is a
  step that is not enabled until its row is free, and it sees the row as it is
  then, as `FOR UPDATE` and `UPDATE` do.
- An error ends the whole transaction. The inner `EXCEPTION` block re-raises,
  and every caller in the repository rolls back. Errors caught by a
  client-side savepoint are not modelled.
- At most one `transferMoney` per transaction, as `TransactionService` does it.
- Of the statements a person may type, these are left out: `INSERT INTO
  accounts`, a change of an account's id, `TRUNCATE` (no row trigger sees it:
  it empties the ledger and leaves the balances), and whatever takes the
  schema's protection away, that is DDL and setting
  `database1.allow_balance_update` by hand.
- A row lock has two strengths here: what `FOR UPDATE` and `DELETE` hold
  (`HoldsKey`) keeps an insert that names the row waiting, and the other way
  round (`Unshared`); a plain `UPDATE` and such an insert do not disturb each
  other.
- A statement of one session is one step between row waits: locks make the
  rows it touches stable.

### TransactionServer and the code

`pc[c]` is where the worker of client `c` is: `recv`, `dispatch` (PING and bad
lines), then `lock`, `begin`, `exec`, `commit`, `end`, `unlock`, `send`. The
steps `end` and `unlock` are the destructors of the transaction and of the
lock guard: `guard` is declared before `tx` in `transactions.cpp:18-21` and
`account_service.cpp:8-9`, so the transaction goes first. `process` is how far
`main` came, `peer[c]` the client's end of the socket.

| action | code |
|---|---|
| `LoadConfig`, `OpenConnection`, `StartServer` | `main.cpp:42-56`; each may throw, and `main` returns |
| `Connect` | `acceptLoop` starts a worker; when no thread can be created, the exception ends the process |
| `Receive`, `Dispatch` | `handleClient`: a command is read; PING and bad lines are answered |
| `LockMutex`, `Begin` | `db.lock()`, `createWriteTransaction` or `createReadTransaction`, which throw "Database not connected!" |
| `Execute`, `Commit`, `CommitFails` | the query and its commit; `Results` is what `getBalance` and `transfer` make of it |
| `EndTransaction`, `UnlockMutex` | the two destructors |
| `Throw` | any exception: the destructors that are due, then `ERROR` (`server.cpp:165-178`) |
| `Send` | the answer; to a client that left, the first is answered with a reset, and the next may raise SIGPIPE |
| `HangUp`, `Leave` | the end of the loop; a client closes its socket, with commands on their way |
| `Kill`, `Die` | the process ends: backend and kernel clean up, and a COMMIT that was sent may be applied |

The database is external here: `Execute` accepts a covered transfer, whose rows
stay locked until the commit, or raises (also for reasons the server cannot
see), `Commit` applies it, and `OtherTransfer` is another session that moves
money between rows that are not locked. Amounts are whole cents here; what
half a cent does is in `BankDatabase`. A balance is printed with six
significant digits (`server.cpp:147`); `Shown` gives the numbers that may come
out, two when a double cannot tell them apart, and `ExactBelow` is the first
number of cents that has more digits (1000000 in the code). Customers and their
names, which `getAccount` joins, are left out.

### CommandStream and the code

`stream` is what a client wrote and nobody received, a sequence of symbols: key
words, digits, spaces and line ends. `Receive` takes a prefix of it, as much as
arrived and fits the buffer (`server.cpp:104-123`), and skips it when nothing
is left without line ends; `Command` is what `operator>>` finds in the buffer,
which treats a line end inside like a space and ignores what follows the last
argument; `Send` answers. A `patient` client waits for each answer, as
`test_server.cpp:69-108` does; the others write ahead. With `whole`, segments
end where lines end; without it they end anywhere, and lines are joined and
split. Key words are single symbols: half a key word is an unknown one.

`Span` and `Extract` are `operator>>`: skip separators, take what fits the type,
leave the rest. `Fits` says when the buffer holds a line: the blank lines just
before it may arrive with it and take room in the buffer, so they count. A
client is `Polite` when it is patient, its segments are whole, and its lines
fit; `Asked` counts the lines it expects an answer to.

`StreamAssumption` states what a line is: it ends with a line end and has no
other. One thing more is asked of scripts where transfers are compared with
lines, `PlainScripts`: no line starts with a number, and none says `TRANSFER`
after its first word. A segment that ends inside a line or starts inside one is
read as a line of its own; a number at the start of the next line would be taken
for the missing amount of the one before, and the tail of a description that
says `TRANSFER 1 2 3` for a transfer. Both are what the code does with such
scripts; nothing else about scripts is assumed.

### HttpDemo, CounterDemo and the code

| action | code |
|---|---|
| `OpenSocket`, `SetOption`, `Bind`, `Listen` | the four calls of `init`, which close the socket when they fail |
| `Accept`, `Receive`, `Send`, `Close` | `run` and `handleClient` (`server/demo/server.cpp:75-186`): one `recv`, the send loop, `close` on every way out |
| `Arrive`, `Write`, `Read`, `Leave` | a client such as `demoCLI.py`, or a slower one |
| `StartThread`, `StartFails`, `Joins`, `Report` | `main` of `server/concurrency/main.cpp` |
| `Lock`, `ReadCounter`, `WriteCounter`, `Unlock`, `EndThread` | `incrementManyTimes`: `globalCounter++` is a read and a write |

TCP is external: a connection is reset, and what was on its way lost, when an
end is closed that was not read empty, or is written to after it was closed.
Segments have sizes, and one `recv` takes at most `BufferParts`, the 4095 bytes
of the code: a request may be too long for it even when it is one segment.

### ServerLifecycle and the code

`table[d]` is what descriptor `d` refers to. `listenSocket` and `running` are
the members of class `Server`; `acceptSocket` is the number the accept loop
read, `clientSocket[w]` the argument of a `handleClient`. `owner`, `acceptor`
and `worker[w]` are the next steps of the three kinds of threads.

| action | code (`server.cpp`) |
|---|---|
| `StartAgain`, `Start` | `start` on a running server; `running = true` and `socket()` |
| `BindAndListen`, `SpawnAcceptor` | `bind` and `listen`, which close the socket and throw when they fail; the start of `acceptThread` |
| `Stop`, `Shutdown`, `CloseListener`, `Join` | `stop`, which `~Server` calls too |
| `Exit` | the return of `main` after `stop` |
| `CheckRunning`, `LoadSocket`, `EnterAccept`, `AcceptClient`, `AcceptFails` | one turn of `acceptLoop`; the number is read before `accept()` is entered |
| `Receive`, `Respond`, `HangUp`, `CloseClient` | `handleClient`: a command with its query, its answer, the end of the loop, `close` |
| `OpenOther`, `CloseOther` | the clients that `test_server.cpp` runs in the process of the server |

The kernel is external: `open` takes the smallest free number; a thread
blocked in `accept` holds the socket and not the number, so `close` does not
wake it and `shutdown` does; `accept` fails at once when no number is free.
When the accept thread cannot be created `start` throws with the socket open;
that a worker cannot be created ends the process, which is in
`TransactionServer`. `bind` and `listen` are one step: nothing
reads the socket between them.

## 3. Runs

| run | instance | shows |
|---|---|---|
| `db_transfers` | 2 sessions, 3 accounts (3, 1 and -1 cents), amounts 0, 0.4, 1.6 and 3 cents, columns of at most 3 cents, 2 entries, fairness | `TypeOK`, `Reconciled` (the entries explain each balance), `MoneyConserved`, `NoOverdraft`, `ImplementsBank`, `CallsEnd` |
| `db_statements` | a transfer session and an interactive one, 2 accounts, amounts -1, 0.4 and 2 cents, 2 currencies and null, 1 entry of a transfer and any entries inserted by hand | `ChangesAreLocked`, `CheckStillHolds`, `LedgerAccountsExist`, `ReadsAreCurrent`, `OpenChanges`, the inductive `IInv`, `ImplementsBank` |
| `server_answers` | 2 clients and other sessions, 3 accounts of which one is unreadable, an unknown id, all commands, fairness | `TypeOK`, `ConnectionIsExclusive`, the inductive `ServerInv`, `ImplementsPromise`, `Answered` |
| `server_lifecycle` | 3 descriptors, 2 workers, 3 calls of `start`, fairness | `WorkersOwnTheirSockets`, `ListenerIsKept`, `StoppedIsQuiet`, `AcceptsTheListener`, the inductive `LifecycleInv`, `StopReturns` |
| `command_lines` | 4 scripts of two or three lines, a buffer of 10 symbols, every cut, fairness | `TypeOK`, the inductive `StreamInv`, `PoliteAnswers` (the right answers in order), `TransfersAreOrdered`, `EveryLineAnswered` |
| `demos` | 2 clients, requests of up to 2 segments of up to 2 parts, a buffer of 1, pages of 3, one part on its way; 2 threads with 2 increments each; fairness | `HttpInv`, `SocketsAreClosed`, `WholePage`, `OneReadIsSafe`, `EveryoneIsServed`; `CounterInv`, `ActualIsExpected`, `ImplementsAtomic`, `DemoEnds` |

Six runs show a disagreement of the code with what the repository says of it;
TLC finds each property violated:

- `db_half_cent` (`MoneyConserved`): an amount of exactly half a cent debits 0
  and credits 1 cent.
- `db_delete` (`ZeroBalanceDeletable`): `test_triggers.sql` says that a
  zero-balance account can be deleted; the foreign keys of the real schema,
  which the test's schema lacks, refuse it once an entry names the account, as
  the test's own entry does.
- `server_in_doubt` (`ErrorMeansNothingMoved`): a commit whose acknowledgement
  is lost is answered `ERROR` though the money moved. A client that retries
  pays twice.
- `server_restart` (`StartedMeansListening`): a `start` that throws leaves
  `running` set, so the next `start` returns without an error and nothing
  listens.
- `server_exit` (`ExitFindsNoQuery`): `stop` does not wait for the detached
  workers; `main` prints that the server stopped cleanly and destroys the
  database connection while one of them may be in a query.
- `command_split` (`TransfersAreWhole`): a line that arrives in two segments is
  executed with the digits of its amount that the first one holds.

The last one bounds what `command_lines` can promise: with arbitrary cuts a
transfer may lose digits of its amount, but is still the client's own, executed
once and in order. It is exact for a client that waits for each answer and whose
lines arrive whole and fit the buffer. Whole segments and short lines alone are
not enough: several lines that were written ahead may arrive as one segment, of
which the full buffer cuts off the end.

### Bounds

`MaxLedger` and `MaxMoved` stop new transfers, not the ones that run: with a
bound of 1, two sessions still have concurrent calls of which one commits and
the others fail, wait or roll back. `MaxCents` is the column's range, scaled
down so that overflow happens. Amounts lie below, above and exactly on cents;
ties (x.5) have a run of their own, because `ImplementsBank`, `Reconciled` and
`MoneyConserved` are false for them. Two sessions are enough for every property between a
reader and a writer and for a deadlock of two; longer cycles are PostgreSQL's
to detect. `ExactBelow` is 10 cents, so that one of the balances has a digit
too many. Three descriptors hold the listening socket and two others, so that
numbers run out and a number of one kind of socket is soon used by another; a
third `start` follows a failed one and its `stop`. The scripts hold a blank
line, a line longer than the buffer, one without its amount, an unknown word
and the same transfer twice; a buffer of 10 symbols holds the longest other
line. A page of three parts, of which one may be on its way, makes the send loop
go round, block and fail in the middle; a segment of two parts does not
fit the buffer, and a second segment may come after the one `recv`. A second pass through the counter's loop meets a value
another thread wrote.

`server_lifecycle` and its two companions, `command_lines`, `command_split` and
`demos` allow deadlock, because a process that exited, a worker that is gone
and a program that has printed its result do nothing more. No symmetry is used.

### Fairness

`FairSpec` of `BankDatabase`: weak fairness of a call's next statement (the
backend runs it), of `Commit` (the client commits what it began) and of
`DeadlockVictim` (the detector runs after `deadlock_timeout`). Strong fairness
of the two row locks stands for PostgreSQL's lock queue, which serves waiters
in turn. Nothing is assumed of `Begin`, of new calls or of `Disconnect`.

`Spec` of `TransactionServer`: weak fairness of each worker, and strong
fairness of `LockMutex`. The latter is an assumption about the scheduler:
`std::mutex` promises no order, but a worker that gives it up goes through
`send` and `recv` before it asks again. Nothing is assumed of clients, and the
connection may be lost or never lost, the process die or live, and be started
again or not.

`Spec` of `ServerLifecycle`: weak fairness of the owner's next step inside
`start` or `stop` and of the accept loop's next step, which are threads that
run. Nothing is assumed of clients and workers, or that anybody calls `stop`.

`Spec` of `CommandStream`: weak fairness of the worker, and of a client that
reads the answers that came and writes its next line; it may leave instead.

`HttpSpec`: weak fairness of the server's thread, and each client leaves in the
end, as `demoCLI.py:16` does after five seconds. Without the latter
`EveryoneIsServed` is false: a client that never writes and never leaves blocks
the only thread. `CounterSpec`: weak fairness of each thread and of `main`; a
thread that waits for the mutex needs no more, because the others lock it
finitely often.

## 4. Proofs

Run `tlapm` on `FunctionSums` and the seven modules `*Proofs.tla`. All theorems
hold for any sets of sessions, accounts, currencies, clients, commands,
descriptors, workers, threads, symbols and scripts and any sizes of requests,
pages and buffers, under the named assumptions `ConstantsAssumption`,
`ServerAssumption`, `LifecycleAssumption`, `StreamAssumption`, `HttpAssumption`
and `CounterAssumption`. These state the types of the constants, that sizes are
not zero, that the table of accounts and the set of threads are finite, and what
a line is. Two hypotheses appear in theorems: `NoTies` (no amount is an exact
half cent; the run `db_half_cent` shows what happens otherwise) and
`PlainScripts` (section 2).

**BankDatabase.** The invariant of interest, `CheckStillHolds`, is not
inductive: it needs to know who may change a row (`ChangesAreLocked`), that
the values compared are the ones in the rows (`ReadsAreCurrent`), and what the
transaction itself has done to them (`OpenChanges`). `IInv` joins these with
`LedgerAccountsExist` and the facts of single steps in `StepFacts` (the flag is
up only inside the updates, an entry waits only for its commit). One lemma per
action shows that it preserves `IInv`; the frame lemmas say that a session
which does not touch the rows another one holds leaves that one's facts alone.
From `IInv`:

- `TypeCorrect`, `ChangesLocked`, `CheckIsStable`, `ReadsStayCurrent`,
  `ChangesAreExact`, `LedgerIsSound`;
- `OverdraftNever`: no committed balance shrinks below zero, ties included;
- `Implementation`: if no amount is an exact half cent, `Spec => ImplementsBank`.
  The only visible step is `Commit`; `OpenChanges` gives the balances it
  publishes, `CheckStillHolds` that they were covered, and a lemma about
  `ToCents` that without ties debit, credit and entry agree.
  What clients insert by hand shows in `handwritten` only, and is no step of `Bank`.
- `LedgerExplainsBalances` (the entries of transfers explain the balances) and
  `MoneyIsConserved`, from `StepIsTransfer`: a step
  changes nothing committed, or is one transfer of `Bank`. The sums of the
  ledger and of the balances then move by its amount, by the theorems of
  `FunctionSums`. `SumFunctionOnSet` takes the members of a set in an order that
  nobody knows; that the order does not matter is proved by looking at a
  smallest subset for which it would, since finite sets are well-founded.

**TransactionServer.** `ServerInv` says which steps hold the mutex and the
transaction, and that a transfer the database accepted is still covered when it
is committed, although others move money, because they respect its locks. The
lemma `Others` carries the facts of the workers that do not step; when the
process dies, every worker is in its first state. From it: `ServerIsSafe`,
`ServerTypeCorrect`, `ConnectionNeverShared`, and `ServerImplementsPromise`,
where the commit, successful, in doubt or cut off by the death of the process,
is the instant a transfer takes effect, and the query the one a balance is of.

**ServerLifecycle.** `LifecycleInv` joins the type invariant, the four
properties and `StepFacts`, which says what each step of `start` and `stop`
finds. Its last conjunct carries the hard case: after a failed start
`listenSocket` keeps a number that `stop` shuts down and closes once more; that
number may have been given to another socket of the process, but never to a
client, because nothing accepts until the next successful `start`. From it:
`LifecycleIsSafe`, `ClientSocketsAreSafe`, `ListenerNeverLeaks`,
`StopIsComplete`, `AcceptsOnlyTheListener`.

**CommandStream.** Two arguments, in two modules.

`CommandStreamProofs` is about polite clients. `PoliteAnswers` alone is not
inductive, because it says nothing of what is under way. `StreamInv` adds that
the commands executed are those of the lines, one by one, and that one of four
phases holds: everything is answered and at most blank lines are in the stream
(`Idle`), or one line is in the stream, in the buffer, or executed and not
answered (`Pending`), alone but for the blank lines just before it. The lemmas
under it say what `Extract` takes from a text and that blank lines in front of a
line do not change its command (`CommandBehind`). From it: `TypeCorrect`,
`OneLineAtATime`, `PoliteClientsAreAnswered`.

`CommandOrderProofs` is about all clients and all cuts. Its invariant,
`OrderInv`, gives each symbol that was written and not yet handled the line and
the place in it that it comes from (`Cut`): two symbols come from one line and
are as far apart in it as they are in the stream, or from two lines with the end
of the first between them. It gives each transfer that was executed its line,
and says that every line that still starts in the stream is a later one. The
step that executes a command needs `TransferOfPiece`: a piece of the stream that
says `TRANSFER` begins, blank lines apart, where a line begins, and its
arguments are those of that line, except for the end of the last
(`NumberOfPiece`, `ArgumentsOfPiece`). For polite clients the exact amounts
follow from `StreamInv`. From both: `TransfersKeepTheirOrder`.

**CounterDemo.** `CounterInv` says that the thread inside is the one that holds
the mutex, and that what it has read is still the counter when it writes. From
it: `CounterIsSafe` and `CounterImplementsAtomic`, where the write is the
increment. `CountIsExact`, that the printed count is the expected one, needs no
sum: the increments made so far are pairs of a thread and one of its turns
(`Made`), each write adds one, so the counter is their number, and
at the end they are all of `Threads \X (1 .. Times)`.

**HttpDemo.** `HttpInv` says of each connection what the server's step implies:
the socket that is handled is the only open one, what was sent is below the
page until the loop ends, and a client that stays is reset only if its
request was not `OneRead`, one segment that fits the buffer. From it:
`HttpIsSafe`, `SocketsNeverLeak`, `PageIsSentWhole` and `OneReadNeverReset`.

**Only model-checked.** Liveness under fairness, which the prover cannot
reason about: `CallsEnd`, `Answered`, `StopReturns`, `EveryLineAnswered`,
`DemoEnds` and `EveryoneIsServed`. Every other property of a run that passes is
a theorem. The six violated properties are false, each shown by its run.

## 5. Not modelled

- `core/include/json.hpp`, 25712 of the 27144 lines of C++: the third-party
  parser that `loadConfig` calls once. It is why the models cover a small
  share of the lines; of the program's own code every part that keeps state is
  covered. The googletest samples are third-party too.
- Customers, audit logs and reporting views: nothing the other parts read.
- Tests and demos of the data access layer: straight-line callers, read for
  what they say of the code.
- `accountExist` and `printAccount`: they call `getAccount`, change no state
  and are called by no other part. Argument parsing of the programs; the
  description text that `TRANSFER` accepts and drops.
- A second `connect()` while workers run, which would replace the connection
  without `dbMutex`: no code does that.
- Short sends of the bank's server (`server.cpp:182`): an answer is a few bytes,
  and a client that lets its window fill up blocks only its own worker, which
  holds no lock while it sends.
