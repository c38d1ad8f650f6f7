--------------------------- MODULE TransactionServer ---------------------------
(***************************************************************************)
(* The process of the transaction server: main() connects to the database  *)
(* once, and each client has a worker (core/src/server.cpp, handleClient)  *)
(* that receives a command, calls the data access layer, which holds the   *)
(* mutex of DBConnection while a pqxx transaction is open, and sends the   *)
(* answer.  The connection may be lost at any moment and nothing opens it  *)
(* again; clients leave at any moment; the process dies and is started     *)
(* again.                                                                  *)
(*                                                                         *)
(* The database is external here: executing transferMoney() accepts a      *)
(* covered transfer, whose rows stay locked, or raises, and a commit       *)
(* applies what was accepted (BankDatabase models how).  Amounts are whole *)
(* cents here: how others are rounded, and what half a cent does, is in    *)
(* BankDatabase.  Other sessions transfer money beside the server.         *)
(***************************************************************************)
EXTENDS Numeric, FiniteSets

CONSTANTS Clients,    \* clients, each with a worker thread of its own
          Accounts,   \* the account ids in the table
          Commands,   \* the lines clients may send, parsed
          Unreadable, \* those whose currency is null: getAccount cannot convert it
          Opening,    \* the balance of each account when the server starts
          ExactBelow, \* balances of fewer cents are printed to the cent
          Nobody,     \* the holder of a free mutex or connection
          MaxMoved    \* bound: no transfer is begun after this many

ASSUME ServerAssumption ==
    /\ Nobody \notin Clients
    /\ Unreadable \subseteq Accounts
    /\ Opening \in [Accounts -> Int]
    /\ MaxMoved \in Nat
    /\ \A cmd \in Commands : cmd.op = "TRANSFER" => cmd.cents \in Int

VARIABLES balance,      \* the committed balances, in cents
          moved,        \* how many transfers were committed
          connected,    \* the server's connection to the database is open
          process,      \* down, configured, connected, or up: how far main() came
          peer,         \* peer[c]: the client's end of the socket: none, here, left, reset
          mutex,        \* the worker that holds dbMutex, or Nobody
          transaction,  \* the worker whose pqxx transaction is open, or Nobody
          pc,           \* pc[c]: where the worker of c is
          command,      \* command[c]: the command the worker is at
          answer        \* answer[c]: what its query returned, then the answer to it

money == <<balance, moved>>
outside == <<process, peer>>
vars == <<money, connected, outside, mutex, transaction, pc, command, answer>>

NoCommand == [op |-> "none"]
NoAnswer  == [kind |-> "none"]
Error     == [kind |-> "ERROR"]

Init ==
    /\ balance = Opening /\ moved = 0
    /\ connected = FALSE /\ process = "down" /\ peer = [c \in Clients |-> "none"]
    /\ mutex = Nobody /\ transaction = Nobody
    /\ pc = [c \in Clients |-> "gone"]
    /\ command = [c \in Clients |-> NoCommand]
    /\ answer = [c \in Clients |-> NoAnswer]

Go(c, next) == pc' = [pc EXCEPT ![c] = next]
Answer(c, reply) == answer' = [answer EXCEPT ![c] = reply]

\* Mutant of Throw: the text of the exception is sent without ERROR.
ThrowRaw(c, next) == Go(c, next) /\ Answer(c, [kind |-> "what"])

\* An exception leaves for `next' with the ERROR line handleClient makes of it.
Throw(c, next) == Go(c, next) /\ Answer(c, Error)

------------------------------------------------------------------------------
(* The database: transfers, and the rows an open transaction has locked. *)

Covered(cmd) ==
    /\ {cmd.from, cmd.to} \subseteq Accounts
    /\ 0 < cmd.cents /\ cmd.cents <= balance[cmd.from]

Apply(cmd) ==
    IF cmd.op = "TRANSFER"
    THEN /\ balance' = [a \in Accounts |-> balance[a] - (IF a = cmd.from THEN cmd.cents ELSE 0)
                                                   + (IF a = cmd.to THEN cmd.cents ELSE 0)]
         /\ moved' = moved + 1
    ELSE UNCHANGED money

\* The worker waits for the commit of a transfer that the database accepted.
Holds(c) == connected /\ pc[c] = "commit" /\ command[c].op = "TRANSFER"

\* Mutant of OtherTransfer: the rows of a transaction are not locked.
OtherTransferUnlocked(cmd) ==
    /\ cmd.op = "TRANSFER" /\ Covered(cmd) /\ moved < MaxMoved
    /\ Apply(cmd)
    /\ UNCHANGED <<connected, outside, mutex, transaction, pc, command, answer>>

\* Another session (psql, a second server) transfers.
OtherTransfer(cmd) ==
    /\ cmd.op = "TRANSFER" /\ Covered(cmd) /\ moved < MaxMoved
    /\ \A c \in Clients :
           Holds(c) => {cmd.from, cmd.to} \cap {command[c].from, command[c].to} = {}
    /\ Apply(cmd)
    /\ UNCHANGED <<connected, outside, mutex, transaction, pc, command, answer>>

\* The database restarts or the network fails.  The backend rolls back.
LoseConnection ==
    /\ connected /\ connected' = FALSE
    /\ UNCHANGED <<money, outside, mutex, transaction, pc, command, answer>>

------------------------------------------------------------------------------
(* main() *)

\* loadConfig() reads the file; when it throws, main returns.
LoadConfig ==
    /\ process = "down" /\ process' = "configured"
    /\ UNCHANGED <<money, connected, peer, mutex, transaction, pc, command, answer>>

\* connect() makes the connection or throws, and main returns.
OpenConnection ==
    /\ process = "configured"
    /\ \/ process' = "connected" /\ connected' = TRUE
       \/ process' = "down" /\ UNCHANGED connected
    /\ UNCHANGED <<money, peer, mutex, transaction, pc, command, answer>>

\* The connection is looked at once more, and start() may throw.
StartServer ==
    /\ process = "connected"
    /\ \/ connected /\ process' = "up" /\ UNCHANGED connected
       \/ process' = "down" /\ connected' = FALSE
    /\ UNCHANGED <<money, peer, mutex, transaction, pc, command, answer>>

\* The process ends: the kernel closes its sockets and the backend rolls back,
\* unless the COMMIT of a worker reached it before.
Die ==
    /\ process' = "down" /\ connected' = FALSE /\ peer' = [c \in Clients |-> "none"]
    /\ mutex' = Nobody /\ transaction' = Nobody
    /\ pc' = [c \in Clients |-> "gone"]
    /\ command' = [c \in Clients |-> NoCommand]
    /\ answer' = [c \in Clients |-> NoAnswer]
    /\ UNCHANGED money \/ \E c \in Clients : Holds(c) /\ Apply(command[c])

\* The operator stops it, or the machine fails.
Kill == process # "down" /\ Die

------------------------------------------------------------------------------
(* Clients, the accept loop and handleClient *)

\* The accept loop starts a thread for the client; std::thread throws when
\* there are too many, and nothing catches it.
Connect(c) ==
    /\ process = "up" /\ pc[c] = "gone"
    /\ \/ /\ Go(c, "recv") /\ peer' = [peer EXCEPT ![c] = "here"]
          /\ UNCHANGED <<money, connected, process, mutex, transaction, command, answer>>
       \/ Die

\* A client closes its socket whenever it likes, with commands on their way.
Leave(c) ==
    /\ peer[c] = "here" /\ peer' = [peer EXCEPT ![c] = "left"]
    /\ UNCHANGED <<money, connected, process, mutex, transaction, pc, command, answer>>

\* What a client sent before it left is still received.
Receive(c, cmd) ==
    /\ pc[c] = "recv"
    /\ cmd.op = "TRANSFER" => moved < MaxMoved
    /\ command' = [command EXCEPT ![c] = cmd]
    /\ Go(c, IF cmd.op \in {"BALANCE", "TRANSFER"} THEN "lock" ELSE "dispatch")
    /\ UNCHANGED <<money, connected, outside, mutex, transaction, answer>>

\* PING, and lines with an unknown command or bad arguments.
Dispatch(c) ==
    /\ pc[c] = "dispatch"
    /\ Answer(c, IF command[c].op = "PING" THEN [kind |-> "PONG"] ELSE Error)
    /\ Go(c, "send")
    /\ UNCHANGED <<money, connected, outside, mutex, transaction, command>>

\* The first answer to a client that left comes back as a reset, and send()
\* to a reset connection may raise SIGPIPE, which ends the process.  The line
\* and the response are local to a pass through the loop.
Send(c) ==
    /\ pc[c] = "send"
    /\ \/ /\ Go(c, "recv") /\ Answer(c, NoAnswer)
          /\ command' = [command EXCEPT ![c] = NoCommand]
          /\ peer' = [peer EXCEPT ![c] = IF @ = "left" THEN "reset" ELSE @]
          /\ UNCHANGED <<money, connected, process, mutex, transaction>>
       \/ peer[c] = "reset" /\ Die

\* recv returns 0 or an error, and the worker closes the socket and ends.
HangUp(c) ==
    /\ pc[c] = "recv" /\ peer[c] # "here"
    /\ Go(c, "gone") /\ peer' = [peer EXCEPT ![c] = "none"]
    /\ UNCHANGED <<money, connected, process, mutex, transaction, command, answer>>

------------------------------------------------------------------------------
(* TransactionService::transfer and AccountService::getAccount: one shape,  *)
(* a lock guard and inside it a transaction, destroyed in the other order.  *)

\* Mutant of LockMutex: getAccount does not call db.lock().
LockForTransferOnly(c) ==
    /\ pc[c] = "lock" /\ (command[c].op = "TRANSFER" => mutex = Nobody)
    /\ mutex' = IF command[c].op = "TRANSFER" THEN c ELSE mutex
    /\ Go(c, "begin")
    /\ UNCHANGED <<money, connected, outside, transaction, command, answer>>

LockMutex(c) ==
    /\ pc[c] = "lock" /\ mutex = Nobody
    /\ mutex' = c
    /\ Go(c, "begin")
    /\ UNCHANGED <<money, connected, outside, transaction, command, answer>>

\* "Database not connected!", or pqxx refuses a second transaction.
BeginOr(c, next) ==
    /\ pc[c] = "begin"
    /\ IF connected /\ transaction = Nobody
       THEN transaction' = c /\ Go(c, "exec") /\ UNCHANGED answer
       ELSE Throw(c, next) /\ UNCHANGED transaction
    /\ UNCHANGED <<money, connected, outside, mutex, command>>

\* Mutant of Begin: the mutex is locked by hand and an exception leaves it locked.
BeginLeaksMutex(c) == BeginOr(c, "send")

Begin(c) == BeginOr(c, "unlock")

\* What the caller makes of the query's result: OK, the balance as it will be
\* printed, or the exception for an unknown or unreadable account.
Results(cmd) ==
    IF cmd.op = "TRANSFER" THEN {[kind |-> "OK"]}
    ELSE IF cmd.account \in Accounts \ Unreadable
         THEN {[kind |-> "BALANCE", cents |-> n] : n \in Shown(balance[cmd.account], ExactBelow)}
    ELSE {Error}

\* The query runs.  The database may refuse a transfer for reasons of its own.
Execute(c) ==
    /\ pc[c] = "exec"
    /\ \/ /\ connected
          /\ command[c].op = "TRANSFER" => Covered(command[c])
          /\ Go(c, "commit")
          /\ \E reply \in Results(command[c]) : Answer(c, reply)
       \/ /\ ~connected \/ command[c].op = "TRANSFER"
          /\ Throw(c, "end")
    /\ UNCHANGED <<money, connected, outside, mutex, transaction, command>>

Commit(c) ==
    /\ pc[c] = "commit" /\ connected
    /\ Apply(command[c])
    /\ Go(c, "end")
    /\ UNCHANGED <<connected, outside, mutex, transaction, command, answer>>

\* Mutant of CommitFails: the error of commit() is logged and not thrown again.
CommitFailsQuietly(c) ==
    /\ pc[c] = "commit" /\ connected' = FALSE
    /\ Go(c, "end")
    /\ UNCHANGED <<money, outside, mutex, transaction, command, answer>>

\* The connection was lost before the commit, or the COMMIT or its
\* acknowledgement is lost: then the database may have applied it.
CommitFails(c) ==
    /\ pc[c] = "commit" /\ connected' = FALSE
    /\ UNCHANGED money \/ (connected /\ Apply(command[c]))
    /\ Throw(c, "end")
    /\ UNCHANGED <<outside, mutex, transaction, command>>

\* ~work(): rolls back what is not committed and frees the connection.
EndTransaction(c) ==
    /\ pc[c] = "end"
    /\ transaction' = Nobody
    /\ Go(c, "unlock")
    /\ UNCHANGED <<money, connected, outside, mutex, command, answer>>

UnlockMutex(c) ==
    /\ pc[c] = "unlock"
    /\ mutex' = Nobody
    /\ Go(c, "send")
    /\ UNCHANGED <<money, connected, outside, transaction, command, answer>>

------------------------------------------------------------------------------
Work(c) ==
    \/ Dispatch(c) \/ Send(c) \/ LockMutex(c) \/ Begin(c) \/ Execute(c)
    \/ Commit(c) \/ CommitFails(c) \/ EndTransaction(c) \/ UnlockMutex(c)

Next ==
    \/ \E c \in Clients :
           \/ Connect(c) \/ Leave(c) \/ HangUp(c)
           \/ \E cmd \in Commands : Receive(c, cmd)
           \/ Work(c)
    \/ LoadConfig \/ OpenConnection \/ StartServer \/ Kill
    \/ LoseConnection \/ \E cmd \in Commands : OtherTransfer(cmd)

\* A worker that can run does, and a thread that waits for dbMutex gets it in
\* the end: the mutex is free while its last holder sends and receives.
Fairness == \A c \in Clients : WF_vars(Work(c)) /\ SF_vars(LockMutex(c))

Spec == Init /\ [][Next]_vars /\ Fairness

------------------------------------------------------------------------------
(* Properties. *)

InQuery == {"exec", "commit", "end"}

Replies ==
    {NoAnswer, Error, [kind |-> "PONG"], [kind |-> "OK"]} \cup [kind : {"BALANCE"}, cents : Int]

\* Types of the variables.
TypeOK ==
    /\ balance \in [Accounts -> Int] /\ moved \in Nat /\ connected \in BOOLEAN
    /\ process \in {"down", "configured", "connected", "up"}
    /\ peer \in [Clients -> {"none", "here", "left", "reset"}]
    /\ {mutex, transaction} \subseteq Clients \cup {Nobody}
    /\ pc \in [Clients -> {"gone", "recv", "dispatch", "lock", "begin", "unlock", "send"} \cup InQuery]
    /\ command \in [Clients -> Commands \cup {NoCommand}]
    /\ answer \in [Clients -> Replies]

\* The shared connection is used by one worker at a time: a worker that wants
\* to begin finds no transaction open, and only the holder of dbMutex has one.
ConnectionIsExclusive ==
    \A c \in Clients :
        /\ pc[c] = "begin" => transaction = Nobody
        /\ pc[c] \in InQuery => transaction = c
        /\ transaction = c => mutex = c

\* The inductive invariant: who holds the mutex and the connection, and that a
\* transfer the database accepted is still covered when it is committed.
WorkerInv(c) ==
    /\ pc[c] # "gone" => process = "up"
    /\ mutex = c <=> pc[c] \in {"begin", "unlock"} \cup InQuery
    /\ transaction = c <=> pc[c] \in InQuery
    /\ pc[c] \in {"dispatch", "lock", "begin"} \cup InQuery => command[c] \in Commands
    /\ pc[c] \in {"lock", "begin"} \cup InQuery => command[c].op \in {"BALANCE", "TRANSFER"}
    /\ pc[c] \in {"dispatch", "lock", "begin", "exec"} => answer[c] = NoAnswer
    /\ pc[c] \in {"gone", "recv"} => answer[c] = NoAnswer
    /\ pc[c] = "commit" /\ command[c].op = "TRANSFER" => answer[c] = [kind |-> "OK"]
    /\ Holds(c) => Covered(command[c])

ServerInv == TypeOK /\ \A c \in Clients : WorkerInv(c)

Stage(step, op) ==
    IF step \in {"gone", "recv"} THEN "idle"
    ELSE IF step \in {"end", "unlock", "send"} THEN "done"
    ELSE IF step = "commit" /\ op = "BALANCE" THEN "read" ELSE "pending"

\* That a transfer was accepted is not an answer before the commit.
AnswerGiven(c) ==
    IF pc[c] = "commit" /\ command[c].op = "TRANSFER" THEN NoAnswer ELSE answer[c]

\* A command takes effect at one instant, at most once, and its answer is true,
\* whoever else moves money, wherever the connection is lost or the process dies.
Promise == INSTANCE ServicePromise WITH
    stage <- [c \in Clients |-> Stage(pc[c], command[c].op)],
    answer <- [c \in Clients |-> AnswerGiven(c)]
ImplementsPromise == Promise!Spec

\* Whatever happens to the connection, a client that sent a command and waits
\* gets an answer, or the process ends.
Answered ==
    \A c \in Clients : pc[c] \in {"dispatch", "lock"} ~> pc[c] = "send" \/ process = "down"

\* transactions.hpp:30: transfer "commits the transaction if successful. If not
\* throws", so a client that reads ERROR knows that no money moved.
ErrorMeansNothingMoved ==
    [][\A c \in Clients : answer[c] # Error /\ answer'[c] = Error => balance' = balance]_vars
==============================================================================
