------------------------ MODULE TransactionServerProofs ------------------------
(***************************************************************************)
(* Proofs about TransactionServer, for every set of clients, accounts and  *)
(* commands.  A step of the worker of c changes what only c owns; Others   *)
(* says when the facts about the other workers survive it, and each action *)
(* is then proved for its own worker.                                      *)
(***************************************************************************)
EXTENDS TransactionServer, TLAPS

USE DEF InQuery, money, outside

LEMMA InitInv == Init => ServerInv
<1> SUFFICES ASSUME Init PROVE ServerInv
  OBVIOUS
<1>1. TypeOK
  BY ServerAssumption DEF Init, TypeOK, Replies
<1>2. ASSUME NEW x \in Clients PROVE WorkerInv(x)
  BY ServerAssumption DEF Init, WorkerInv, Holds
<1> QED BY <1>1, <1>2 DEF ServerInv

\* A worker keeps its facts when another one steps and does not take over the
\* mutex or the transaction, or change the balances under its commit.
LEMMA Others ==
    ASSUME NEW x \in Clients, WorkerInv(x),
           pc'[x] = pc[x], command'[x] = command[x], answer'[x] = answer[x],
           mutex' = x <=> mutex = x, transaction' = x <=> transaction = x,
           process' = process, connected' => connected,
           Holds(x) => balance' = balance
    PROVE  WorkerInv(x)'
<1>1. Holds(x)' => Holds(x) /\ (Covered(command[x])' <=> Covered(command[x]))
  BY DEF Holds, Covered
<1> QED BY <1>1 DEF WorkerInv

\* The same for a step of one worker that moves no money and leaves the process
\* and the connection alone.
LEMMA OthersOf ==
    ASSUME ServerInv, NEW c \in Clients, NEW step, pc' = [pc EXCEPT ![c] = step],
           UNCHANGED <<balance, process>>, connected' => connected,
           NEW x \in Clients, x # c,
           command'[x] = command[x], answer'[x] = answer[x],
           mutex' = x <=> mutex = x, transaction' = x <=> transaction = x
    PROVE  WorkerInv(x)'
BY Others DEF ServerInv, TypeOK

LEMMA ShownIsInt == ASSUME NEW cents \in Int PROVE Shown(cents, ExactBelow) \subseteq Int
BY DEF Shown, Units

LEMMA ResultsAreReplies ==
    ASSUME TypeOK, NEW cmd, NEW reply \in Results(cmd) PROVE reply \in Replies
<1>1. CASE cmd.op # "TRANSFER" /\ cmd.account \in Accounts \ Unreadable
  <2>1. Shown(balance[cmd.account], ExactBelow) \subseteq Int
    BY <1>1, ShownIsInt DEF TypeOK
  <2> QED BY <1>1, <2>1 DEF Results, Replies
<1>2. CASE ~(cmd.op # "TRANSFER" /\ cmd.account \in Accounts \ Unreadable)
  BY <1>2 DEF Results, Replies
<1> QED BY <1>1, <1>2

LEMMA ApplyKeepsTypes ==
    ASSUME TypeOK, NEW cmd \in Commands, Apply(cmd)
    PROVE  balance' \in [Accounts -> Int] /\ moved' \in Nat
BY ServerAssumption DEF TypeOK, Apply

\* Transfers of others stay off the rows a worker has locked.
LEMMA OtherTransferInv ==
    ASSUME ServerInv, NEW cmd \in Commands, OtherTransfer(cmd) PROVE ServerInv'
<1>1. TypeOK'
  BY ApplyKeepsTypes DEF ServerInv, TypeOK, OtherTransfer
<1>2. ASSUME NEW x \in Clients PROVE WorkerInv(x)'
  <2>1. UNCHANGED <<connected, process, mutex, transaction, pc, command, answer>>
    BY DEF OtherTransfer
  <2>2. Holds(x)' <=> Holds(x)
    BY <2>1 DEF Holds
  <2>3. ASSUME Holds(x) PROVE Covered(command[x])'
    <3>1. Covered(command[x])
      BY <2>3 DEF ServerInv, WorkerInv
    <3>2. command[x].from \in Accounts /\ command[x].from # cmd.from /\ command[x].from # cmd.to
      BY <2>3, <3>1 DEF OtherTransfer, Covered
    <3>3. balance'[command[x].from] = balance[command[x].from]
      BY <3>2 DEF OtherTransfer, Apply, ServerInv, TypeOK
    <3> QED BY <2>1, <3>1, <3>3 DEF Covered
  <2> QED BY <2>1, <2>2, <2>3 DEF ServerInv, WorkerInv
<1> QED BY <1>1, <1>2 DEF ServerInv

\* main() runs while there is no worker.
LEMMA MainInv ==
    ASSUME ServerInv, LoadConfig \/ OpenConnection \/ StartServer PROVE ServerInv'
<1> USE DEF LoadConfig, OpenConnection, StartServer
<1>1. TypeOK'
  BY DEF ServerInv, TypeOK
<1>2. ASSUME NEW x \in Clients PROVE WorkerInv(x)'
  <2>1. UNCHANGED <<mutex, transaction, pc, command, answer>> /\ process # "up"
    OBVIOUS
  <2>2. pc[x] = "gone"
    BY <2>1 DEF ServerInv, WorkerInv
  <2> QED BY <2>1, <2>2 DEF ServerInv, WorkerInv, Holds
<1> QED BY <1>1, <1>2 DEF ServerInv

\* The end of the process, which may come after the COMMIT of a worker arrived.
LEMMA DieInv == ASSUME ServerInv, Die PROVE ServerInv'
<1>1. balance' \in [Accounts -> Int] /\ moved' \in Nat
  <2>1. CASE UNCHANGED money
    BY <2>1 DEF ServerInv, TypeOK
  <2>2. ASSUME NEW c \in Clients, Holds(c), Apply(command[c])
        PROVE  balance' \in [Accounts -> Int] /\ moved' \in Nat
    BY <2>2, ApplyKeepsTypes DEF ServerInv, WorkerInv, Holds
  <2> QED BY <2>1, <2>2 DEF Die
<1>2. TypeOK'
  BY <1>1 DEF ServerInv, TypeOK, Die, Replies
<1>3. ASSUME NEW x \in Clients PROVE WorkerInv(x)'
  BY ServerAssumption DEF Die, WorkerInv, Holds
<1> QED BY <1>2, <1>3 DEF ServerInv

\* The steps outside the data access layer.
LEMMA TalkInv ==
    ASSUME ServerInv, NEW c \in Clients,
           Connect(c) \/ Leave(c) \/ HangUp(c) \/ Send(c) \/ Dispatch(c)
    PROVE  ServerInv'
<1>1. CASE Die
  BY <1>1, DieInv
<1>2. CASE ~Die
  <2> USE <1>2 DEF Connect, Leave, HangUp, Send, Dispatch, Go, Answer
  <2>1. TypeOK'
    <3>1. command' \in [Clients -> Commands \cup {NoCommand}]
      BY DEF ServerInv, TypeOK
    <3>2. answer' \in [Clients -> Replies]
      BY DEF ServerInv, TypeOK, Replies
    <3> QED BY <3>1, <3>2 DEF ServerInv, TypeOK
  <2>2. WorkerInv(c)'
    <3>1. CASE Leave(c)
      BY <3>1 DEF ServerInv, WorkerInv, Holds, Covered
    <3>2. CASE ~Leave(c)
      <4>1. /\ pc'[c] \in {"recv", "gone", "send"} /\ pc[c] \notin {"begin", "unlock"} \cup InQuery
            /\ pc'[c] # "gone" => process' = "up"
            /\ pc'[c] # "send" => answer'[c] = NoAnswer
            /\ UNCHANGED <<mutex, transaction>>
        BY <3>2 DEF ServerInv, TypeOK, WorkerInv
      <4> QED BY <4>1 DEF ServerInv, WorkerInv, Holds
    <3> QED BY <3>1, <3>2
  <2>3. ASSUME NEW x \in Clients, x # c PROVE WorkerInv(x)'
    BY <2>3, Others DEF ServerInv, TypeOK
  <2> QED BY <2>1, <2>2, <2>3 DEF ServerInv
<1> QED BY <1>1, <1>2

LEMMA ReceiveInv ==
    ASSUME ServerInv, NEW c \in Clients, NEW cmd \in Commands, Receive(c, cmd)
    PROVE  ServerInv'
<1> USE DEF Receive, Go
<1>1. TypeOK'
  BY DEF ServerInv, TypeOK, Replies
<1>2. WorkerInv(c)'
  BY DEF ServerInv, TypeOK, WorkerInv, Holds
<1>3. ASSUME NEW x \in Clients, x # c PROVE WorkerInv(x)'
  BY <1>3, OthersOf DEF ServerInv, TypeOK
<1> QED BY <1>1, <1>2, <1>3 DEF ServerInv

LEMMA LockMutexInv ==
    ASSUME ServerInv, NEW c \in Clients, LockMutex(c) PROVE ServerInv'
<1> USE DEF LockMutex, Go
<1>1. TypeOK'
  BY DEF ServerInv, TypeOK
<1>2. WorkerInv(c)'
  BY ServerAssumption DEF ServerInv, TypeOK, WorkerInv, Holds
<1>3. ASSUME NEW x \in Clients, x # c PROVE WorkerInv(x)'
  BY <1>3, OthersOf, ServerAssumption
<1> QED BY <1>1, <1>2, <1>3 DEF ServerInv

LEMMA BeginInv ==
    ASSUME ServerInv, NEW c \in Clients, Begin(c) PROVE ServerInv'
<1> USE DEF Begin, BeginOr, Throw, Go, Answer
<1>1. TypeOK'
  BY DEF ServerInv, TypeOK, Replies
<1>2. WorkerInv(c)'
  BY ServerAssumption DEF ServerInv, TypeOK, WorkerInv, Holds
<1>3. ASSUME NEW x \in Clients, x # c PROVE WorkerInv(x)'
  BY <1>3, OthersOf, ServerAssumption DEF ServerInv, TypeOK
<1> QED BY <1>1, <1>2, <1>3 DEF ServerInv

LEMMA ExecuteInv ==
    ASSUME ServerInv, NEW c \in Clients, Execute(c) PROVE ServerInv'
<1>1. /\ pc[c] = "exec" /\ mutex = c /\ transaction = c /\ process = "up"
      /\ command[c] \in Commands /\ command[c].op \in {"BALANCE", "TRANSFER"}
      /\ UNCHANGED <<money, connected, outside, mutex, transaction, command>>
  BY DEF ServerInv, WorkerInv, Execute
<1>2. PICK step \in {"commit", "end"}, reply \in Replies :
        /\ pc' = [pc EXCEPT ![c] = step] /\ answer' = [answer EXCEPT ![c] = reply]
        /\ step = "commit" /\ command[c].op = "TRANSFER" =>
               Covered(command[c]) /\ reply = [kind |-> "OK"]
  <2>1. CASE Throw(c, "end")
    <3>1. Error \in Replies
      BY DEF Replies
    <3> QED BY <2>1, <3>1 DEF Throw, Go, Answer
  <2>2. ASSUME NEW reply \in Results(command[c]), Go(c, "commit"), Answer(c, reply),
               command[c].op = "TRANSFER" => Covered(command[c])
        PROVE  /\ pc' = [pc EXCEPT ![c] = "commit"] /\ answer' = [answer EXCEPT ![c] = reply]
               /\ reply \in Replies
               /\ command[c].op = "TRANSFER" => Covered(command[c]) /\ reply = [kind |-> "OK"]
    BY <2>2, ResultsAreReplies DEF ServerInv, Results, Go, Answer
  <2> QED BY <2>1, <2>2 DEF Execute
<1>3. TypeOK'
  BY <1>1, <1>2 DEF ServerInv, TypeOK
<1>4. WorkerInv(c)'
  <2>1. Covered(command[c])' <=> Covered(command[c])
    BY <1>1 DEF Covered
  <2> QED BY <1>1, <1>2, <2>1 DEF ServerInv, TypeOK, WorkerInv, Holds
<1>5. ASSUME NEW x \in Clients, x # c PROVE WorkerInv(x)'
  BY <1>1, <1>2, <1>5, OthersOf DEF ServerInv, TypeOK
<1> QED BY <1>3, <1>4, <1>5 DEF ServerInv

LEMMA CommitInv ==
    ASSUME ServerInv, NEW c \in Clients, Commit(c) \/ CommitFails(c) PROVE ServerInv'
<1>1. command[c] \in Commands /\ pc[c] = "commit" /\ transaction = c /\ mutex = c /\ process = "up"
  BY DEF ServerInv, WorkerInv, Commit, CommitFails
<1> USE DEF Commit, CommitFails, Throw, Go, Answer
<1>2. balance' \in [Accounts -> Int] /\ moved' \in Nat
  BY <1>1, ApplyKeepsTypes DEF ServerInv, TypeOK
<1>3. TypeOK'
  <2>1. connected' \in BOOLEAN /\ UNCHANGED <<mutex, transaction, command, outside>>
    BY DEF ServerInv, TypeOK
  <2>2. pc' = [pc EXCEPT ![c] = "end"] /\ answer' \in [Clients -> Replies]
    BY DEF ServerInv, TypeOK, Replies
  <2> QED BY <1>2, <2>1, <2>2 DEF ServerInv, TypeOK
<1>4. WorkerInv(c)'
  BY <1>1 DEF ServerInv, TypeOK, WorkerInv, Holds
<1>5. ASSUME NEW x \in Clients, x # c PROVE WorkerInv(x)'
  <2>1. ~Holds(x)
    BY <1>1, <1>5 DEF ServerInv, WorkerInv, Holds
  <2> QED BY <2>1, <1>5, Others DEF ServerInv, TypeOK
<1> QED BY <1>3, <1>4, <1>5 DEF ServerInv

LEMMA ReleaseInv ==
    ASSUME ServerInv, NEW c \in Clients, EndTransaction(c) \/ UnlockMutex(c) PROVE ServerInv'
<1> USE DEF EndTransaction, UnlockMutex, Go
<1>1. TypeOK'
  BY DEF ServerInv, TypeOK
<1>2. WorkerInv(c)'
  BY ServerAssumption DEF ServerInv, TypeOK, WorkerInv, Holds
<1>3. ASSUME NEW x \in Clients, x # c PROVE WorkerInv(x)'
  <2>1. pc[c] = "end" => transaction = c
    BY DEF ServerInv, WorkerInv
  <2>2. pc[c] = "unlock" => mutex = c
    BY DEF ServerInv, WorkerInv
  <2> QED BY <1>3, <2>1, <2>2, Others, ServerAssumption DEF ServerInv, TypeOK
<1> QED BY <1>1, <1>2, <1>3 DEF ServerInv

LEMMA LoseConnectionInv == ASSUME ServerInv, LoseConnection \/ UNCHANGED vars PROVE ServerInv'
<1>1. TypeOK'
  BY DEF ServerInv, TypeOK, LoseConnection, vars
<1>2. ASSUME NEW x \in Clients PROVE WorkerInv(x)'
  BY <1>2, Others DEF ServerInv, LoseConnection, vars
<1> QED BY <1>1, <1>2 DEF ServerInv

LEMMA NextInv == ServerInv /\ [Next]_vars => ServerInv'
BY TalkInv, ReceiveInv, LockMutexInv, BeginInv, ExecuteInv, CommitInv, ReleaseInv,
   MainInv, DieInv, LoseConnectionInv, OtherTransferInv
   DEF Next, Work, Kill

\* The invariant, whatever the interleaving of workers, lost connections, other
\* sessions, and ends of the process.
THEOREM ServerIsSafe == Spec => []ServerInv
BY InitInv, NextInv, PTL DEF Spec

\* Types of the variables.
THEOREM ServerTypeCorrect == Spec => []TypeOK
<1>1. ServerInv => TypeOK
  BY DEF ServerInv
<1> QED BY <1>1, ServerIsSafe, PTL

\* The one connection is never used by two workers: who wants to begin a
\* transaction finds none open, and the owner of one holds dbMutex.
THEOREM ConnectionNeverShared == Spec => []ConnectionIsExclusive
<1>1. ServerInv => ConnectionIsExclusive
  BY DEF ServerInv, TypeOK, WorkerInv, ConnectionIsExclusive
<1> QED BY <1>1, ServerIsSafe, PTL

------------------------------------------------------------------------------
(* The server implements its promise. *)

Stages == [c \in Clients |-> Stage(pc[c], command[c].op)]
Given  == [c \in Clients |-> AnswerGiven(c)]

\* A step of one worker moves one stage and gives at most one answer.
LEMMA StageMoves ==
    ASSUME TypeOK, NEW c \in Clients, NEW step, pc' = [pc EXCEPT ![c] = step], UNCHANGED command
    PROVE  /\ Stages[c] = Stage(pc[c], command[c].op)
           /\ Stages' = [Stages EXCEPT ![c] = Stage(step, command[c].op)]
           /\ Stage(step, command[c].op) = Stage(pc[c], command[c].op) => Stages' = Stages
<1>1. /\ Stages[c] = Stage(pc[c], command[c].op)
      /\ Stages' = [Stages EXCEPT ![c] = Stage(step, command[c].op)]
  BY DEF TypeOK, Stages, Stage
<1>2. ASSUME Stage(step, command[c].op) = Stage(pc[c], command[c].op) PROVE Stages' = Stages
  BY <1>1, <1>2 DEF Stages
<1> QED BY <1>1, <1>2

LEMMA NothingGiven ==
    ASSUME TypeOK, NEW c \in Clients, NEW step, pc' = [pc EXCEPT ![c] = step],
           UNCHANGED <<command, answer>>, step # "commit", pc[c] # "commit"
    PROVE  Given' = Given
BY DEF TypeOK, Given, AnswerGiven, NoAnswer

LEMMA AnswerIsGiven ==
    ASSUME TypeOK, NEW c \in Clients, NEW step, pc' = [pc EXCEPT ![c] = step],
           step # "commit" \/ command'[c].op # "TRANSFER",
           \A d \in Clients \ {c} : command'[d] = command[d],
           NEW reply, answer' = [answer EXCEPT ![c] = reply]
    PROVE  Given' = [Given EXCEPT ![c] = reply]
BY DEF TypeOK, Given, AnswerGiven, NoAnswer

\* The commit is where the result of the query becomes the answer.
LEMMA ResultIsGiven ==
    ASSUME TypeOK, NEW c \in Clients, pc[c] = "commit", pc' = [pc EXCEPT ![c] = "end"],
           UNCHANGED <<command, answer>>
    PROVE  Given' = [Given EXCEPT ![c] = answer[c]]
BY DEF TypeOK, Given, AnswerGiven, NoAnswer

\* Steps a client cannot see.
LEMMA Hidden ==
    ASSUME ServerInv, NEW c \in Clients, ~Die,
           Connect(c) \/ Leave(c) \/ HangUp(c) \/ LockMutex(c) \/ EndTransaction(c) \/ UnlockMutex(c)
    PROVE  UNCHANGED <<balance, Stages, command, Given>>
<1>1. CASE Leave(c)
  BY <1>1 DEF Leave, Stages, Given, AnswerGiven
<1>2. CASE ~Leave(c)
  <2> PICK step \in {"recv", "gone", "begin", "unlock", "send"} :
          /\ pc' = [pc EXCEPT ![c] = step] /\ Stage(step, command[c].op) = Stage(pc[c], command[c].op)
          /\ step # "commit" /\ pc[c] # "commit"
    BY <1>2 DEF Connect, HangUp, LockMutex, EndTransaction, UnlockMutex, Go, Stage
  <2>1. UNCHANGED <<balance, command, answer>>
    BY <1>2 DEF Connect, HangUp, LockMutex, EndTransaction, UnlockMutex
  <2>2. Stages' = Stages
    BY <2>1, StageMoves DEF ServerInv
  <2>3. Given' = Given
    BY <2>1, NothingGiven DEF ServerInv
  <2> QED BY <2>1, <2>2, <2>3
<1> QED BY <1>1, <1>2

\* An exception is an ERROR answer that ends the command.
LEMMA Thrown ==
    ASSUME ServerInv, NEW c \in Clients, Stage(pc[c], command[c].op) \in {"pending", "read"},
           NEW step \in {"end", "unlock"}, Throw(c, step), UNCHANGED command
    PROVE  Promise!Advance(c, {Stage(pc[c], command[c].op)}, "done", Error)
<1>1. Stages[c] = Stage(pc[c], command[c].op) /\ Stages' = [Stages EXCEPT ![c] = "done"]
  BY StageMoves DEF ServerInv, Throw, Go, Stage
<1>2. Given' = [Given EXCEPT ![c] = Error]
  BY AnswerIsGiven DEF ServerInv, Throw, Go, Answer
<1> QED BY <1>1, <1>2 DEF Promise!Advance, Stages, Given

LEMMA ThrownFails ==
    ASSUME ServerInv, NEW c \in Clients, Stage(pc[c], command[c].op) \in {"pending", "read"},
           NEW step \in {"end", "unlock"}, Throw(c, step), UNCHANGED <<command, balance>>
    PROVE  Promise!Fail(c)
BY Thrown DEF Promise!Fail, Promise!Advance, Promise!Error, Error

LEMMA ReceivePromise ==
    ASSUME ServerInv, NEW c \in Clients, NEW cmd \in Commands, Receive(c, cmd)
    PROVE  Promise!Submit(c, cmd)
<1> PICK step \in {"lock", "dispatch"} : pc' = [pc EXCEPT ![c] = step]
  BY DEF Receive, Go
<1>1. Stages[c] = "idle" /\ Stages' = [Stages EXCEPT ![c] = "pending"]
  BY DEF ServerInv, TypeOK, Receive, Stages, Stage
<1>2. Given' = Given
  BY DEF ServerInv, TypeOK, WorkerInv, Receive, Given, AnswerGiven
<1> QED BY <1>1, <1>2 DEF Receive, Promise!Submit, Stages, Given

LEMMA SendPromise == ASSUME ServerInv, NEW c \in Clients, Send(c), ~Die PROVE Promise!Deliver(c)
<1>1. /\ pc[c] = "send" /\ pc' = [pc EXCEPT ![c] = "recv"]
      /\ command' = [command EXCEPT ![c] = NoCommand]
      /\ answer' = [answer EXCEPT ![c] = NoAnswer] /\ UNCHANGED balance
  BY DEF Send, Go, Answer
<1>2. Stages[c] = "done" /\ Stages' = [Stages EXCEPT ![c] = "idle"]
  BY <1>1 DEF ServerInv, TypeOK, Stages, Stage
<1>3. Given' = [Given EXCEPT ![c] = NoAnswer]
  BY <1>1, AnswerIsGiven DEF ServerInv, TypeOK
<1> QED BY <1>1, <1>2, <1>3
        DEF Promise!Deliver, Promise!NoCommand, NoCommand, Promise!NoAnswer, NoAnswer, Stages, Given

LEMMA DispatchPromise ==
    ASSUME ServerInv, NEW c \in Clients, Dispatch(c) PROVE Promise!Ping(c) \/ Promise!Fail(c)
<1>1. /\ Stages[c] = "pending" /\ Stages' = [Stages EXCEPT ![c] = "done"]
      /\ pc' = [pc EXCEPT ![c] = "send"] /\ UNCHANGED <<balance, command>>
  BY StageMoves DEF ServerInv, Dispatch, Go, Stage
<1>2. CASE command[c].op = "PING"
  <2>1. answer' = [answer EXCEPT ![c] = [kind |-> "PONG"]]
    BY <1>2 DEF Dispatch, Answer
  <2>2. Given' = [Given EXCEPT ![c] = [kind |-> "PONG"]]
    BY <1>1, <2>1, AnswerIsGiven DEF ServerInv
  <2> QED BY <1>1, <1>2, <2>2 DEF Promise!Ping, Promise!Advance, Stages, Given
<1>3. CASE command[c].op # "PING"
  <2>1. answer' = [answer EXCEPT ![c] = Error]
    BY <1>3 DEF Dispatch, Answer
  <2>2. Given' = [Given EXCEPT ![c] = Error]
    BY <1>1, <2>1, AnswerIsGiven DEF ServerInv
  <2> QED BY <1>1, <2>2 DEF Promise!Fail, Promise!Advance, Promise!Error, Error, Stages, Given
<1> QED BY <1>2, <1>3

LEMMA BeginPromise ==
    ASSUME ServerInv, NEW c \in Clients, Begin(c)
    PROVE  Promise!Fail(c) \/ UNCHANGED <<balance, Stages, command, Given>>
<1>1. /\ pc[c] = "begin" /\ Stage(pc[c], command[c].op) = "pending"
      /\ UNCHANGED <<balance, command>>
  BY DEF Begin, BeginOr, Stage
<1>2. CASE Throw(c, "unlock")
  BY <1>1, <1>2, ThrownFails
<1>3. CASE Go(c, "exec") /\ UNCHANGED answer
  <2>1. Stages' = Stages
    <3>1. /\ pc' = [pc EXCEPT ![c] = "exec"]
          /\ Stage("exec", command[c].op) = Stage(pc[c], command[c].op)
      BY <1>1, <1>3 DEF Go, Stage
    <3> QED BY <1>1, <3>1, StageMoves DEF ServerInv
  <2>2. Given' = Given
    BY <1>1, <1>3, NothingGiven DEF ServerInv, Go
  <2> QED BY <1>1, <2>1, <2>2
<1> QED BY <1>2, <1>3 DEF Begin, BeginOr

\* A read takes effect when its query runs; a transfer is only accepted there.
LEMMA ExecutePromise ==
    ASSUME ServerInv, NEW c \in Clients, Execute(c)
    PROVE  Promise!Fail(c) \/ Promise!Read(c) \/ UNCHANGED <<balance, Stages, command, Given>>
<1>1. /\ pc[c] = "exec" /\ UNCHANGED <<balance, command>> /\ answer[c] = NoAnswer
      /\ command[c].op \in {"BALANCE", "TRANSFER"} /\ Stage(pc[c], command[c].op) = "pending"
  BY DEF Execute, Stage, ServerInv, WorkerInv
<1>2. CASE Throw(c, "end")
  BY <1>1, <1>2, ThrownFails
<1>3. ASSUME NEW reply \in Results(command[c]), Go(c, "commit"), Answer(c, reply)
      PROVE  Promise!Read(c) \/ UNCHANGED <<balance, Stages, command, Given>>
  <2>1. CASE command[c].op = "TRANSFER"
    <3>1. Stages' = Stages
      <4>1. /\ pc' = [pc EXCEPT ![c] = "commit"]
            /\ Stage("commit", command[c].op) = Stage(pc[c], command[c].op)
        BY <1>1, <1>3, <2>1 DEF Go, Stage
      <4> QED BY <1>1, <4>1, StageMoves DEF ServerInv
    <3>2. Given' = Given
      BY <1>1, <1>3, <2>1 DEF ServerInv, TypeOK, Given, AnswerGiven, Go, Answer
    <3> QED BY <1>1, <3>1, <3>2
  <2>2. CASE command[c].op = "BALANCE"
    <3>1. Stages[c] = "pending" /\ Stages' = [Stages EXCEPT ![c] = "read"]
      <4>1. pc' = [pc EXCEPT ![c] = "commit"] /\ Stage("commit", command[c].op) = "read"
        BY <1>3, <2>2 DEF Go, Stage
      <4> QED BY <1>1, <4>1, StageMoves, ZenonT(30) DEF ServerInv
    <3>2. Given' = [Given EXCEPT ![c] = reply]
      BY <1>1, <1>3, <2>2, AnswerIsGiven DEF ServerInv, Go, Answer
    <3>3. Promise!Advance(c, {"pending"}, "read", reply)
      BY <1>1, <3>1, <3>2 DEF Promise!Advance, Stages, Given
    <3>4. \/ reply = Error
          \/ /\ command[c].account \in Accounts
             /\ \E n \in Shown(balance[command[c].account], ExactBelow) :
                    reply = [kind |-> "BALANCE", cents |-> n]
      BY <1>3, <2>2 DEF Results
    <3>5. Shown(balance[command[c].account], ExactBelow)
          = Promise!Shown(balance[command[c].account], ExactBelow)
      BY DEF Shown, Promise!Shown, Units, Promise!Units
    <3> QED BY <1>1, <2>2, <3>3, <3>4, <3>5 DEF Promise!Read, Promise!Error, Error
  <2> QED BY <1>1, <2>1, <2>2
<1> QED BY <1>2, <1>3 DEF Execute

\* A transfer the database accepted is one the promise may move.
LEMMA AppliedIsMoved ==
    ASSUME NEW cmd, cmd.op = "TRANSFER", Covered(cmd), Apply(cmd) PROVE Promise!Move(cmd)
BY DEF Covered, Apply, Promise!Move

\* Where a transfer takes effect.
LEMMA CommitPromise ==
    ASSUME ServerInv, NEW c \in Clients, Commit(c)
    PROVE  Promise!Transfer(c) \/ Promise!Confirm(c)
<1>1. /\ command[c].op \in {"BALANCE", "TRANSFER"}
      /\ pc[c] = "commit" /\ UNCHANGED <<command, answer>> /\ Apply(command[c])
      /\ pc' = [pc EXCEPT ![c] = "end"]
  BY DEF Commit, ServerInv, WorkerInv, Go
<1>2. /\ Stages[c] = Stage("commit", command[c].op)
      /\ Stages' = [Stages EXCEPT ![c] = "done"]
  BY <1>1, StageMoves DEF ServerInv, Stage
<1>3. Given' = [Given EXCEPT ![c] = answer[c]]
  BY <1>1, ResultIsGiven DEF ServerInv
<1>4. CASE command[c].op = "TRANSFER"
  <2>1. Covered(command[c]) /\ answer[c] = [kind |-> "OK"]
    BY <1>1, <1>4 DEF Commit, ServerInv, WorkerInv, Holds
  <2>2. Promise!Advance(c, {"pending"}, "done", [kind |-> "OK"])
    BY <1>1, <1>2, <1>3, <1>4, <2>1 DEF Promise!Advance, Stages, Given, Stage
  <2> QED BY <1>1, <1>4, <2>1, <2>2, AppliedIsMoved DEF Promise!Transfer
<1>5. CASE command[c].op = "BALANCE"
  <2>1. balance' = balance /\ Given[c] = answer[c]
    BY <1>1, <1>5 DEF Apply, Given, AnswerGiven
  <2>2. Promise!Advance(c, {"read"}, "done", Given[c])
    BY <1>1, <1>2, <1>3, <1>5, <2>1 DEF Promise!Advance, Stages, Given, Stage
  <2> QED BY <2>1, <2>2 DEF Promise!Confirm, Given
<1> QED BY <1>1, <1>4, <1>5

LEMMA CommitFailsPromise ==
    ASSUME ServerInv, NEW c \in Clients, CommitFails(c)
    PROVE  Promise!Transfer(c) \/ Promise!Fail(c)
<1>1. /\ command[c].op \in {"BALANCE", "TRANSFER"} /\ pc[c] = "commit"
      /\ Throw(c, "end") /\ UNCHANGED command
      /\ UNCHANGED balance \/ (connected /\ Apply(command[c]))
  BY DEF CommitFails, ServerInv, WorkerInv
<1>2. Stage(pc[c], command[c].op) = IF command[c].op = "BALANCE" THEN "read" ELSE "pending"
  BY <1>1 DEF Stage
<1>3. CASE UNCHANGED balance
  BY <1>1, <1>2, <1>3, ThrownFails
<1>4. CASE connected /\ Apply(command[c]) /\ balance' # balance
  <2>1. command[c].op = "TRANSFER"
    BY <1>1, <1>4 DEF Apply
  <2>2. Covered(command[c])
    BY <1>1, <1>4, <2>1 DEF ServerInv, WorkerInv, Holds
  <2>3. Promise!Advance(c, {"pending"}, "done", Error)
    BY <1>1, <1>2, <2>1, Thrown
  <2> QED BY <1>4, <2>1, <2>2, <2>3, AppliedIsMoved DEF Promise!Transfer, Promise!Error, Error
<1> QED BY <1>1, <1>3, <1>4

LEMMA OtherTransferPromise ==
    ASSUME NEW cmd \in Commands, OtherTransfer(cmd) PROVE Promise!Outside(cmd)
<1>1. Promise!Move(cmd)
  BY AppliedIsMoved DEF OtherTransfer
<1> QED BY <1>1 DEF OtherTransfer, Promise!Outside, AnswerGiven

LEMMA DiePromise == ASSUME ServerInv, Die PROVE Promise!Crash
<1>1. /\ Stages' = [c \in Clients |-> "idle"] /\ command' = [c \in Clients |-> NoCommand]
      /\ Given' = [c \in Clients |-> NoAnswer]
  BY DEF Die, Stages, Stage, Given, AnswerGiven
<1>2. ASSUME NEW c \in Clients, Holds(c), Apply(command[c])
      PROVE  Stages[c] = "pending" /\ Promise!Move(command[c])
  BY <1>2, AppliedIsMoved DEF ServerInv, WorkerInv, Holds, Stages, Stage
<1>3. UNCHANGED balance \/ \E c \in Clients : Stages[c] = "pending" /\ Promise!Move(command[c])
  BY <1>2 DEF Die
<1> QED BY <1>1, <1>3
        DEF Promise!Crash, Promise!NoCommand, NoCommand, Promise!NoAnswer, NoAnswer, Stages, Given

LEMMA PromiseInit == Init => Promise!Init
BY DEF Init, Promise!Init, Promise!NoCommand, NoCommand, Promise!NoAnswer, NoAnswer, Stage, AnswerGiven

LEMMA PromiseNext ==
    ASSUME ServerInv, [Next]_vars PROVE [Promise!Next]_(Promise!promiseVars)
<1>1. UNCHANGED <<balance, Stages, command, Given>> => UNCHANGED Promise!promiseVars
  BY DEF Promise!promiseVars, Stages, Given
<1>2. CASE LoadConfig \/ OpenConnection \/ StartServer \/ LoseConnection \/ UNCHANGED vars
  BY <1>1, <1>2
     DEF LoadConfig, OpenConnection, StartServer, LoseConnection, vars, Stages, Given, AnswerGiven
<1>3. CASE Die
  BY <1>3, DiePromise DEF Promise!Next
<1>4. ASSUME ~Die, NEW c \in Clients, Connect(c) \/ Leave(c) \/ HangUp(c) \/ Work(c)
      PROVE  [Promise!Next]_(Promise!promiseVars)
  BY <1>1, <1>4, Hidden, SendPromise, DispatchPromise, BeginPromise, ExecutePromise,
     CommitPromise, CommitFailsPromise
     DEF Work, Promise!Next
<1>5. ASSUME NEW c \in Clients, NEW cmd \in Commands, Receive(c, cmd)
      PROVE  [Promise!Next]_(Promise!promiseVars)
  BY <1>5, ReceivePromise DEF Promise!Next
<1>6. ASSUME NEW cmd \in Commands, OtherTransfer(cmd)
      PROVE  [Promise!Next]_(Promise!promiseVars)
  BY <1>6, OtherTransferPromise DEF Promise!Next
<1> QED BY <1>2, <1>3, <1>4, <1>5, <1>6 DEF Next, Kill

\* Every command takes effect at one instant between its arrival and its
\* answer, at most once, and the answer is true of that instant, for any
\* number of clients, whoever else moves money, and wherever the connection is
\* lost or the process ends.
THEOREM ServerImplementsPromise == Spec => ImplementsPromise
BY PromiseInit, PromiseNext, ServerIsSafe, PTL DEF Spec, ImplementsPromise, Promise!Spec
==============================================================================
