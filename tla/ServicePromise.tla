---------------------------- MODULE ServicePromise ----------------------------
(***************************************************************************)
(* What the transaction server promises a client: a command takes effect   *)
(* at one instant between its arrival and its answer, at most once; OK     *)
(* means that the money moved, and a balance is what the server prints for *)
(* the balance of that instant.  ERROR says only that the command is over: *)
(* a transfer whose commit was cut off may have been applied, as it may    *)
(* when the server dies before it answers.  Others move money too.         *)
(***************************************************************************)
EXTENDS Numeric

CONSTANTS Clients, Accounts, Commands, Opening, ExactBelow

VARIABLES balance,    \* the committed balances
          stage,      \* stage[c]: idle, pending (received), read (took effect), done
          command,    \* command[c]: the command of c that is open
          answer      \* answer[c]: its answer, once it took effect

promiseVars == <<balance, stage, command, answer>>

NoCommand == [op |-> "none"]
NoAnswer  == [kind |-> "none"]
Error     == [kind |-> "ERROR"]

Init ==
    /\ balance = Opening
    /\ stage = [c \in Clients |-> "idle"]
    /\ command = [c \in Clients |-> NoCommand]
    /\ answer = [c \in Clients |-> NoAnswer]

Submit(c, cmd) ==
    /\ stage[c] = "idle"
    /\ stage' = [stage EXCEPT ![c] = "pending"]
    /\ command' = [command EXCEPT ![c] = cmd]
    /\ UNCHANGED <<balance, answer>>

Advance(c, from, to, reply) ==
    /\ stage[c] \in from
    /\ stage' = [stage EXCEPT ![c] = to]
    /\ answer' = [answer EXCEPT ![c] = reply]
    /\ UNCHANGED command

Fail(c) == Advance(c, {"pending", "read"}, "done", Error) /\ UNCHANGED balance

Ping(c) ==
    /\ command[c].op = "PING"
    /\ Advance(c, {"pending"}, "done", [kind |-> "PONG"])
    /\ UNCHANGED balance

Read(c) ==
    /\ command[c].op = "BALANCE"
    /\ \/ Advance(c, {"pending"}, "read", Error)
       \/ /\ command[c].account \in Accounts
          /\ \E n \in Shown(balance[command[c].account], ExactBelow) :
                 Advance(c, {"pending"}, "read", [kind |-> "BALANCE", cents |-> n])
    /\ UNCHANGED balance

Confirm(c) == Advance(c, {"read"}, "done", answer[c]) /\ UNCHANGED balance

\* A transfer that is covered moves its amount.
Move(cmd) ==
    /\ cmd.op = "TRANSFER" /\ {cmd.from, cmd.to} \subseteq Accounts
    /\ 0 < cmd.cents /\ cmd.cents <= balance[cmd.from]
    /\ balance' = [a \in Accounts |-> balance[a] - (IF a = cmd.from THEN cmd.cents ELSE 0)
                                                + (IF a = cmd.to THEN cmd.cents ELSE 0)]

Transfer(c) ==
    /\ Move(command[c])
    /\ \E reply \in {[kind |-> "OK"], Error} : Advance(c, {"pending"}, "done", reply)

Deliver(c) ==
    /\ stage[c] = "done"
    /\ stage' = [stage EXCEPT ![c] = "idle"]
    /\ command' = [command EXCEPT ![c] = NoCommand]
    /\ answer' = [answer EXCEPT ![c] = NoAnswer]
    /\ UNCHANGED balance

\* A transfer of somebody else.
Outside(cmd) == Move(cmd) /\ UNCHANGED <<stage, command, answer>>

\* The server dies: no command is answered, and at most one took effect.
Crash ==
    /\ stage' = [c \in Clients |-> "idle"]
    /\ command' = [c \in Clients |-> NoCommand]
    /\ answer' = [c \in Clients |-> NoAnswer]
    /\ \/ UNCHANGED balance
       \/ \E c \in Clients : stage[c] = "pending" /\ Move(command[c])

Next ==
    \/ \E c \in Clients :
           \/ \E cmd \in Commands : Submit(c, cmd)
           \/ Fail(c) \/ Ping(c) \/ Read(c) \/ Confirm(c) \/ Transfer(c) \/ Deliver(c)
    \/ \E cmd \in Commands : Outside(cmd)
    \/ Crash

Spec == Init /\ [][Next]_promiseVars
==============================================================================
