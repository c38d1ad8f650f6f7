------------------------- MODULE MCTransactionServer -------------------------
(* A small server for TLC: three account ids, one of them unknown. *)
EXTENDS TransactionServer, TLC

CONSTANTS a1, a2, a3, lost

\* The balance of a1 has more digits than are printed; the currency of a3 is
\* null; lost is the id of no account.
Balances == a1 :> 15 @@ a2 :> 1 @@ a3 :> 0

AllCommands ==
    {[op |-> "PING"], [op |-> "UNKNOWN"]}
    \cup [op : {"BALANCE"}, account : {a1, a3, lost}]
    \cup {[op |-> "TRANSFER", from |-> a1, to |-> a2, cents |-> 9],
          [op |-> "TRANSFER", from |-> a2, to |-> a1, cents |-> 1],
          [op |-> "TRANSFER", from |-> a1, to |-> a2, cents |-> 0],
          [op |-> "TRANSFER", from |-> a1, to |-> lost, cents |-> 9]}

FewCommands ==
    {[op |-> "PING"], [op |-> "BALANCE", account |-> a1],
     [op |-> "TRANSFER", from |-> a1, to |-> a2, cents |-> 9]}
==============================================================================
