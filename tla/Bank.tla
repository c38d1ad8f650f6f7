--------------------------------- MODULE Bank ---------------------------------
(***************************************************************************)
(* What the database promises its clients, whatever runs concurrently and  *)
(* whatever fails: money moves only in whole transfers, each covered by    *)
(* the source's balance, moved in one step and recorded in the same step.  *)
(* The ledger here is what transferMoney records: an entry that a client   *)
(* inserts by itself is no transfer, and moves nothing.  BankDatabase      *)
(* implements this module.                                                 *)
(***************************************************************************)
EXTENDS Integers, Sequences

CONSTANTS Accounts,   \* account identifiers
          Opening     \* the balance of each account before any transfer

VARIABLES balance,    \* balance[a]: the committed balance of a, in cents
          ledger      \* the entries of the committed transfers, oldest first

bankVars == <<balance, ledger>>

Init == balance = Opening /\ ledger = << >>

Transfer(from, to, cents) ==
    /\ 0 < cents /\ cents <= balance[from]
    /\ balance' = [a \in Accounts |-> balance[a] - (IF a = from THEN cents ELSE 0)
                                                + (IF a = to THEN cents ELSE 0)]
    /\ ledger' = Append(ledger, [from |-> from, to |-> to, cents |-> cents])

Next == \E from, to \in Accounts : \E cents \in 1 .. balance[from] : Transfer(from, to, cents)

Spec == Init /\ [][Next]_bankVars
==============================================================================
