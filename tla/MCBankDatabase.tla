---------------------------- MODULE MCBankDatabase ----------------------------
(* Small tables for TLC. *)
EXTENDS BankDatabase, TLC

CONSTANTS a1, a2, a3, usd, brl

\* a3 is in debt, as the credit accounts of the sample data are.
ThreeAccounts == a1 :> [balance |-> 3, currency |-> usd]
              @@ a2 :> [balance |-> 1, currency |-> usd]
              @@ a3 :> [balance |-> -1, currency |-> usd]

TwoAccounts == a1 :> [balance |-> 2, currency |-> usd]
            @@ a2 :> [balance |-> 0, currency |-> usd]

MixedAmounts == {-10, 4, 20}
==============================================================================
