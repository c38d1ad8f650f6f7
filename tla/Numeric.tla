------------------------------- MODULE Numeric -------------------------------
(***************************************************************************)
(* Fixed-point money as the schema stores it and the server prints it.     *)
(* The columns balance and amount are NUMERIC(14,2)                        *)
(* (database/initdb.sql:42,54): a whole number of cents.  The amount of a  *)
(* transfer keeps every digit the client sent, because PostgreSQL drops    *)
(* the type modifier of a function argument (transferMoney.sql:7), so      *)
(* amounts are counted here in mills, a tenth of a cent: enough to tell    *)
(* values below, at and above half a cent.                                 *)
(***************************************************************************)
EXTENDS Integers

Mills == 10

\* Assigning a numeric to a NUMERIC(14,2) column rounds half away from zero.
ToCents(mills) ==
    IF mills >= 0 THEN (mills + Mills \div 2) \div Mills
                  ELSE -((-mills + Mills \div 2) \div Mills)

\* An amount that lies exactly between two cents.
IsTie(mills) == mills % Mills = Mills \div 2

\* What the last printed digit may count, for any balance of fourteen digits.
Units == {1, 10, 100, 1000, 10000, 100000, 1000000, 10000000, 100000000}

\* What operator<< may print for a balance held in a double: all of it below
\* `exact' cents, else the nearest number with as many significant digits.  Of
\* two nearest ones either may come out: most cents are not binary fractions.
Shown(cents, exact) ==
    LET size == IF cents < 0 THEN -cents ELSE cents
        Fits(unit) == size < unit * exact /\ (unit > 1 => size >= (unit \div 10) * exact)
    IN  UNION {{n \in (cents - unit) .. (cents + unit) :
                    n % unit = 0 /\ 2 * (n - cents) <= unit /\ 2 * (cents - n) <= unit} :
               unit \in {u \in Units : Fits(u)}}
==============================================================================
