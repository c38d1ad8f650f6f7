----------------------------- MODULE AtomicCounter -----------------------------
(* What the concurrency demo promises: each increment counts exactly once. *)
EXTENDS Naturals

CONSTANTS Threads, Times

VARIABLES globalCounter,
          increments       \* increments[t]: how many of its increments t has made

atomicVars == <<globalCounter, increments>>

Init == globalCounter = 0 /\ increments = [t \in Threads |-> 0]

Increment(t) ==
    /\ increments[t] < Times
    /\ increments' = [increments EXCEPT ![t] = @ + 1]
    /\ globalCounter' = globalCounter + 1

Next == \E t \in Threads : Increment(t)

Spec == Init /\ [][Next]_atomicVars
==============================================================================
