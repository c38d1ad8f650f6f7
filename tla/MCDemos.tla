------------------------------- MODULE MCDemos -------------------------------
(* The two demo programs, one after the other.  They share nothing, so the *)
(* properties of each say the same as when it runs alone.                  *)
EXTENDS HttpDemo, CounterDemo

demoVars == <<httpVars, counterVars>>

\* A step of the second program, once the first has ended.
Second(A) == caller \in {"printed", "aborted"} /\ A /\ UNCHANGED counterVars

DemosInit == HttpInit /\ CounterInit

DemosNext ==
    \/ CounterNext /\ UNCHANGED httpVars
    \/ Second(HttpNext)

\* HttpFairness, from the end of the first program on.
SecondFairness ==
    WF_demoVars(Second(ServerStep)) /\ \A c \in Clients : WF_demoVars(Second(Leave(c)))

DemosSpec == DemosInit /\ [][DemosNext]_demoVars /\ CounterFairness /\ SecondFairness
==============================================================================
