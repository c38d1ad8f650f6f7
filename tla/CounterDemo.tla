------------------------------ MODULE CounterDemo ------------------------------
(***************************************************************************)
(* The concurrency demo (server/concurrency/main.cpp): threads increment   *)
(* one global counter under a mutex, and main joins them and prints the    *)
(* expected and the actual count.  globalCounter++ is a read and a write.  *)
(***************************************************************************)
EXTENDS Integers, FiniteSets

CONSTANTS Threads, Times,  \* numThreads threads of incrementsPerThread increments
          NoThread         \* the holder of a free mutex

ASSUME CounterAssumption == IsFiniteSet(Threads) /\ Times \in Nat /\ NoThread \notin Threads

VARIABLES globalCounter,
          counterMutex,  \* the thread that holds it, or NoThread
          step,          \* step[t]: where thread t is
          i,             \* i[t]: the loop variable
          register,      \* register[t]: the value t has read
          caller         \* main(): start, join, printed, or aborted

counterVars == <<globalCounter, counterMutex, step, i, register, caller>>

CounterInit ==
    /\ globalCounter = 0 /\ counterMutex = NoThread
    /\ step = [t \in Threads |-> "new"]
    /\ i = [t \in Threads |-> 0]
    /\ register = [t \in Threads |-> 0]
    /\ caller = "start"

Step(t, from, to) ==
    /\ caller # "aborted" /\ step[t] = from
    /\ step' = [step EXCEPT ![t] = to]
    /\ UNCHANGED caller

\* main() creates a thread.
StartThread(t) ==
    /\ caller = "start" /\ Step(t, "new", "loop")
    /\ UNCHANGED <<globalCounter, counterMutex, i, register>>

\* std::thread throws; destroying the threads already started ends the process.
StartFails ==
    /\ caller = "start" /\ \E t \in Threads : step[t] = "new"
    /\ caller' = "aborted"
    /\ UNCHANGED <<globalCounter, counterMutex, step, i, register>>

Joins ==
    /\ caller = "start" /\ \A t \in Threads : step[t] # "new"
    /\ caller' = "join"
    /\ UNCHANGED <<globalCounter, counterMutex, step, i, register>>

\* Mutant of Lock: no guard.
NoLock(t) ==
    /\ i[t] < Times /\ Step(t, "loop", "read")
    /\ UNCHANGED <<globalCounter, counterMutex, i, register>>

Lock(t) ==
    /\ i[t] < Times /\ counterMutex = NoThread
    /\ Step(t, "loop", "read")
    /\ counterMutex' = t
    /\ UNCHANGED <<globalCounter, i, register>>

ReadCounter(t) ==
    /\ Step(t, "read", "write")
    /\ register' = [register EXCEPT ![t] = globalCounter]
    /\ UNCHANGED <<globalCounter, counterMutex, i>>

WriteCounter(t) ==
    /\ Step(t, "write", "unlock")
    /\ globalCounter' = register[t] + 1
    /\ UNCHANGED <<counterMutex, i, register>>

\* Mutant of Unlock: the mutex is locked by hand and stays locked.
NoUnlock(t) ==
    /\ Step(t, "unlock", "loop")
    /\ i' = [i EXCEPT ![t] = @ + 1]
    /\ UNCHANGED <<globalCounter, counterMutex, register>>

\* The guard leaves its scope.
Unlock(t) ==
    /\ Step(t, "unlock", "loop")
    /\ counterMutex' = NoThread
    /\ i' = [i EXCEPT ![t] = @ + 1]
    /\ UNCHANGED <<globalCounter, register>>

EndThread(t) ==
    /\ i[t] = Times /\ Step(t, "loop", "ended")
    /\ UNCHANGED <<globalCounter, counterMutex, i, register>>

\* Mutant of Report: the threads are detached, not joined.
ReportEarly ==
    /\ caller = "join" /\ caller' = "printed"
    /\ UNCHANGED <<globalCounter, counterMutex, step, i, register>>

\* Every join() returned, and both counts are printed.
Report ==
    /\ caller = "join" /\ \A t \in Threads : step[t] = "ended"
    /\ caller' = "printed"
    /\ UNCHANGED <<globalCounter, counterMutex, step, i, register>>

ThreadStep(t) == Lock(t) \/ ReadCounter(t) \/ WriteCounter(t) \/ Unlock(t) \/ EndThread(t)

CounterNext ==
    \/ \E t \in Threads : StartThread(t) \/ ThreadStep(t)
    \/ StartFails \/ Joins \/ Report

\* Threads that can run do, and main starts and joins them; each locks only
\* Times times, so a waiting thread needs no more than that to get the mutex.
CounterFairness ==
    /\ \A t \in Threads : WF_counterVars(StartThread(t)) /\ WF_counterVars(ThreadStep(t))
    /\ WF_counterVars(Joins) /\ WF_counterVars(Report)

CounterSpec == CounterInit /\ [][CounterNext]_counterVars /\ CounterFairness

------------------------------------------------------------------------------
(* Properties. *)

Inside == {"read", "write", "unlock"}

\* Types, and the inductive invariant: only the holder of the mutex is inside,
\* what it has read is still the counter when it writes, a thread that ended
\* made all its passes, and nothing is printed before all have ended.
CounterInv ==
    /\ globalCounter \in Nat /\ counterMutex \in Threads \cup {NoThread}
    /\ step \in [Threads -> {"new", "loop", "ended"} \cup Inside]
    /\ i \in [Threads -> 0 .. Times] /\ register \in [Threads -> Nat]
    /\ caller \in {"start", "join", "printed", "aborted"}
    /\ \A t \in Threads :
           /\ step[t] \in Inside <=> counterMutex = t
           /\ step[t] \in Inside => i[t] < Times
           /\ step[t] = "write" => register[t] = globalCounter
           /\ step[t] = "ended" => i[t] = Times
           /\ caller = "printed" => step[t] = "ended"

\* No update is lost: however the threads interleave, each pass through the
\* loop adds exactly one.
Atomic == INSTANCE AtomicCounter WITH
    increments <- [t \in Threads |-> i[t] + (IF step[t] = "unlock" THEN 1 ELSE 0)]
ImplementsAtomic == Atomic!Spec

\* What main() prints as Actual is what it prints as Expected.
ActualIsExpected ==
    caller = "printed" => globalCounter = Cardinality(Threads) * Times

\* The program ends.
DemoEnds == <>(caller \in {"printed", "aborted"})
==============================================================================
