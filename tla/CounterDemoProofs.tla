--------------------------- MODULE CounterDemoProofs ---------------------------
(* Proofs about CounterDemo, for any number of threads and increments. *)
EXTENDS CounterDemo, FiniteSetTheorems, TLAPS

LEMMA CounterInitInv == CounterInit => CounterInv
BY CounterAssumption DEF CounterInit, CounterInv, Inside

LEMMA CounterNextInv == CounterInv /\ [CounterNext]_counterVars => CounterInv'
<1> SUFFICES ASSUME CounterInv, [CounterNext]_counterVars PROVE CounterInv'
  OBVIOUS
<1> USE CounterAssumption DEF CounterInv, Inside, Step
<1>1. ASSUME NEW t \in Threads, StartThread(t) \/ EndThread(t) PROVE CounterInv'
  BY <1>1 DEF StartThread, EndThread
<1>2. ASSUME NEW t \in Threads, Lock(t) PROVE CounterInv'
  BY <1>2 DEF Lock
<1>3. ASSUME NEW t \in Threads, ReadCounter(t) PROVE CounterInv'
  BY <1>3 DEF ReadCounter
<1>4. ASSUME NEW t \in Threads, WriteCounter(t) PROVE CounterInv'
  BY <1>4 DEF WriteCounter
<1>5. ASSUME NEW t \in Threads, Unlock(t) PROVE CounterInv'
  BY <1>5 DEF Unlock
<1>6. CASE StartFails \/ Joins \/ Report \/ UNCHANGED counterVars
  BY <1>6 DEF StartFails, Joins, Report, counterVars
<1> QED BY <1>1, <1>2, <1>3, <1>4, <1>5, <1>6 DEF CounterNext, ThreadStep

\* Only the holder of counterMutex is between reading and writing the counter,
\* and what it has read is still the counter when it writes.
THEOREM CounterIsSafe == CounterSpec => []CounterInv
BY CounterInitInv, CounterNextInv, PTL DEF CounterSpec

------------------------------------------------------------------------------

Increments == [t \in Threads |-> i[t] + (IF step[t] = "unlock" THEN 1 ELSE 0)]

\* Every step but the write leaves what has been counted alone.
LEMMA Uncounted ==
    ASSUME CounterInv, NEW t \in Threads,
           StartThread(t) \/ Lock(t) \/ ReadCounter(t) \/ Unlock(t) \/ EndThread(t)
    PROVE  UNCHANGED <<globalCounter, Increments>>
<1> USE DEF CounterInv, Step, Increments
<1>1. CASE Unlock(t)
  BY <1>1 DEF Unlock
<1>2. CASE ~Unlock(t)
  BY <1>2 DEF StartThread, Lock, ReadCounter, EndThread
<1> QED BY <1>1, <1>2

\* The write counts one, because the counter is still what was read.
LEMMA WriteCounts ==
    ASSUME CounterInv, NEW t \in Threads, WriteCounter(t) PROVE Atomic!Increment(t)
<1>1. globalCounter' = globalCounter + 1 /\ i[t] < Times /\ Increments[t] = i[t]
  BY DEF CounterInv, WriteCounter, Step, Increments, Inside
<1>2. Increments' = [Increments EXCEPT ![t] = @ + 1]
  BY DEF CounterInv, WriteCounter, Step, Increments
<1> QED BY <1>1, <1>2 DEF Atomic!Increment, Increments

LEMMA AtomicInit == CounterInit => Atomic!Init
BY DEF CounterInit, Atomic!Init

LEMMA AtomicNext ==
    ASSUME CounterInv, [CounterNext]_counterVars PROVE [Atomic!Next]_(Atomic!atomicVars)
<1>1. UNCHANGED <<globalCounter, Increments>> => UNCHANGED Atomic!atomicVars
  BY DEF Atomic!atomicVars, Increments
<1>2. CASE StartFails \/ Joins \/ Report \/ UNCHANGED counterVars
  BY <1>1, <1>2 DEF StartFails, Joins, Report, counterVars, Increments
<1>3. ASSUME NEW t \in Threads, StartThread(t) \/ ThreadStep(t)
      PROVE  [Atomic!Next]_(Atomic!atomicVars)
  BY <1>1, <1>3, Uncounted, WriteCounts DEF ThreadStep, Atomic!Next
<1> QED BY <1>2, <1>3 DEF CounterNext

\* No update is lost, for any number of threads and increments.
THEOREM CounterImplementsAtomic == CounterSpec => ImplementsAtomic
BY AtomicInit, AtomicNext, CounterIsSafe, PTL DEF CounterSpec, ImplementsAtomic, Atomic!Spec

------------------------------------------------------------------------------
(***************************************************************************)
(* The counter as a number of things: the increments that were made, each  *)
(* named by its thread and its turn.  Whoever makes one adds one element,  *)
(* and when every thread has ended the set is Threads \X (1 .. Times).     *)
(***************************************************************************)

Made == UNION {{t} \X (1 .. Increments[t]) : t \in Threads}

CountsMade == IsFiniteSet(Made) /\ Cardinality(Made) = globalCounter

LEMMA CountsMadeInit == CounterInit => CountsMade
<1> SUFFICES ASSUME CounterInit PROVE CountsMade
  OBVIOUS
<1>1. Made = {}
  BY DEF CounterInit, Made, Increments
<1> QED BY <1>1, FS_EmptySet DEF CounterInit, CountsMade

LEMMA IncrementMakesOne ==
    ASSUME CounterInv, CountsMade, NEW t \in Threads, Atomic!Increment(t)
    PROVE  CountsMade'
<1> DEFINE turn == Increments[t] + 1
<1>1. /\ Increments \in [Threads -> Nat] /\ globalCounter' = globalCounter + 1
      /\ Increments' = [Increments EXCEPT ![t] = turn]
  BY CounterAssumption DEF CounterInv, Atomic!Increment, Increments
<1>2. 1 .. turn = (1 .. Increments[t]) \cup {turn} /\ turn \notin 1 .. Increments[t]
  BY <1>1
<1>3. Made' = Made \cup {<<t, turn>>}
  BY <1>1, <1>2 DEF Made
<1>4. <<t, turn>> \notin Made
  BY <1>2 DEF Made
<1> QED BY <1>1, <1>3, <1>4, FS_AddElement DEF CountsMade

LEMMA CountsMadeNext ==
    ASSUME CounterInv, CountsMade, [CounterNext]_counterVars PROVE CountsMade'
<1>1. CASE UNCHANGED Atomic!atomicVars
  BY <1>1 DEF Atomic!atomicVars, CountsMade, Made, Increments
<1>2. CASE Atomic!Next
  BY <1>2, IncrementMakesOne DEF Atomic!Next
<1> QED BY <1>1, <1>2, AtomicNext

LEMMA EndedCount == CounterInv /\ CountsMade => ActualIsExpected
<1> SUFFICES ASSUME CounterInv, CountsMade, caller = "printed"
             PROVE  globalCounter = Cardinality(Threads) * Times
  BY DEF ActualIsExpected
<1>1. \A t \in Threads : Increments[t] = Times
  BY CounterAssumption DEF CounterInv, Increments
<1>2. Made = Threads \X (1 .. Times)
  BY <1>1 DEF Made
<1>3. Cardinality(1 .. Times) = Times /\ IsFiniteSet(1 .. Times)
  BY FS_Interval, CounterAssumption
<1> QED BY <1>2, <1>3, FS_Product, CounterAssumption DEF CountsMade

\* The two numbers main() prints are equal, for any number of threads and
\* increments.
THEOREM CountIsExact == CounterSpec => []ActualIsExpected
<1>1. CounterSpec => []CountsMade
  BY CountsMadeInit, CountsMadeNext, CounterIsSafe, PTL DEF CounterSpec
<1> QED BY <1>1, EndedCount, CounterIsSafe, PTL
==============================================================================
