------------------------- MODULE ServerLifecycleProofs -------------------------
(***************************************************************************)
(* Proofs about ServerLifecycle, for any set of descriptors and workers.   *)
(* Each action is shown to preserve the four parts of the invariant; the   *)
(* workers' part rests on one fact, that no number they hold is closed.    *)
(***************************************************************************)
EXTENDS ServerLifecycle, TLAPS

USE DEF NoSocket, Stopping

\* No number is a descriptor and NoSocket at once.
LEMMA NoSocketIsNone == NoSocket \notin Descriptors
BY LifecycleAssumption

LEMMA InitInv == Init => LifecycleInv
<1> SUFFICES ASSUME Init PROVE LifecycleInv
  OBVIOUS
<1>1. TypeOK
  BY DEF Init, TypeOK
<1>2. StepFacts
  BY NoSocketIsNone DEF Init, StepFacts
<1>3. WorkersOwnTheirSockets /\ ListenerIsKept
  BY DEF Init, WorkersOwnTheirSockets, ListenerIsKept
<1>4. StoppedIsQuiet /\ AcceptsTheListener
  BY DEF Init, StoppedIsQuiet, AcceptsTheListener
<1> QED BY <1>1, <1>2, <1>3, <1>4 DEF LifecycleInv

\* Workers keep their sockets in a step that neither starts nor ends one and
\* leaves the numbers of clients alone.
LEMMA WorkersKeep ==
    ASSUME WorkersOwnTheirSockets, clientSocket' = clientSocket,
           \A w \in Workers : worker[w] = "gone" <=> worker'[w] = "gone",
           \A d \in Descriptors : table[d] = "client" => table'[d] = "client"
    PROVE  WorkersOwnTheirSockets'
BY DEF WorkersOwnTheirSockets

LEMMA StartInv ==
    ASSUME LifecycleInv, StartAgain \/ Start
    PROVE  LifecycleInv'
<1> USE NoSocketIsNone DEF StartAgain, Start
<1>1. TypeOK'
  <2>1. table' \in [Descriptors -> {"free", "listener", "client", "other"}]
    BY DEF LifecycleInv, TypeOK, Opens
  <2>2. listenSocket' \in Descriptors \cup {NoSocket}
    BY DEF LifecycleInv, TypeOK
  <2>3. owner' \in {"idle", "bind"} /\ outcome' \in {"none", "ok", "threw"}
    BY DEF LifecycleInv, TypeOK, Throws
  <2>4. running' \in BOOLEAN
    BY DEF TypeOK
  <2>5. starts' \in Nat
    BY DEF LifecycleInv, TypeOK
  <2>6. UNCHANGED <<listening, accepting, workers>>
    OBVIOUS
  <2> QED BY <2>1, <2>2, <2>3, <2>4, <2>5, <2>6 DEF LifecycleInv, TypeOK, accepting, workers
<1>2. StepFacts'
  BY DEF LifecycleInv, TypeOK, StepFacts, AcceptsTheListener, Opens, Throws, accepting
<1>3. ListenerIsKept'
  BY DEF LifecycleInv, TypeOK, ListenerIsKept, StoppedIsQuiet, Opens
<1>4. StoppedIsQuiet'
  BY DEF StoppedIsQuiet
<1>5. AcceptsTheListener'
  BY DEF LifecycleInv, AcceptsTheListener, accepting
<1>6. WorkersOwnTheirSockets'
  <2>1. \A d \in Descriptors : table[d] = "client" => table'[d] = "client"
    BY DEF LifecycleInv, TypeOK, Opens, Unused
  <2>2. clientSocket' = clientSocket /\ \A w \in Workers : worker[w] = "gone" <=> worker'[w] = "gone"
    BY DEF workers
  <2> QED BY <2>1, <2>2, WorkersKeep DEF LifecycleInv
<1> QED BY <1>1, <1>2, <1>3, <1>4, <1>5, <1>6 DEF LifecycleInv

LEMMA ListenInv ==
    ASSUME LifecycleInv, BindAndListen \/ SpawnAcceptor
    PROVE  LifecycleInv'
<1> USE NoSocketIsNone DEF BindAndListen, SpawnAcceptor
<1>1. TypeOK'
  BY LifecycleAssumption DEF LifecycleInv, TypeOK, Closes, Throws, accepting, workers
<1>2. StepFacts'
  BY DEF LifecycleInv, TypeOK, StepFacts, Closes, Throws, accepting
<1>3. ListenerIsKept'
  BY DEF LifecycleInv, TypeOK, ListenerIsKept, Closes
<1>4. StoppedIsQuiet'
  BY DEF LifecycleInv, StepFacts, StoppedIsQuiet
<1>5. AcceptsTheListener'
  BY DEF LifecycleInv, StepFacts, AcceptsTheListener, accepting
<1>6. WorkersOwnTheirSockets'
  <2>1. \A d \in Descriptors : table[d] = "client" => table'[d] = "client"
    BY DEF LifecycleInv, TypeOK, StepFacts, Closes
  <2>2. clientSocket' = clientSocket /\ \A w \in Workers : worker[w] = "gone" <=> worker'[w] = "gone"
    BY DEF workers
  <2> QED BY <2>1, <2>2, WorkersKeep DEF LifecycleInv
<1> QED BY <1>1, <1>2, <1>3, <1>4, <1>5, <1>6 DEF LifecycleInv

LEMMA StopInv ==
    ASSUME LifecycleInv, Stop \/ Shutdown \/ CloseListener \/ Join
    PROVE  LifecycleInv'
<1> USE NoSocketIsNone DEF Stop, Shutdown, CloseListener, Join
<1>1. TypeOK'
  BY LifecycleAssumption DEF LifecycleInv, TypeOK, Closes, members, accepting, workers
<1>2. StepFacts'
  BY DEF LifecycleInv, TypeOK, StepFacts, AcceptsTheListener, members, accepting
<1>3. ListenerIsKept'
  BY DEF LifecycleInv, TypeOK, ListenerIsKept, Closes, members
<1>4. StoppedIsQuiet'
  BY DEF LifecycleInv, StepFacts, ListenerIsKept, StoppedIsQuiet, members
<1>5. AcceptsTheListener'
  BY DEF AcceptsTheListener
<1>6. WorkersOwnTheirSockets'
  <2>1. \A d \in Descriptors : table[d] = "client" => table'[d] = "client"
    BY DEF LifecycleInv, TypeOK, StepFacts, Closes
  <2>2. clientSocket' = clientSocket /\ \A w \in Workers : worker[w] = "gone" <=> worker'[w] = "gone"
    BY DEF workers
  <2> QED BY <2>1, <2>2, WorkersKeep DEF LifecycleInv
<1> QED BY <1>1, <1>2, <1>3, <1>4, <1>5, <1>6 DEF LifecycleInv

LEMMA ExitInv ==
    ASSUME LifecycleInv, Exit
    PROVE  LifecycleInv'
<1> USE NoSocketIsNone DEF Exit
<1>1. TypeOK'
  BY LifecycleAssumption DEF LifecycleInv, TypeOK, members, accepting
<1>2. StepFacts'
  BY DEF StepFacts
<1>3. ListenerIsKept'
  BY DEF ListenerIsKept
<1>4. StoppedIsQuiet'
  BY DEF LifecycleInv, StoppedIsQuiet, members, accepting
<1>5. AcceptsTheListener'
  BY DEF LifecycleInv, AcceptsTheListener, accepting
<1>6. WorkersOwnTheirSockets'
  BY DEF WorkersOwnTheirSockets
<1> QED BY <1>1, <1>2, <1>3, <1>4, <1>5, <1>6 DEF LifecycleInv

LEMMA AcceptStepInv ==
    ASSUME LifecycleInv, AcceptStep
    PROVE  LifecycleInv'
<1> USE NoSocketIsNone DEF AcceptStep, CheckRunning, LoadSocket, EnterAccept, AcceptFails
<1>1. TypeOK'
  BY LifecycleAssumption DEF LifecycleInv, TypeOK, members, workers
<1>2. StepFacts'
  BY DEF LifecycleInv, StepFacts, members
<1>3. ListenerIsKept'
  BY DEF LifecycleInv, ListenerIsKept, members
<1>4. StoppedIsQuiet'
  BY DEF LifecycleInv, StoppedIsQuiet, members
<1>5. AcceptsTheListener'
  BY DEF LifecycleInv, AcceptsTheListener, members
<1>6. WorkersOwnTheirSockets'
  <2>1. \A d \in Descriptors : table[d] = "client" => table'[d] = "client"
    BY DEF workers
  <2>2. clientSocket' = clientSocket /\ \A w \in Workers : worker[w] = "gone" <=> worker'[w] = "gone"
    BY DEF workers
  <2> QED BY <2>1, <2>2, WorkersKeep DEF LifecycleInv
<1> QED BY <1>1, <1>2, <1>3, <1>4, <1>5, <1>6 DEF LifecycleInv

LEMMA AcceptClientInv ==
    ASSUME LifecycleInv, NEW w \in Workers, AcceptClient(w)
    PROVE  LifecycleInv'
<1> USE NoSocketIsNone DEF AcceptClient
<1>1. TypeOK'
  BY LifecycleAssumption DEF LifecycleInv, TypeOK, Opens, members
<1>2. StepFacts'
  BY DEF LifecycleInv, StepFacts, AcceptsTheListener, Opens, Unused, members
<1>3. ListenerIsKept'
  BY DEF LifecycleInv, ListenerIsKept, Opens, members
<1>4. StoppedIsQuiet'
  BY DEF LifecycleInv, StoppedIsQuiet, members
<1>5. AcceptsTheListener'
  BY DEF LifecycleInv, AcceptsTheListener, Opens, Unused, members
<1>6. WorkersOwnTheirSockets'
  BY DEF LifecycleInv, TypeOK, WorkersOwnTheirSockets, Opens, Unused
<1> QED BY <1>1, <1>2, <1>3, <1>4, <1>5, <1>6 DEF LifecycleInv

LEMMA ServeInv ==
    ASSUME LifecycleInv, NEW w \in Workers, Receive(w) \/ Respond(w) \/ HangUp(w)
    PROVE  LifecycleInv'
<1> USE NoSocketIsNone DEF Receive, Respond, HangUp
<1>1. TypeOK'
  BY LifecycleAssumption DEF LifecycleInv, TypeOK, members, accepting
<1>2. StepFacts'
  BY DEF LifecycleInv, StepFacts, members, accepting
<1>3. ListenerIsKept'
  BY DEF LifecycleInv, ListenerIsKept, members
<1>4. StoppedIsQuiet'
  BY DEF LifecycleInv, StoppedIsQuiet, members, accepting
<1>5. AcceptsTheListener'
  BY DEF LifecycleInv, AcceptsTheListener, members, accepting
<1>6. WorkersOwnTheirSockets'
  <2>1. \A d \in Descriptors : table[d] = "client" => table'[d] = "client"
    BY DEF accepting
  <2>2. clientSocket' = clientSocket /\ \A x \in Workers : worker[x] = "gone" <=> worker'[x] = "gone"
    BY DEF LifecycleInv, TypeOK
  <2> QED BY <2>1, <2>2, WorkersKeep DEF LifecycleInv
<1> QED BY <1>1, <1>2, <1>3, <1>4, <1>5, <1>6 DEF LifecycleInv

LEMMA CloseClientInv ==
    ASSUME LifecycleInv, NEW w \in Workers, CloseClient(w)
    PROVE  LifecycleInv'
<1> USE NoSocketIsNone DEF CloseClient
<1>1. TypeOK'
  <2>1. table' \in [Descriptors -> {"free", "listener", "client", "other"}]
    BY DEF LifecycleInv, TypeOK, Closes
  <2>2. worker' \in [Workers -> {"gone", "recv", "query", "close"}]
    BY DEF LifecycleInv, TypeOK
  <2>3. clientSocket' \in [Workers -> Descriptors \cup {NoSocket}]
    BY DEF LifecycleInv, TypeOK
  <2> QED BY <2>1, <2>2, <2>3 DEF LifecycleInv, TypeOK, members, accepting
<1>2. StepFacts'
  BY DEF LifecycleInv, StepFacts, WorkersOwnTheirSockets, Closes, members, accepting
<1>3. ListenerIsKept'
  BY DEF LifecycleInv, ListenerIsKept, Closes, members
<1>4. StoppedIsQuiet'
  BY DEF LifecycleInv, StoppedIsQuiet, Closes, members, accepting
<1>5. AcceptsTheListener'
  BY DEF LifecycleInv, AcceptsTheListener, WorkersOwnTheirSockets, Closes, members, accepting
<1>6. WorkersOwnTheirSockets'
  BY DEF LifecycleInv, TypeOK, WorkersOwnTheirSockets, Closes
<1> QED BY <1>1, <1>2, <1>3, <1>4, <1>5, <1>6 DEF LifecycleInv

LEMMA OthersInv ==
    ASSUME LifecycleInv, OpenOther \/ CloseOther
    PROVE  LifecycleInv'
<1> USE NoSocketIsNone DEF OpenOther, CloseOther
<1>1. TypeOK'
  BY LifecycleAssumption DEF LifecycleInv, TypeOK, Opens, Closes, members, accepting, workers
<1>2. StepFacts'
  BY DEF LifecycleInv, TypeOK, StepFacts, Opens, Unused, Closes, members, accepting
<1>3. ListenerIsKept'
  BY DEF LifecycleInv, TypeOK, ListenerIsKept, Opens, Closes, members
<1>4. StoppedIsQuiet'
  BY DEF LifecycleInv, TypeOK, StoppedIsQuiet, Opens, Closes, members, accepting
<1>5. AcceptsTheListener'
  BY DEF LifecycleInv, TypeOK, AcceptsTheListener, Opens, Unused, Closes, members, accepting
<1>6. WorkersOwnTheirSockets'
  <2>1. \A d \in Descriptors : table[d] = "client" => table'[d] = "client"
    BY DEF LifecycleInv, TypeOK, Opens, Unused, Closes
  <2>2. clientSocket' = clientSocket /\ \A w \in Workers : worker[w] = "gone" <=> worker'[w] = "gone"
    BY DEF workers
  <2> QED BY <2>1, <2>2, WorkersKeep DEF LifecycleInv
<1> QED BY <1>1, <1>2, <1>3, <1>4, <1>5, <1>6 DEF LifecycleInv

LEMMA StutterInv ==
    ASSUME LifecycleInv, UNCHANGED vars
    PROVE  LifecycleInv'
<1> USE NoSocketIsNone DEF vars
<1>1. TypeOK'
  BY LifecycleAssumption DEF LifecycleInv, TypeOK, members, accepting, workers
<1>2. StepFacts'
  BY DEF LifecycleInv, StepFacts, members, accepting
<1>3. ListenerIsKept'
  BY DEF LifecycleInv, ListenerIsKept, members
<1>4. StoppedIsQuiet'
  BY DEF LifecycleInv, StoppedIsQuiet, members, accepting
<1>5. AcceptsTheListener'
  BY DEF LifecycleInv, AcceptsTheListener, members, accepting
<1>6. WorkersOwnTheirSockets'
  <2>1. \A d \in Descriptors : table[d] = "client" => table'[d] = "client"
    BY DEF workers
  <2>2. clientSocket' = clientSocket /\ \A w \in Workers : worker[w] = "gone" <=> worker'[w] = "gone"
    BY DEF workers
  <2> QED BY <2>1, <2>2, WorkersKeep DEF LifecycleInv
<1> QED BY <1>1, <1>2, <1>3, <1>4, <1>5, <1>6 DEF LifecycleInv

LEMMA NextInv == LifecycleInv /\ [Next]_vars => LifecycleInv'
BY StartInv, ListenInv, StopInv, ExitInv, AcceptStepInv, AcceptClientInv, ServeInv,
   CloseClientInv, OthersInv, StutterInv
   DEF Next, OwnerStep

\* The invariant, for any interleaving of start(), stop(), the accept loop,
\* the workers and whatever else opens sockets.
THEOREM LifecycleIsSafe == Spec => []LifecycleInv
BY InitInv, NextInv, PTL DEF Spec

\* Nobody but its worker closes the socket of a client.
THEOREM ClientSocketsAreSafe == Spec => []WorkersOwnTheirSockets
BY LifecycleIsSafe, PTL DEF LifecycleInv

\* The listening socket is never leaked.
THEOREM ListenerNeverLeaks == Spec => []ListenerIsKept
BY LifecycleIsSafe, PTL DEF LifecycleInv

\* A stopped server holds no socket and runs no accept loop.
THEOREM StopIsComplete == Spec => []StoppedIsQuiet
BY LifecycleIsSafe, PTL DEF LifecycleInv

\* The accept loop of a running server accepts from its open socket.
THEOREM AcceptsOnlyTheListener == Spec => []AcceptsTheListener
BY LifecycleIsSafe, PTL DEF LifecycleInv
==============================================================================
