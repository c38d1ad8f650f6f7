---------------------------- MODULE ServerLifecycle ----------------------------
(***************************************************************************)
(* start(), stop(), the accept loop and the detached workers of class      *)
(* Server (core/src/server.cpp), over the descriptor table of the process. *)
(* The owner is the thread that calls start and stop: main, or a test      *)
(* fixture.  Other code of the process opens sockets too: the clients that *)
(* test_server.cpp runs beside the server.                                 *)
(*                                                                         *)
(* A descriptor is a number; closing it frees the number, and the next     *)
(* open takes the smallest free one.  A thread blocked in accept() holds   *)
(* the socket, not the number: close() alone does not wake it.             *)
(***************************************************************************)
EXTENDS Integers

CONSTANTS Descriptors,   \* the numbers the process may use
          Workers,       \* names for worker threads, used again when one ends
          MaxStarts      \* bound on the calls of start()

ASSUME LifecycleAssumption == Descriptors \subseteq Nat /\ MaxStarts \in Nat

VARIABLES table,          \* table[d]: what d refers to: listener, client, other or free
          listening,      \* the listening socket: open, shut (after shutdown) or gone
          listenSocket,   \* the member of that name
          running,        \* the member of that name
          owner,          \* the next step of start() or stop(), idle between calls
          outcome,        \* how the last start() ended; none after stop()
          starts,         \* how many times start() was called
          acceptor,       \* acceptThread: none, or the next step of acceptLoop()
          acceptSocket,   \* the number acceptLoop() passes to accept()
          worker,         \* worker[w]: the next step of handleClient(), or gone
          clientSocket    \* clientSocket[w]: its argument

members == <<listenSocket, running, outcome, starts>>
accepting == <<acceptor, acceptSocket>>
workers == <<worker, clientSocket>>
vars == <<table, listening, members, owner, accepting, workers>>

NoSocket == -1

Init ==
    /\ table = [d \in Descriptors |-> "free"]
    /\ listening = "gone"
    /\ listenSocket = NoSocket /\ running = FALSE
    /\ owner = "idle" /\ outcome = "none" /\ starts = 0
    /\ acceptor = "none" /\ acceptSocket = NoSocket
    /\ worker = [w \in Workers |-> "gone"]
    /\ clientSocket = [w \in Workers |-> NoSocket]

------------------------------------------------------------------------------
(* The descriptor table. *)

Unused == {d \in Descriptors : table[d] = "free"}

\* The kernel hands out the smallest unused number.
Opens(d, kind) ==
    /\ d \in Unused /\ \A e \in Unused : d <= e
    /\ table' = [table EXCEPT ![d] = kind]

Closes(d) == table' = [table EXCEPT ![d] = "free"]

------------------------------------------------------------------------------
(* start() *)

Throws == outcome' = "threw" /\ owner' = "idle"

\* start() on a server that runs returns at once.
StartAgain ==
    /\ owner = "idle" /\ running /\ starts < MaxStarts
    /\ starts' = starts + 1
    /\ outcome' = "ok"
    /\ UNCHANGED <<table, listening, listenSocket, running, owner, accepting, workers>>

\* Mutant of Start: it does not look whether the server runs.
StartUnguarded ==
    /\ owner = "idle" /\ starts < MaxStarts
    /\ \E d \in Descriptors : Opens(d, "listener") /\ listenSocket' = d
    /\ running' = TRUE /\ starts' = starts + 1 /\ owner' = "bind"
    /\ UNCHANGED <<listening, outcome, accepting, workers>>

\* socket() may fail, and does when no number is left; running is set before
\* the test.
Start ==
    /\ owner = "idle" /\ ~running /\ starts < MaxStarts
    /\ starts' = starts + 1
    /\ running' = TRUE
    /\ \/ /\ \E d \in Descriptors : Opens(d, "listener") /\ listenSocket' = d
          /\ owner' = "bind"
          /\ UNCHANGED outcome
       \/ /\ listenSocket' = NoSocket
          /\ Throws
          /\ UNCHANGED table
    /\ UNCHANGED <<listening, accepting, workers>>

\* Mutant of BindAndListen: the result of listen() is not looked at.
ListenUnchecked ==
    /\ owner = "bind" /\ owner' = "spawn"
    /\ listening' \in {"open", listening}
    /\ UNCHANGED <<table, outcome, listenSocket, running, starts, accepting, workers>>

\* bind() and listen(); when either fails the socket is closed.
BindAndListen ==
    /\ owner = "bind"
    /\ \/ /\ listening' = "open" /\ owner' = "spawn"
          /\ UNCHANGED <<table, outcome>>
       \/ /\ Closes(listenSocket)
          /\ Throws
          /\ UNCHANGED listening
    /\ UNCHANGED <<listenSocket, running, starts, accepting, workers>>

\* std::thread throws when no thread can be created.
SpawnAcceptor ==
    /\ owner = "spawn"
    /\ \/ acceptor' = "check" /\ owner' = "idle" /\ outcome' = "ok"
       \/ Throws /\ UNCHANGED acceptor
    /\ UNCHANGED <<table, listening, listenSocket, running, starts, acceptSocket, workers>>

------------------------------------------------------------------------------
(* stop(), which ~Server() calls too.  On a stopped server it does nothing. *)

Stop ==
    /\ owner = "idle" /\ running
    /\ running' = FALSE /\ outcome' = "none"
    /\ owner' = IF listenSocket # NoSocket THEN "shutdown" ELSE "join"
    /\ UNCHANGED <<table, listening, listenSocket, starts, accepting, workers>>

\* Mutant of Shutdown: the socket is only closed.
NoShutdown ==
    /\ owner = "shutdown" /\ owner' = "close"
    /\ UNCHANGED <<table, listening, members, accepting, workers>>

\* Whatever the number refers to is shut down.
Shutdown ==
    /\ owner = "shutdown" /\ owner' = "close"
    /\ listening' = IF table[listenSocket] = "listener" THEN "shut" ELSE listening
    /\ UNCHANGED <<table, members, accepting, workers>>

\* Mutant of CloseListener: listenSocket keeps the number.
CloseKeepsNumber ==
    /\ owner = "close" /\ owner' = "join"
    /\ Closes(listenSocket)
    /\ listening' = IF acceptor = "blocked" THEN listening ELSE "gone"
    /\ UNCHANGED <<members, accepting, workers>>

\* The socket is gone with its last number, unless accept() still holds it.
CloseListener ==
    /\ owner = "close" /\ owner' = "join"
    /\ Closes(listenSocket)
    /\ listenSocket' = NoSocket
    /\ listening' = IF acceptor = "blocked" THEN listening ELSE "gone"
    /\ UNCHANGED <<running, outcome, starts, accepting, workers>>

\* Mutant of Join: acceptThread is not joined.
NoJoin ==
    /\ owner = "join" /\ owner' = "idle"
    /\ UNCHANGED <<table, listening, members, accepting, workers>>

\* acceptThread is joinable from its start to its join.
Join ==
    /\ owner = "join" /\ acceptor \in {"none", "ended"}
    /\ owner' = "idle" /\ acceptor' = "none"
    /\ UNCHANGED <<table, listening, members, acceptSocket, workers>>

\* main returns after stop(): the process destroys its static objects, and
\* its threads and sockets are gone.
Exit ==
    /\ owner = "idle" /\ ~running /\ starts > 0
    /\ owner' = "exited"
    /\ table' = [d \in Descriptors |-> "free"] /\ listening' = "gone"
    /\ worker' = [w \in Workers |-> "gone"]
    /\ clientSocket' = [w \in Workers |-> NoSocket]
    /\ UNCHANGED <<members, accepting>>

------------------------------------------------------------------------------
(* acceptLoop() *)

CheckRunning ==
    /\ acceptor = "check"
    /\ acceptor' = IF running THEN "load" ELSE "ended"
    /\ UNCHANGED <<table, listening, members, owner, acceptSocket, workers>>

\* listenSocket is read without synchronisation, before the call.
LoadSocket ==
    /\ acceptor = "load" /\ acceptor' = "enter"
    /\ acceptSocket' = listenSocket
    /\ UNCHANGED <<table, listening, members, owner, workers>>

\* accept() fails at once on a number that is not the listening socket, on one
\* that was shut down, and when there is no number for a client.
EnterAccept ==
    /\ acceptor = "enter"
    /\ acceptor' = IF /\ acceptSocket \in Descriptors /\ table[acceptSocket] = "listener"
                      /\ listening = "open" /\ Unused # {}
                   THEN "blocked" ELSE "check"
    /\ UNCHANGED <<table, listening, members, owner, acceptSocket, workers>>

\* A client connects: its worker is started and detached.
AcceptClient(w) ==
    /\ acceptor = "blocked" /\ listening = "open"
    /\ worker[w] = "gone"
    /\ \E d \in Descriptors :
        /\ Opens(d, "client")
        /\ clientSocket' = [clientSocket EXCEPT ![w] = d]
    /\ worker' = [worker EXCEPT ![w] = "recv"]
    /\ acceptor' = "check"
    /\ UNCHANGED <<listening, members, owner, acceptSocket>>

\* shutdown() wakes the thread.
AcceptFails ==
    /\ acceptor = "blocked" /\ listening # "open"
    /\ acceptor' = "check"
    /\ UNCHANGED <<table, listening, members, owner, acceptSocket, workers>>

------------------------------------------------------------------------------
(* handleClient() *)

\* A command arrives; to answer it the worker uses the database connection.
Receive(w) ==
    /\ worker[w] = "recv"
    /\ worker' = [worker EXCEPT ![w] = "query"]
    /\ UNCHANGED <<table, listening, members, owner, accepting, clientSocket>>

Respond(w) ==
    /\ worker[w] = "query"
    /\ worker' = [worker EXCEPT ![w] = "recv"]
    /\ UNCHANGED <<table, listening, members, owner, accepting, clientSocket>>

\* Mutant of HangUp: the socket is closed here and again after the loop.
HangUpCloses(w) ==
    /\ worker[w] = "recv"
    /\ worker' = [worker EXCEPT ![w] = "close"]
    /\ Closes(clientSocket[w])
    /\ UNCHANGED <<listening, members, owner, accepting, clientSocket>>

\* recv() returns 0 or an error, which ends the loop.
HangUp(w) ==
    /\ worker[w] = "recv"
    /\ worker' = [worker EXCEPT ![w] = "close"]
    /\ UNCHANGED <<table, listening, members, owner, accepting, clientSocket>>

CloseClient(w) ==
    /\ worker[w] = "close"
    /\ Closes(clientSocket[w])
    /\ worker' = [worker EXCEPT ![w] = "gone"]
    /\ clientSocket' = [clientSocket EXCEPT ![w] = NoSocket]
    /\ UNCHANGED <<listening, members, owner, accepting>>

------------------------------------------------------------------------------
(* Other code of the process. *)

OpenOther ==
    /\ owner # "exited"
    /\ \E d \in Descriptors : Opens(d, "other")
    /\ UNCHANGED <<listening, members, owner, accepting, workers>>

CloseOther ==
    /\ \E d \in Descriptors : table[d] = "other" /\ Closes(d)
    /\ UNCHANGED <<listening, members, owner, accepting, workers>>

------------------------------------------------------------------------------
OwnerStep == BindAndListen \/ SpawnAcceptor \/ Shutdown \/ CloseListener \/ Join
AcceptStep == CheckRunning \/ LoadSocket \/ EnterAccept \/ AcceptFails

Next ==
    \/ StartAgain \/ Start \/ Stop \/ Exit \/ OwnerStep
    \/ AcceptStep
    \/ \E w \in Workers :
           AcceptClient(w) \/ Receive(w) \/ Respond(w) \/ HangUp(w) \/ CloseClient(w)
    \/ OpenOther \/ CloseOther

\* The two threads of the server run; nothing is assumed of clients.
Fairness == WF_vars(OwnerStep) /\ WF_vars(AcceptStep)

Spec == Init /\ [][Next]_vars /\ Fairness

------------------------------------------------------------------------------
(* Properties. *)

Stopping == {"shutdown", "close", "join"}

\* Types of the variables.
TypeOK ==
    /\ table \in [Descriptors -> {"free", "listener", "client", "other"}]
    /\ listening \in {"open", "shut", "gone"}
    /\ listenSocket \in Descriptors \cup {NoSocket}
    /\ running \in BOOLEAN
    /\ owner \in {"idle", "bind", "spawn", "exited"} \cup Stopping
    /\ outcome \in {"none", "ok", "threw"} /\ starts \in Nat
    /\ acceptor \in {"none", "check", "load", "enter", "blocked", "ended"}
    /\ acceptSocket \in Descriptors \cup {NoSocket}
    /\ worker \in [Workers -> {"gone", "recv", "query", "close"}]
    /\ clientSocket \in [Workers -> Descriptors \cup {NoSocket}]

\* Each worker has a socket of its own, which is open until that worker closes
\* it: no stop(), failed start() or other worker closes it first.
WorkersOwnTheirSockets ==
    \A w \in Workers : worker[w] # "gone" =>
        /\ clientSocket[w] \in Descriptors /\ table[clientSocket[w]] = "client"
        /\ \A x \in Workers \ {w} : worker[x] # "gone" => clientSocket[x] # clientSocket[w]

\* The listening socket is never leaked: the member holds its number.
ListenerIsKept == \A d \in Descriptors : table[d] = "listener" => listenSocket = d

\* After stop() the port is free and no thread accepts: start() may follow.
StoppedIsQuiet ==
    owner \in {"idle", "exited"} /\ ~running =>
        /\ acceptor = "none" /\ listenSocket = NoSocket
        /\ \A d \in Descriptors : table[d] # "listener"

\* While the accept loop runs and nobody stops it, its socket is the open
\* listening socket, whatever else the process opens and closes.
AcceptsTheListener ==
    acceptor # "none" /\ owner \notin Stopping =>
        /\ running /\ acceptor # "ended" /\ listening = "open"
        /\ listenSocket \in Descriptors /\ table[listenSocket] = "listener"
        /\ acceptor \in {"enter", "blocked"} => acceptSocket = listenSocket

\* What holds at the steps of start() and stop(); a failed start leaves a number
\* in listenSocket that others may get, but never a client.
StepFacts ==
    /\ owner \in {"bind", "spawn"} =>
           /\ running /\ acceptor = "none"
           /\ listenSocket \in Descriptors /\ table[listenSocket] = "listener"
    /\ owner = "spawn" => listening = "open"
    /\ owner \in Stopping => ~running
    /\ owner \in {"shutdown", "close"} =>
           /\ listenSocket \in Descriptors
           /\ acceptor # "none" => table[listenSocket] = "listener"
    /\ owner = "join" => listenSocket = NoSocket
    /\ listenSocket \in Descriptors => table[listenSocket] # "client"

\* The inductive invariant behind the four properties above.
LifecycleInv ==
    /\ TypeOK /\ StepFacts /\ WorkersOwnTheirSockets /\ ListenerIsKept
    /\ StoppedIsQuiet /\ AcceptsTheListener

\* stop() returns, although accept() blocks and clients stay connected.
StopReturns == owner \in Stopping ~> owner = "idle"

\* server.hpp:52: start() creates the listening socket or throws.
StartedMeansListening ==
    owner = "idle" /\ outcome = "ok" => listening = "open" /\ acceptor # "none"

\* server.hpp:60: stop() cleans resources; main.cpp:67 calls the server stopped
\* cleanly and returns, which destroys the database connection.
ExitFindsNoQuery ==
    [][owner # "exited" /\ owner' = "exited" => \A w \in Workers : worker[w] # "query"]_vars
==============================================================================
