-------------------------------- MODULE HttpDemo --------------------------------
(***************************************************************************)
(* The HTTP demo (server/demo/server.cpp): one thread accepts a client,    *)
(* receives once, sends a fixed page in a loop, closes and accepts the     *)
(* next.  Clients write a request in one or more segments, read the page   *)
(* in pieces, and leave when they like (demoCLI.py after five seconds).    *)
(* A connection is reset when an end is closed that was not read empty or  *)
(* is written to afterwards; what was on its way is then lost.             *)
(***************************************************************************)
EXTENDS Integers, Sequences

CONSTANTS Clients,
          NoClient,
          Segments,      \* bound: segments a client writes
          SegmentParts,  \* bound: the size of a segment
          BufferParts,   \* how much one recv() can take: 4095 bytes
          PageParts,     \* the size of the response
          Window,        \* how much of it may be on its way
          Backlog        \* the argument of listen()

ASSUME HttpAssumption ==
    /\ NoClient \notin Clients
    /\ {Segments, SegmentParts, BufferParts, PageParts, Window} \subseteq Nat \ {0}

VARIABLES at,        \* where run() is: an init() call, accept, recv, send, close, exit
          serverfd,  \* the listening socket: open, or closed
          clientfd,  \* whose socket handleClient has, or NoClient
          backlog,   \* the connections that wait for accept()
          socket,    \* socket[c]: the server's end: none, queued, open, closed
          peer,      \* peer[c]: the client's end: away, here, left
          reset,     \* the clients whose connection was reset
          segments,  \* segments[c]: how many segments c wrote
          written,   \* written[c]: their size
          inbox,     \* inbox[c]: what of it the server has not received
          sent,      \* sent[c]: how much of the page send() took
          got        \* got[c]: how much of it c has read

connections == <<backlog, socket, peer, reset, segments, written, inbox, sent, got>>
httpVars == <<at, serverfd, clientfd, connections>>

HttpInit ==
    /\ at = "socket" /\ serverfd = "closed" /\ clientfd = NoClient /\ backlog = <<>>
    /\ socket = [c \in Clients |-> "none"] /\ peer = [c \in Clients |-> "away"]
    /\ reset = {}
    /\ segments = [c \in Clients |-> 0]
    /\ written = [c \in Clients |-> 0] /\ inbox = [c \in Clients |-> 0]
    /\ sent = [c \in Clients |-> 0] /\ got = [c \in Clients |-> 0]

------------------------------------------------------------------------------
(* init(): each call succeeds, or the socket is closed and run() returns 1. *)

Setup(call, next) ==
    /\ at = call
    /\ \/ at' = next /\ serverfd' = "open"
       \/ at' = "exit" /\ serverfd' = "closed"
    /\ UNCHANGED <<clientfd, connections>>

OpenSocket == Setup("socket", "setsockopt")
SetOption == Setup("setsockopt", "bind")
Bind == Setup("bind", "listen")
Listen == Setup("listen", "accept")

------------------------------------------------------------------------------
(* run() and handleClient() *)

\* A failing accept() is tried again.
Accept ==
    /\ at = "accept" /\ backlog # <<>>
    /\ clientfd' = Head(backlog) /\ backlog' = Tail(backlog)
    /\ socket' = [socket EXCEPT ![Head(backlog)] = "open"]
    /\ at' = "recv"
    /\ UNCHANGED <<serverfd, peer, reset, segments, written, inbox, sent, got>>

Least(a, b) == IF a < b THEN a ELSE b

\* Mutant of Receive: the request is not read.
ReceiveNothing ==
    /\ at = "recv" /\ at' = "send"
    /\ UNCHANGED <<serverfd, clientfd, connections>>

\* recv() takes what has arrived and fits the buffer, 0 when the client left, or fails.
Receive ==
    /\ at = "recv"
    /\ \/ /\ inbox[clientfd] > 0
          /\ inbox' = [inbox EXCEPT ![clientfd] = @ - Least(@, BufferParts)]
          /\ at' = "send"
       \/ /\ inbox[clientfd] = 0 /\ peer[clientfd] = "left"
          /\ at' = "send" /\ UNCHANGED inbox
       \/ /\ peer[clientfd] = "left"
          /\ at' = "close" /\ UNCHANGED inbox
    /\ UNCHANGED <<serverfd, clientfd, backlog, socket, peer, reset, segments, written, sent, got>>

\* Mutant of SendError: the loop goes on.
SendErrorIgnored == at' = "send"

\* send() fails and the loop is left, or SIGPIPE ends the process.
SendError == at' \in {"close", "exit"}

\* Mutant of AfterSend: there is no loop.
AfterOneSend(total) == "close"

AfterSend(total) == IF total = PageParts THEN "close" ELSE "send"

\* send() takes a part of the page; to a client that left it takes it once and
\* the connection is reset.
Send ==
    /\ at = "send"
    /\ \/ /\ clientfd \notin reset
          /\ \E n \in 1 .. PageParts - sent[clientfd] :
                 /\ peer[clientfd] = "here" => sent[clientfd] + n <= got[clientfd] + Window
                 /\ sent' = [sent EXCEPT ![clientfd] = @ + n]
                 /\ at' = AfterSend(sent[clientfd] + n)
          /\ reset' = reset \cup {c \in {clientfd} : peer[c] = "left"}
       \/ /\ clientfd \in reset /\ SendError
          /\ UNCHANGED <<reset, sent>>
    /\ UNCHANGED <<serverfd, clientfd, backlog, socket, peer, segments, written, inbox, got>>

\* Mutant of Close: the socket stays open.
CloseForgotten ==
    /\ at = "close" /\ at' = "accept" /\ clientfd' = NoClient
    /\ UNCHANGED <<serverfd, connections>>

\* close(): what the client wrote and nobody received resets the connection.
Close ==
    /\ at = "close" /\ at' = "accept" /\ clientfd' = NoClient
    /\ socket' = [socket EXCEPT ![clientfd] = "closed"]
    /\ reset' = reset \cup {c \in {clientfd} : inbox[c] > 0}
    /\ UNCHANGED <<serverfd, backlog, peer, segments, written, inbox, sent, got>>

------------------------------------------------------------------------------
(* Clients and TCP *)

Listening == at \in {"accept", "recv", "send", "close"}

Arrive(c) ==
    /\ Listening /\ peer[c] = "away" /\ Len(backlog) < Backlog
    /\ peer' = [peer EXCEPT ![c] = "here"]
    /\ socket' = [socket EXCEPT ![c] = "queued"]
    /\ backlog' = Append(backlog, c)
    /\ UNCHANGED <<at, serverfd, clientfd, reset, segments, written, inbox, sent, got>>

\* A segment of n parts arrives, or finds the socket closed.
Write(c, n) ==
    /\ peer[c] = "here" /\ c \notin reset /\ segments[c] < Segments /\ at # "exit"
    /\ segments' = [segments EXCEPT ![c] = @ + 1]
    /\ written' = [written EXCEPT ![c] = @ + n]
    /\ IF socket[c] = "closed"
       THEN reset' = reset \cup {c} /\ UNCHANGED inbox
       ELSE inbox' = [inbox EXCEPT ![c] = @ + n] /\ UNCHANGED reset
    /\ UNCHANGED <<at, serverfd, clientfd, backlog, socket, peer, sent, got>>

Read(c) ==
    /\ peer[c] = "here" /\ c \notin reset /\ got[c] < sent[c]
    /\ got' = [got EXCEPT ![c] = @ + 1]
    /\ UNCHANGED <<at, serverfd, clientfd, backlog, socket, peer, reset, segments, written, inbox, sent>>

Leave(c) ==
    /\ peer[c] = "here" /\ peer' = [peer EXCEPT ![c] = "left"]
    /\ reset' = reset \cup {x \in {c} : got[x] < sent[x]}
    /\ UNCHANGED <<at, serverfd, clientfd, backlog, socket, segments, written, inbox, sent, got>>

------------------------------------------------------------------------------
ServerStep ==
    \/ OpenSocket \/ SetOption \/ Bind \/ Listen
    \/ Accept \/ Receive \/ Send \/ Close

HttpNext ==
    \/ ServerStep
    \/ \E c \in Clients : Arrive(c) \/ Read(c) \/ Leave(c)
    \/ \E c \in Clients, n \in 1 .. SegmentParts : Write(c, n)

\* The server's thread runs; a client waits five seconds and leaves
\* (demoCLI.py:16).
HttpFairness == WF_httpVars(ServerStep) /\ \A c \in Clients : WF_httpVars(Leave(c))

HttpSpec == HttpInit /\ [][HttpNext]_httpVars /\ HttpFairness

------------------------------------------------------------------------------
(* Properties. *)

\* handleClient() loses no descriptor on any of its ways out: the only open
\* socket of a client is the one being handled.
SocketsAreClosed ==
    \A c \in Clients : socket[c] = "open" => clientfd = c

\* A client whose connection ended in order was sent the whole page, in however
\* many pieces.
WholePage ==
    \A c \in Clients :
        socket[c] = "closed" /\ peer[c] = "here" /\ c \notin reset => sent[c] = PageParts

\* The request is one segment and fits the buffer, so that one recv() takes it.
OneRead(c) == segments[c] <= 1 /\ written[c] <= BufferParts

\* Nobody who stays is reset, if one recv() takes the request.  A client with a
\* longer request, or one in two segments, may lose the page it was sent.
OneReadIsSafe ==
    \A c \in Clients : peer[c] = "here" /\ c \in reset => ~OneRead(c)

\* The inductive invariant, with the types.
HttpTypeOK ==
    /\ at \in {"socket", "setsockopt", "bind", "listen", "accept", "recv", "send", "close", "exit"}
    /\ serverfd \in {"open", "closed"} /\ clientfd \in Clients \cup {NoClient}
    /\ backlog \in Seq(Clients)
    /\ socket \in [Clients -> {"none", "queued", "open", "closed"}]
    /\ peer \in [Clients -> {"away", "here", "left"}]
    /\ reset \subseteq Clients
    /\ segments \in [Clients -> 0 .. Segments]
    /\ written \in [Clients -> Nat] /\ inbox \in [Clients -> Nat]
    /\ sent \in [Clients -> 0 .. PageParts] /\ got \in [Clients -> 0 .. PageParts]

ConnectionInv(c) ==
    /\ inbox[c] <= written[c] /\ got[c] <= sent[c]
    /\ segments[c] = 0 => written[c] = 0
    /\ clientfd = c <=> socket[c] = "open"
    /\ socket[c] = "none" <=> peer[c] = "away"
    /\ socket[c] \in {"none", "queued"} => c \notin reset /\ sent[c] = 0
    /\ peer[c] = "here" /\ c \in reset => ~OneRead(c) /\ socket[c] = "closed"
    /\ clientfd = c /\ at = "recv" => c \notin reset /\ sent[c] = 0
    /\ clientfd = c /\ at = "send" => sent[c] < PageParts
    /\ clientfd = c /\ at \in {"send", "close"} /\ peer[c] = "here" =>
           segments[c] > 0 /\ (OneRead(c) => inbox[c] = 0)
    /\ clientfd = c /\ at = "close" /\ peer[c] = "here" => sent[c] = PageParts
    /\ socket[c] = "closed" /\ peer[c] = "here" =>
           segments[c] > 0 /\ (c \notin reset => sent[c] = PageParts)

HttpInv ==
    /\ HttpTypeOK
    /\ at \in {"recv", "send", "close"} => clientfd # NoClient
    /\ at \in {"socket", "setsockopt", "bind", "listen", "accept"} => clientfd = NoClient
    /\ \A n \in 1 .. Len(backlog) : socket[backlog[n]] = "queued"
    /\ \A n, m \in 1 .. Len(backlog) : backlog[n] = backlog[m] => n = m
    /\ \A c \in Clients : ConnectionInv(c)

\* Clients are served one after the other, and each one gets its turn.
EveryoneIsServed ==
    \A c \in Clients : socket[c] = "queued" ~> socket[c] = "closed" \/ at = "exit"
==============================================================================
