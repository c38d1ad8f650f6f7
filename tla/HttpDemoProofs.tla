---------------------------- MODULE HttpDemoProofs ----------------------------
(***************************************************************************)
(* Proofs about HttpDemo, for any clients and any sizes of segments,       *)
(* buffers, pages and windows.  Each step changes one connection;          *)
(* Untouched says when the facts about the others survive.                 *)
(***************************************************************************)
EXTENDS HttpDemo, TLAPS

LEMMA Bounds ==
    /\ Segments \in Nat /\ Segments > 0 /\ SegmentParts \in Nat /\ BufferParts \in Nat /\ BufferParts > 0
    /\ PageParts \in Nat /\ PageParts > 0 /\ Window \in Nat /\ NoClient \notin Clients
BY HttpAssumption

LEMMA HttpInitInv == HttpInit => HttpInv
<1> SUFFICES ASSUME HttpInit PROVE HttpInv
  OBVIOUS
<1>1. HttpTypeOK
  <2>1. backlog \in Seq(Clients)
    BY DEF HttpInit
  <2>2. /\ socket \in [Clients -> {"none", "queued", "open", "closed"}]
        /\ peer \in [Clients -> {"away", "here", "left"}]
    BY DEF HttpInit
  <2>3. /\ segments \in [Clients -> 0 .. Segments]
        /\ written \in [Clients -> Nat] /\ inbox \in [Clients -> Nat]
        /\ sent \in [Clients -> 0 .. PageParts] /\ got \in [Clients -> 0 .. PageParts]
    BY Bounds DEF HttpInit
  <2> QED BY <2>1, <2>2, <2>3 DEF HttpInit, HttpTypeOK
<1>2. ASSUME NEW c \in Clients PROVE ConnectionInv(c)
  BY Bounds DEF HttpInit, ConnectionInv, OneRead
<1> QED BY <1>1, <1>2 DEF HttpInit, HttpInv

LEMMA Untouched ==
    ASSUME NEW c \in Clients, ConnectionInv(c),
           clientfd' = c <=> clientfd = c, clientfd = c => at' = at,
           socket'[c] = socket[c], peer'[c] = peer[c], c \in reset' <=> c \in reset,
           segments'[c] = segments[c], written'[c] = written[c], inbox'[c] = inbox[c], sent'[c] = sent[c], got'[c] = got[c]
    PROVE  ConnectionInv(c)'
BY DEF ConnectionInv, OneRead

LEMMA SetupInv ==
    ASSUME HttpInv, OpenSocket \/ SetOption \/ Bind \/ Listen PROVE HttpInv'
<1> USE DEF OpenSocket, SetOption, Bind, Listen, Setup, connections
<1>1. HttpTypeOK'
  BY DEF HttpInv, HttpTypeOK
<1>2. ASSUME NEW c \in Clients PROVE ConnectionInv(c)'
  BY Bounds, Untouched DEF HttpInv
<1> QED BY <1>1, <1>2 DEF HttpInv

LEMMA AcceptInv == ASSUME HttpInv, Accept PROVE HttpInv'
<1> PICK c \in Clients : c = Head(backlog)
  BY DEF HttpInv, HttpTypeOK, Accept
<1>1. /\ backlog \in Seq(Clients) /\ backlog # <<>> /\ c = backlog[1]
      /\ socket[c] = "queued" /\ clientfd = NoClient
      /\ backlog' = Tail(backlog) /\ backlog' \in Seq(Clients)
      /\ Len(backlog') = Len(backlog) - 1
      /\ \A n \in 1 .. Len(backlog') : backlog'[n] = backlog[n + 1]
  BY DEF HttpInv, HttpTypeOK, Accept
<1>2. HttpTypeOK'
  <2>1. socket' \in [Clients -> {"none", "queued", "open", "closed"}]
    BY <1>1 DEF HttpInv, HttpTypeOK, Accept
  <2> QED BY <1>1, <2>1 DEF HttpInv, HttpTypeOK, Accept
<1>3. ASSUME NEW n \in 1 .. Len(backlog') PROVE socket'[backlog'[n]] = "queued"
  <2>1. n + 1 \in 1 .. Len(backlog) /\ 1 \in 1 .. Len(backlog) /\ backlog'[n] = backlog[n + 1]
    BY <1>1
  <2>2. backlog[n + 1] \in Clients /\ socket[backlog[n + 1]] = "queued" /\ backlog[n + 1] # c
    <3>1. n + 1 # 1
      OBVIOUS
    <3> QED BY <1>1, <2>1, <3>1 DEF HttpInv
  <2>3. socket' = [socket EXCEPT ![c] = "open"] /\ socket \in [Clients -> {"none", "queued", "open", "closed"}]
    BY <1>1 DEF HttpInv, HttpTypeOK, Accept
  <2> QED BY <2>1, <2>2, <2>3
<1>4. \A n, m \in 1 .. Len(backlog') : backlog'[n] = backlog'[m] => n = m
  BY <1>1 DEF HttpInv
<1>5. ConnectionInv(c)'
  <2>1. /\ clientfd' = c /\ socket'[c] = "open" /\ at' = "recv"
        /\ UNCHANGED <<peer, reset, segments, written, inbox, sent, got>>
    BY <1>1 DEF HttpInv, HttpTypeOK, Accept
  <2>2. ConnectionInv(c)
    BY <1>1 DEF HttpInv
  <2> QED BY <1>1, <2>1, <2>2 DEF ConnectionInv
<1>6. ASSUME NEW d \in Clients, d # c PROVE ConnectionInv(d)'
  BY <1>1, <1>6, Bounds, Untouched DEF HttpInv, HttpTypeOK, Accept
<1>7. clientfd' # NoClient /\ at' = "recv"
  BY <1>1, Bounds DEF Accept
<1> QED BY <1>2, <1>3, <1>4, <1>5, <1>6, <1>7 DEF HttpInv

\* The steps of handleClient() on the socket it has.
LEMMA HandleInv == ASSUME HttpInv, Receive \/ Send \/ Close PROVE HttpInv'
<1>1. /\ clientfd \in Clients /\ socket[clientfd] = "open" /\ UNCHANGED backlog
      /\ at \in {"recv", "send", "close"}
  BY DEF HttpInv, HttpTypeOK, ConnectionInv, Receive, Send, Close
<1>2. HttpTypeOK'
  <2>1. CASE Receive
    <3>1. inbox' \in [Clients -> Nat]
      BY <1>1, <2>1, Bounds DEF HttpInv, HttpTypeOK, Receive, Least
    <3> QED BY <2>1, <3>1 DEF HttpInv, HttpTypeOK, Receive
  <2>2. CASE Send
    <3>1. sent' \in [Clients -> 0 .. PageParts]
      <4>1. CASE clientfd \in reset
        BY <2>2, <4>1 DEF HttpInv, HttpTypeOK, Send
      <4>2. CASE clientfd \notin reset
        <5> PICK n \in 1 .. PageParts - sent[clientfd] : sent' = [sent EXCEPT ![clientfd] = @ + n]
          BY <2>2, <4>2 DEF Send
        <5>1. sent[clientfd] \in 0 .. PageParts
          BY <1>1 DEF HttpInv, HttpTypeOK
        <5>2. sent[clientfd] + n \in 0 .. PageParts
          BY <5>1, Bounds
        <5> QED BY <5>2 DEF HttpInv, HttpTypeOK
      <4> QED BY <4>1, <4>2
    <3>2. at' \in {"send", "close", "exit"}
      BY <2>2 DEF Send, AfterSend, SendError
    <3> QED BY <2>2, <1>1, <3>1, <3>2 DEF HttpInv, HttpTypeOK, Send
  <2>3. CASE Close
    BY <1>1, <2>3 DEF HttpInv, HttpTypeOK, Close
  <2> QED BY <2>1, <2>2, <2>3
<1>3. ConnectionInv(clientfd)
  BY <1>1 DEF HttpInv
<1>4. ASSUME NEW d \in Clients, d = clientfd PROVE ConnectionInv(d)'
  <2>1. CASE Receive
    <3>1. /\ clientfd = d /\ clientfd' = d /\ at = "recv" /\ socket[d] = "open" /\ ConnectionInv(d)
          /\ UNCHANGED <<socket, peer, reset, segments, written, sent, got>>
          /\ segments[d] \in Nat /\ written[d] \in Nat /\ inbox[d] \in Nat
          /\ sent[d] \in Nat /\ got[d] \in Nat
      BY <1>1, <1>3, <1>4, <2>1 DEF HttpInv, HttpTypeOK, Receive
    <3>2. CASE inbox[d] > 0 /\ at' = "send" /\ inbox'[d] = inbox[d] - Least(inbox[d], BufferParts)
      <4>1. /\ inbox'[d] \in Nat /\ inbox'[d] <= inbox[d]
            /\ inbox[d] <= BufferParts => inbox'[d] = 0
        BY <3>1, <3>2, Bounds DEF Least
      <4>2. segments[d] > 0
        BY <3>1, <3>2 DEF ConnectionInv
      <4> QED BY <3>1, <3>2, <4>1, <4>2, Bounds DEF ConnectionInv, OneRead
    <3>3. CASE peer[d] = "left" /\ at' \in {"send", "close"} /\ inbox' = inbox
      BY <3>1, <3>3, Bounds DEF ConnectionInv, OneRead
    <3> QED BY <1>1, <2>1, <3>1, <3>2, <3>3 DEF HttpInv, HttpTypeOK, Receive
  <2>2. CASE Send
    <3>1. /\ sent[d] \in 0 .. PageParts /\ got[d] \in 0 .. PageParts /\ socket[d] = "open"
          /\ at = "send" /\ UNCHANGED <<clientfd, socket, peer, segments, written, inbox, got>>
          /\ peer[d] # "away" /\ ConnectionInv(d) /\ clientfd = d
      BY <1>1, <1>3, <1>4, <2>2 DEF HttpInv, HttpTypeOK, ConnectionInv, Send
    <3>2. CASE d \in reset
      <4>1. peer[d] # "here" /\ at' \in {"close", "exit"} /\ UNCHANGED <<reset, sent>>
        BY <1>4, <2>2, <3>1, <3>2 DEF ConnectionInv, Send, SendError
      <4> QED BY <3>1, <4>1 DEF ConnectionInv, OneRead
    <3>3. CASE d \notin reset
      <4> PICK n \in 1 .. PageParts - sent[d] :
              /\ sent' = [sent EXCEPT ![d] = @ + n] /\ at' = AfterSend(sent[d] + n)
              /\ (d \in reset') <=> peer[d] = "left"
        BY <1>4, <2>2, <3>3 DEF Send
      <4>1. sent'[d] = sent[d] + n
        BY <1>1, <1>4 DEF HttpInv, HttpTypeOK
      <4>2. /\ sent'[d] \in 0 .. PageParts /\ sent'[d] >= sent[d]
            /\ at' = "close" => sent'[d] = PageParts
            /\ at' = "send" => sent'[d] < PageParts
            /\ at' \in {"send", "close"}
        BY <3>1, <4>1, Bounds DEF AfterSend
      <4> QED BY <3>1, <3>3, <4>2, Bounds DEF ConnectionInv, OneRead
    <3> QED BY <3>2, <3>3
  <2>3. CASE Close
    <3>1. /\ clientfd' = NoClient /\ socket'[d] = "closed" /\ at = "close"
          /\ (d \in reset') <=> (d \in reset \/ inbox[d] > 0)
          /\ UNCHANGED <<peer, segments, written, inbox, sent, got>>
      BY <1>1, <1>4, <2>3 DEF HttpInv, HttpTypeOK, Close
    <3> QED BY <1>1, <1>3, <1>4, <3>1, Bounds DEF HttpInv, HttpTypeOK, ConnectionInv, OneRead
  <2> QED BY <2>1, <2>2, <2>3
<1>5. ASSUME NEW d \in Clients, d # clientfd PROVE ConnectionInv(d)'
  BY <1>1, <1>5, Bounds, Untouched DEF HttpInv, HttpTypeOK, Receive, Send, Close
<1>6. ASSUME NEW n \in 1 .. Len(backlog') PROVE socket'[backlog'[n]] = "queued"
  <2>1. backlog' = backlog
    BY DEF Receive, Send, Close
  <2>2. backlog[n] \in Clients /\ socket[backlog[n]] = "queued"
    <3>1. backlog \in Seq(Clients) /\ n \in 1 .. Len(backlog)
      BY <2>1 DEF HttpInv, HttpTypeOK
    <3> QED BY <3>1 DEF HttpInv
  <2>3. socket[clientfd] = "open"
    BY <1>1, <1>3 DEF ConnectionInv
  <2>4. socket' = socket \/ socket' = [socket EXCEPT ![clientfd] = "closed"]
    BY DEF Receive, Send, Close
  <2>5. socket \in [Clients -> {"none", "queued", "open", "closed"}]
    BY DEF HttpInv, HttpTypeOK
  <2> QED BY <2>1, <2>2, <2>3, <2>4, <2>5
<1>7. /\ at' \in {"recv", "send", "close"} => clientfd' # NoClient
      /\ at' \in {"socket", "setsockopt", "bind", "listen", "accept"} => clientfd' = NoClient
  BY <1>1, Bounds DEF Receive, Send, Close, AfterSend, SendError
<1>8. backlog' = backlog
  BY DEF Receive, Send, Close
<1> QED BY <1>1, <1>2, <1>4, <1>5, <1>6, <1>7, <1>8 DEF HttpInv

LEMMA ArriveInv == ASSUME HttpInv, NEW c \in Clients, Arrive(c) PROVE HttpInv'
<1>1. /\ backlog \in Seq(Clients) /\ backlog' = Append(backlog, c) /\ backlog' \in Seq(Clients)
      /\ Len(backlog') = Len(backlog) + 1 /\ backlog'[Len(backlog) + 1] = c
      /\ \A n \in 1 .. Len(backlog) : backlog'[n] = backlog[n]
  BY DEF HttpInv, HttpTypeOK, Arrive
<1>2. /\ socket[c] = "none" /\ clientfd # c /\ socket'[c] = "queued" /\ peer'[c] = "here"
      /\ UNCHANGED <<at, serverfd, clientfd, reset, segments, written, inbox, sent, got>>
      /\ \A d \in Clients \ {c} : socket'[d] = socket[d] /\ peer'[d] = peer[d]
  BY DEF HttpInv, HttpTypeOK, ConnectionInv, Arrive
<1>3. HttpTypeOK'
  BY <1>1 DEF HttpInv, HttpTypeOK, Arrive
<1>4. ConnectionInv(c)'
  BY <1>2 DEF HttpInv, ConnectionInv
<1>5. ASSUME NEW d \in Clients, d # c PROVE ConnectionInv(d)'
  BY <1>2, <1>5, Untouched DEF HttpInv
<1>6. \A n \in 1 .. Len(backlog) : backlog[n] # c /\ backlog[n] \in Clients
  BY <1>1, <1>2 DEF HttpInv
<1>7. \A n \in 1 .. Len(backlog') : socket'[backlog'[n]] = "queued"
  BY <1>1, <1>2, <1>6 DEF HttpInv
<1>8. \A n, m \in 1 .. Len(backlog') : backlog'[n] = backlog'[m] => n = m
  BY <1>1, <1>6 DEF HttpInv
<1> QED BY <1>2, <1>3, <1>4, <1>5, <1>7, <1>8 DEF HttpInv

LEMMA ClientInv ==
    ASSUME HttpInv, NEW c \in Clients,
           (\E n \in 1 .. SegmentParts : Write(c, n)) \/ Read(c) \/ Leave(c)
    PROVE  HttpInv'
<1>1. HttpTypeOK'
  <2>1. ASSUME NEW n \in 1 .. SegmentParts, Write(c, n) PROVE HttpTypeOK'
    <3>1. /\ written[c] + n \in Nat /\ inbox[c] + n \in Nat /\ segments[c] + 1 \in 0 .. Segments
      BY <2>1, Bounds DEF HttpInv, HttpTypeOK, Write
    <3>2. /\ segments' \in [Clients -> 0 .. Segments]
          /\ written' \in [Clients -> Nat] /\ inbox' \in [Clients -> Nat]
      BY <2>1, <3>1 DEF HttpInv, HttpTypeOK, Write
    <3> QED BY <2>1, <3>2 DEF HttpInv, HttpTypeOK, Write
  <2>2. CASE Read(c)
    <3>1. got[c] + 1 \in 0 .. PageParts
      <4>1. got[c] \in 0 .. PageParts /\ sent[c] \in 0 .. PageParts /\ got[c] < sent[c]
        BY <2>2 DEF HttpInv, HttpTypeOK, Read
      <4> QED BY <4>1, Bounds
    <3>2. got' \in [Clients -> 0 .. PageParts]
      BY <2>2, <3>1 DEF HttpInv, HttpTypeOK, Read
    <3> QED BY <2>2, <3>2 DEF HttpInv, HttpTypeOK, Read
  <2>3. CASE Leave(c)
    BY <2>3 DEF HttpInv, HttpTypeOK, Leave
  <2> QED BY <2>1, <2>2, <2>3
<1>2. ConnectionInv(c)'
  <2>1. /\ ConnectionInv(c) /\ segments[c] \in Nat /\ written[c] \in Nat /\ inbox[c] \in Nat
        /\ sent[c] \in Nat /\ got[c] \in Nat
    BY Bounds DEF HttpInv, HttpTypeOK
  <2>2. ASSUME NEW n \in 1 .. SegmentParts, Write(c, n) PROVE ConnectionInv(c)'
    <3>1. /\ n \in Nat /\ n > 0 /\ peer[c] = "here" /\ c \notin reset
          /\ UNCHANGED <<at, clientfd, socket, peer, sent, got>>
          /\ segments'[c] = segments[c] + 1 /\ written'[c] = written[c] + n
      BY <2>2, Bounds DEF HttpInv, HttpTypeOK, Write
    <3>2. /\ OneRead(c)' => segments[c] = 0
          /\ OneRead(c)' => OneRead(c)
      BY <2>1, <3>1, Bounds DEF OneRead
    <3>3. CASE socket[c] = "closed"
      <4>1. inbox' = inbox /\ segments[c] > 0
        BY <2>1, <2>2, <3>1, <3>3 DEF ConnectionInv, Write
      <4> QED BY <2>1, <3>1, <3>2, <3>3, <4>1 DEF ConnectionInv
    <3>4. CASE socket[c] # "closed"
      <4>1. inbox'[c] = inbox[c] + n /\ reset' = reset
        BY <2>2, <3>4 DEF HttpInv, HttpTypeOK, Write
      <4> QED BY <2>1, <3>1, <3>2, <3>4, <4>1 DEF ConnectionInv
    <3> QED BY <3>3, <3>4
  <2>3. CASE Read(c)
    <3>1. /\ got'[c] = got[c] + 1 /\ got[c] < sent[c]
          /\ UNCHANGED <<at, clientfd, socket, peer, reset, segments, written, inbox, sent>>
      BY <2>3 DEF HttpInv, HttpTypeOK, Read
    <3> QED BY <2>1, <3>1 DEF ConnectionInv, OneRead
  <2>4. CASE Leave(c)
    <3>1. /\ peer[c] = "here" /\ peer'[c] = "left" /\ (c \in reset' => c \in reset \/ got[c] < sent[c])
          /\ UNCHANGED <<at, clientfd, socket, segments, written, inbox, sent, got>>
      BY <2>4 DEF HttpInv, HttpTypeOK, Leave
    <3> QED BY <2>1, <3>1 DEF ConnectionInv, OneRead
  <2> QED BY <2>2, <2>3, <2>4
<1>3. ASSUME NEW d \in Clients, d # c PROVE ConnectionInv(d)'
  <2>1. /\ UNCHANGED <<at, clientfd>> /\ socket'[d] = socket[d] /\ peer'[d] = peer[d]
        /\ d \in reset' <=> d \in reset
        /\ segments'[d] = segments[d] /\ written'[d] = written[d] /\ inbox'[d] = inbox[d]
        /\ sent'[d] = sent[d] /\ got'[d] = got[d]
    <3>1. CASE \E n \in 1 .. SegmentParts : Write(c, n)
      BY <1>3, <3>1 DEF HttpInv, HttpTypeOK, Write
    <3>2. CASE Read(c)
      BY <1>3, <3>2 DEF HttpInv, HttpTypeOK, Read
    <3>3. CASE Leave(c)
      BY <1>3, <3>3 DEF HttpInv, HttpTypeOK, Leave
    <3> QED BY <3>1, <3>2, <3>3
  <2> QED BY <2>1, Untouched DEF HttpInv
<1> QED BY <1>1, <1>2, <1>3 DEF HttpInv, Write, Read, Leave

LEMMA HttpNextInv == HttpInv /\ [HttpNext]_httpVars => HttpInv'
<1>1. ASSUME HttpInv, UNCHANGED httpVars PROVE HttpInv'
  BY <1>1 DEF HttpInv, HttpTypeOK, ConnectionInv, OneRead, httpVars, connections
<1> QED BY <1>1, SetupInv, AcceptInv, HandleInv, ArriveInv, ClientInv DEF HttpNext, ServerStep

\* The inductive invariant of the accept loop, the handler and TCP.
THEOREM HttpIsSafe == HttpSpec => []HttpInv
BY HttpInitInv, HttpNextInv, PTL DEF HttpSpec

\* handleClient() leaks no descriptor, on any of its ways out.
THEOREM SocketsNeverLeak == HttpSpec => []SocketsAreClosed
<1>1. HttpInv => SocketsAreClosed
  BY DEF HttpInv, ConnectionInv, SocketsAreClosed
<1> QED BY <1>1, HttpIsSafe, PTL

\* A client that stays and is not reset is sent the whole page.
THEOREM PageIsSentWhole == HttpSpec => []WholePage
<1>1. HttpInv => WholePage
  BY DEF HttpInv, ConnectionInv, WholePage
<1> QED BY <1>1, HttpIsSafe, PTL

\* A request that one recv() can take is never answered by a reset.
THEOREM OneReadNeverReset == HttpSpec => []OneReadIsSafe
<1>1. HttpInv => OneReadIsSafe
  BY DEF HttpInv, ConnectionInv, OneReadIsSafe
<1> QED BY <1>1, HttpIsSafe, PTL
==============================================================================
