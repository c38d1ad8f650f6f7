------------------------- MODULE CommandStreamProofs -------------------------
(***************************************************************************)
(* Theorems about CommandStream: its types, and that a polite client reads *)
(* the answer to each of its lines.                                        *)
(***************************************************************************)
EXTENDS CommandStream, FiniteSetTheorems, SequenceTheorems, TLAPS

------------------------------------------------------------------------------
(* Pieces of a text. *)

Take(text, n) == SubSeq(text, 1, n)

LEMMA TakeDrop ==
    ASSUME NEW S, NEW text \in Seq(S), NEW n \in 0 .. Len(text)
    PROVE  /\ Take(text, n) \in Seq(S) /\ Len(Take(text, n)) = n
           /\ \A i \in 1 .. n : Take(text, n)[i] = text[i]
           /\ Drop(text, n) \in Seq(S) /\ Len(Drop(text, n)) = Len(text) - n
           /\ \A i \in 1 .. Len(text) - n : Drop(text, n)[i] = text[n + i]
<1>1. Len(text) \in Nat /\ \A i \in 1 .. Len(text) : text[i] \in S
  BY LenProperties
<1>2. /\ SubSeq(text, 1, n) \in Seq(S)
      /\ Len(SubSeq(text, 1, n)) = n
      /\ \A i \in 1 .. n : SubSeq(text, 1, n)[i] = text[i]
  <2>1. \A i \in 1 .. n : text[i] \in S
    BY <1>1
  <2> QED BY <2>1, <1>1, SubSeqProperties, Z3
<1>3. /\ SubSeq(text, n + 1, Len(text)) \in Seq(S)
      /\ Len(SubSeq(text, n + 1, Len(text))) = Len(text) - n
      /\ \A i \in 1 .. Len(text) - n : SubSeq(text, n + 1, Len(text))[i] = text[n + i]
  <2>1. \A i \in n + 1 .. Len(text) : text[i] \in S
    BY <1>1
  <2> QED BY <2>1, <1>1, SubSeqProperties, Z3
<1> QED BY <1>2, <1>3 DEF Take, Drop

\* n symbols of S, and no more, are what the text begins with.
Spans(text, S, n) ==
    /\ n \in 0 .. Len(text)
    /\ \A i \in 1 .. n : text[i] \in S
    /\ n < Len(text) => text[n + 1] \notin S

LEMMA SpanUnique ==
    ASSUME NEW text, Len(text) \in Nat, NEW S, NEW m, NEW n,
           Spans(text, S, m), Spans(text, S, n)
    PROVE  m = n
BY DEF Spans

LEMMA SpanExists ==
    ASSUME NEW text, Len(text) \in Nat, NEW S
    PROVE  \E n : Spans(text, S, n)
<1> DEFINE B == {n \in 0 .. Len(text) : n < Len(text) => text[n + 1] \notin S}
<1>1. B \subseteq Nat /\ Len(text) \in B
  OBVIOUS
<1>2. PICK n \in B : \A m \in B : ~ (m < n)
  <2>1. IsWellFoundedOn({ss \in Nat \X Nat : ss[1] < ss[2]}, Nat)
    BY NatLessThanWellFounded DEF OpToRel
  <2> HIDE DEF B
  <2>2. PICK n \in B : \A m \in B : <<m, n>> \notin {ss \in Nat \X Nat : ss[1] < ss[2]}
    BY <1>1, <2>1, WFMin
  <2> QED BY <1>1, <2>2
<1>3. ASSUME NEW i \in 1 .. n PROVE text[i] \in S
  <2>1. n \in 0 .. Len(text) /\ i - 1 \in 0 .. Len(text) /\ i - 1 < n
    OBVIOUS
  <2>2. i - 1 \notin B
    <3> HIDE DEF B
    <3> QED BY <1>2, <2>1
  <2> QED BY <2>1, <2>2
<1> QED BY <1>2, <1>3 DEF Spans

LEMMA SpanValue ==
    ASSUME NEW text \in Seq(Symbols), NEW S
    PROVE  Spans(text, S, Span(S)[text])
<1>1. Len(text) \in Nat
  BY LenProperties
<1>2. \E n : Spans(text, S, n)
  BY <1>1, SpanExists
<1> QED BY <1>2 DEF Span, Spans

------------------------------------------------------------------------------
(* What a command is, and that blank lines in front of a line do not change it. *)

Skipped(text) == Drop(text, Span(Separators)[text])

LEMMA SkippedType ==
    ASSUME NEW text \in Seq(Symbols) PROVE Skipped(text) \in Seq(Symbols)
<1>1. Span(Separators)[text] \in 0 .. Len(text)
  BY SpanValue DEF Spans
<1> QED BY <1>1, TakeDrop DEF Skipped

LEMMA ExtractValue ==
    ASSUME NEW text \in Seq(Symbols), NEW S
    PROVE  /\ Extract(S)[text].taken = Take(Skipped(text), Span(S)[Skipped(text)])
           /\ Extract(S)[text].left = Drop(Skipped(text), Span(S)[Skipped(text)])
BY DEF Extract, Skipped, Take

LEMMA ExtractType ==
    ASSUME NEW text \in Seq(Symbols), NEW S
    PROVE  Extract(S)[text].taken \in Seq(S) /\ Extract(S)[text].left \in Seq(Symbols)
<1> DEFINE skipped == Skipped(text)
           n == Span(S)[skipped]
<1>1. skipped \in Seq(Symbols)
  BY SkippedType
<1>2. Spans(skipped, S, n)
  BY <1>1, SpanValue
<1> HIDE DEF skipped, n
<1>3. n \in 0 .. Len(skipped) /\ \A i \in 1 .. n : skipped[i] \in S
  BY <1>2 DEF Spans
<1>4. /\ Take(skipped, n) \in Seq(Symbols) /\ Len(Take(skipped, n)) = n
      /\ \A i \in 1 .. n : Take(skipped, n)[i] = skipped[i]
      /\ Drop(skipped, n) \in Seq(Symbols)
  BY <1>1, <1>3, TakeDrop
<1>5. Take(skipped, n) \in Seq(S)
  <2>1. n \in Nat
    BY <1>1, <1>3, LenProperties
  <2>2. Take(skipped, n) \in [1 .. n -> Symbols]
    BY <1>4, LenProperties
  <2>3. Take(skipped, n) \in [1 .. n -> S]
    BY <1>3, <1>4, <2>2
  <2> QED BY <2>1, <2>3, SeqDef
<1> QED BY <1>4, <1>5, ExtractValue DEF skipped, n

LEMMA CommandType ==
    ASSUME NEW text \in Seq(Symbols) PROVE Command(text) \in Executable
<1> DEFINE word   == Extract(Symbols \ Separators)[text]
           first  == Extract(Digits)[word.left]
           second == Extract(Digits)[first.left]
           third  == Extract(Digits)[second.left]
<1>1. word.left \in Seq(Symbols)
  BY ExtractType
<1>2. first.taken \in Number /\ first.left \in Seq(Symbols)
  <2> HIDE DEF word
  <2> QED BY <1>1, ExtractType DEF Number
<1>3. second.taken \in Number /\ second.left \in Seq(Symbols)
  <2> HIDE DEF first
  <2> QED BY <1>2, ExtractType DEF Number
<1>4. third.taken \in Number
  <2> HIDE DEF second
  <2> QED BY <1>3, ExtractType DEF Number
<1>5. Command(text) =
        IF word.taken = <<"PING">> THEN [op |-> "PING"]
        ELSE IF word.taken = <<"BALANCE">> /\ first.taken # <<>>
             THEN [op |-> "BALANCE", account |-> first.taken]
        ELSE IF word.taken = <<"TRANSFER">> /\ <<>> \notin {first.taken, second.taken, third.taken}
             THEN [op |-> "TRANSFER", from |-> first.taken, to |-> second.taken,
                   amount |-> third.taken]
        ELSE Unknown
  BY DEF Command
<1> HIDE DEF word, first, second, third
<1> QED BY <1>2, <1>3, <1>4, <1>5 DEF Executable, Unknown

LEMMA SkippedBehind ==
    ASSUME NEW text \in Seq(Symbols), NEW line \in Seq(Symbols), NEW j \in Nat,
           Behind(text, j, line)
    PROVE  Skipped(text) = Skipped(line)
<1> DEFINE m == Span(Separators)[line]
           n == Span(Separators)[text]
<1>1. /\ text \in Seq(Symbols) /\ line \in Seq(Symbols) /\ j \in Nat
      /\ Len(text) = j + Len(line) /\ Len(line) \in Nat /\ Len(text) \in Nat
      /\ \A i \in 1 .. j : text[i] = NewLine
      /\ \A i \in 1 .. Len(line) : text[j + i] = line[i]
  BY LenProperties DEF Behind
<1>2. Spans(line, Separators, m) /\ Spans(text, Separators, n)
  BY <1>1, SpanValue
<1> HIDE DEF m, n
<1>3. Spans(text, Separators, j + m)
  <2>1. m \in 0 .. Len(line) /\ \A i \in 1 .. m : line[i] \in Separators
    BY <1>2 DEF Spans
  <2>2. j + m \in 0 .. Len(text)
    BY <1>1, <2>1
  <2>3. ASSUME NEW i \in 1 .. j + m PROVE text[i] \in Separators
    <3>1. CASE i <= j
      BY <1>1, <3>1 DEF Separators
    <3>2. CASE i > j
      <4>1. i - j \in 1 .. m /\ i - j \in 1 .. Len(line) /\ j + (i - j) = i
        BY <1>1, <2>1, <3>2
      <4> QED BY <1>1, <2>1, <4>1
    <3> QED BY <1>1, <2>1, <3>1, <3>2
  <2>4. ASSUME j + m < Len(text) PROVE text[j + m + 1] \notin Separators
    <3>1. m < Len(line) /\ m + 1 \in 1 .. Len(line) /\ j + (m + 1) = j + m + 1
      BY <1>1, <2>1, <2>4
    <3> QED BY <1>1, <1>2, <3>1 DEF Spans
  <2> QED BY <2>2, <2>3, <2>4 DEF Spans
<1>4. n = j + m
  BY <1>1, <1>2, <1>3, SpanUnique
<1>5. m \in 0 .. Len(line) /\ n \in 0 .. Len(text)
  BY <1>2 DEF Spans
<1>6. /\ Drop(text, n) \in Seq(Symbols) /\ Len(Drop(text, n)) = Len(text) - n
      /\ \A i \in 1 .. Len(text) - n : Drop(text, n)[i] = text[n + i]
      /\ Drop(line, m) \in Seq(Symbols) /\ Len(Drop(line, m)) = Len(line) - m
      /\ \A i \in 1 .. Len(line) - m : Drop(line, m)[i] = line[m + i]
  BY <1>1, <1>5, TakeDrop
<1>7. Len(text) - n = Len(line) - m
  BY <1>1, <1>4, <1>5
<1>8. ASSUME NEW i \in 1 .. Len(line) - m PROVE Drop(text, n)[i] = Drop(line, m)[i]
  <2>1. m + i \in 1 .. Len(line) /\ n + i = j + (m + i)
    BY <1>1, <1>4, <1>5
  <2> QED BY <1>1, <1>6, <1>7, <2>1
<1> QED BY <1>6, <1>7, <1>8, SeqEqual DEF Skipped, m, n

LEMMA CommandBehind ==
    ASSUME NEW text \in Seq(Symbols), NEW line \in Seq(Symbols), NEW j \in Nat,
           Behind(text, j, line)
    PROVE  Command(text) = Command(line)
<1>1. text \in Seq(Symbols) /\ line \in Seq(Symbols)
  BY DEF Behind
<1>2. ASSUME NEW S PROVE Extract(S)[text] = Extract(S)[line]
  BY <1>1, SkippedBehind DEF Extract, Skipped
<1> QED BY <1>2 DEF Command

------------------------------------------------------------------------------
(* Types. *)

LEMMA Lines ==
    ASSUME NEW lines \in Scripts
    PROVE  /\ Len(lines) \in Nat
           /\ \A k \in 1 .. Len(lines) :
                /\ lines[k] \in Seq(Symbols) /\ Len(lines[k]) \in Nat \ {0}
                /\ \A i \in 1 .. Len(lines[k]) : lines[k][i] = NewLine <=> i = Len(lines[k])
<1>1. lines \in Seq(Seq(Symbols))
  BY StreamAssumption
<1>2. Len(lines) \in Nat /\ \A k \in 1 .. Len(lines) : lines[k] \in Seq(Symbols)
  BY <1>1, LenProperties
<1>3. \A k \in 1 .. Len(lines) : Len(lines[k]) \in Nat
  BY <1>2, LenProperties
<1> QED BY <1>2, <1>3, StreamAssumption

LEMMA SaidIs ==
    ASSUME NEW lines \in Scripts, NEW k \in 1 .. Len(lines)
    PROVE  Said[lines][k] = Command(lines[k]) /\ Said[lines][k] \in Executable
<1>1. Said[lines][k] = Command(lines[k])
  BY DEF Said
<1> QED BY <1>1, Lines, CommandType

LEMMA AskedType ==
    ASSUME NEW lines, NEW n \in Nat
    PROVE  /\ Asked(lines, n) \in Nat /\ Asked(lines, 0) = 0
           /\ Asked(lines, n + 1) = Asked(lines, n) + (IF Blank(lines[n + 1]) THEN 0 ELSE 1)
<1> DEFINE Full(m) == {k \in 1 .. m : ~Blank(lines[k])}
<1>1. IsFiniteSet(Full(n))
  <2>1. IsFiniteSet(1 .. n)
    BY FS_Interval
  <2> QED BY <2>1, FS_Subset
<1>2. Full(0) = {}
  OBVIOUS
<1>3. Full(n + 1) = IF Blank(lines[n + 1]) THEN Full(n) ELSE Full(n) \cup {n + 1}
  OBVIOUS
<1>4. n + 1 \notin Full(n)
  OBVIOUS
<1>5. /\ Asked(lines, 0) = Cardinality(Full(0)) /\ Asked(lines, n) = Cardinality(Full(n))
      /\ Asked(lines, n + 1) = Cardinality(Full(n + 1))
  BY DEF Asked
<1> HIDE DEF Full
<1>6. Cardinality(Full(n)) \in Nat /\ Cardinality({}) = 0
  BY <1>1, FS_CardinalityType, FS_EmptySet
<1>7. Cardinality(Full(n) \cup {n + 1}) = Cardinality(Full(n)) + 1
  BY <1>1, <1>4, FS_AddElement
<1> QED BY <1>2, <1>3, <1>5, <1>6, <1>7

LEMMA AnswerIs ==
    ASSUME NEW cmd \in Executable
    PROVE  \E a \in Reply : AnswerTo(cmd) = <<a>>
BY DEF AnswerTo, Reply

LEMMA Piece ==
    ASSUME NEW arrived \in Arrived, TypeOK
    PROVE  LET n == IF arrived < BufferSize THEN arrived ELSE BufferSize IN
           /\ n \in 1 .. Len(stream) /\ n <= BufferSize
           /\ Received(n) = Take(stream, n) /\ SubSeq(stream, n + 1, Len(stream)) = Drop(stream, n)
BY StreamAssumption DEF Arrived, Received, Take, Drop, TypeOK

LEMMA InitTypeOK == Init => TypeOK
<1> SUFFICES ASSUME Init PROVE TypeOK
  OBVIOUS
<1>1. Len(script) \in Nat
  BY Lines DEF Init
<1> QED BY <1>1, StreamAssumption DEF Init, TypeOK

LEMMA WriteLineTypeOK == TypeOK /\ WriteLine => TypeOK'
<1> SUFFICES ASSUME TypeOK, WriteLine PROVE TypeOK'
  OBVIOUS
<1>1. script[next + 1] \in Seq(Symbols) /\ Len(script) \in Nat
  BY Lines DEF TypeOK, WriteLine
<1>2. stream' \in Seq(Symbols)
  BY <1>1, ConcatProperties DEF TypeOK, WriteLine
<1>3. next' \in 0 .. Len(script)
  BY <1>1 DEF TypeOK, WriteLine
<1> QED BY <1>2, <1>3 DEF TypeOK, WriteLine, worker

LEMMA ReceiveTypeOK == TypeOK /\ Receive => TypeOK'
<1> SUFFICES ASSUME TypeOK, Receive PROVE TypeOK'
  OBVIOUS
<1>1. PICK n \in 1 .. Len(stream) :
        n <= BufferSize /\ buffer' = Take(stream, n) /\ stream' = Drop(stream, n)
  BY Piece DEF Receive
<1>2. n \in 0 .. Len(stream) /\ stream \in Seq(Symbols)
  BY DEF TypeOK
<1>3. buffer' \in Seq(Symbols) /\ Len(buffer') = n /\ stream' \in Seq(Symbols)
  BY <1>1, <1>2, TakeDrop
<1> QED BY <1>1, <1>3 DEF TypeOK, Receive, client

LEMMA HandleTypeOK == TypeOK /\ Handle => TypeOK'
<1> SUFFICES ASSUME TypeOK, Handle PROVE TypeOK'
  OBVIOUS
<1>1. Command(buffer) \in Executable
  BY CommandType DEF TypeOK
<1>2. executed' \in Seq(Executable) /\ Len(executed') = Len(executed) + 1
  <2>1. executed \in Seq(Executable) /\ executed' = Append(executed, Command(buffer))
    BY DEF TypeOK, Handle
  <2> QED BY <1>1, <2>1, AppendProperties
<1> QED BY <1>2 DEF TypeOK, Handle, client

LEMMA SendTypeOK == TypeOK /\ Send => TypeOK' /\ Len(answers') = Len(answers) + 1
<1> SUFFICES ASSUME TypeOK, Send PROVE TypeOK' /\ Len(answers') = Len(answers) + 1
  OBVIOUS
<1>1. Len(answers) \in Nat /\ Len(executed) = Len(answers) + 1
  BY LenProperties DEF TypeOK, Send
<1>2. Last(executed) \in Executable
  BY <1>1 DEF TypeOK, Last
<1>3. PICK a \in Reply : AnswerTo(Last(executed)) = <<a>>
  BY <1>2, AnswerIs
<1>4. answers' = answers \o <<a>>
  BY <1>3 DEF Send
<1>5. answers' \in Seq(Reply) /\ Len(answers') = Len(answers) + 1
  BY <1>4 DEF TypeOK
<1> QED BY <1>1, <1>5 DEF TypeOK, Send, client

LEMMA OtherTypeOK ==
    TypeOK /\ (ReadAnswer \/ Leave \/ HangUp \/ UNCHANGED vars) => TypeOK'
<1> SUFFICES ASSUME TypeOK, ReadAnswer \/ Leave \/ HangUp \/ UNCHANGED vars PROVE TypeOK'
  OBVIOUS
<1>1. CASE ReadAnswer
  <2>1. Len(answers) \in Nat
    BY LenProperties DEF TypeOK
  <2>2. read' \in 0 .. Len(answers)
    BY <1>1, <2>1 DEF TypeOK, ReadAnswer
  <2> QED BY <1>1, <2>2 DEF TypeOK, ReadAnswer, worker
<1>2. CASE Leave
  BY <1>2 DEF TypeOK, Leave, worker
<1>3. CASE HangUp
  BY <1>3 DEF TypeOK, HangUp, client
<1>4. CASE UNCHANGED vars
  BY <1>4 DEF TypeOK, vars, client, worker
<1> QED BY <1>1, <1>2, <1>3, <1>4

\* The variables of a connection (handleClient in server.cpp) keep their types
\* for every script and buffer: a command is executed once before its answer is
\* sent, and each has exactly one answer.
THEOREM TypeCorrect == Spec => []TypeOK
<1>1. TypeOK /\ [Next]_vars => TypeOK'
  BY WriteLineTypeOK, ReceiveTypeOK, HandleTypeOK, SendTypeOK, OtherTypeOK DEF Next
<1> QED BY InitTypeOK, <1>1, PTL DEF Spec

------------------------------------------------------------------------------
(* A polite client has one line on its way. *)

LEMMA BlankIs ==
    ASSUME NEW text \in Seq(Symbols)
    PROVE  Blank(text) <=> \A i \in 1 .. Len(text) : text[i] = NewLine
<1>1. DOMAIN text = 1 .. Len(text)
  BY LenProperties
<1> QED BY <1>1 DEF Blank, ToSet

\* A blank line is one symbol, its line end.
LEMMA BlankLine ==
    ASSUME NEW lines \in Scripts, NEW k \in 1 .. Len(lines), Blank(lines[k])
    PROVE  Len(lines[k]) = 1 /\ lines[k][1] = NewLine
<1>1. /\ lines[k] \in Seq(Symbols) /\ Len(lines[k]) \in Nat \ {0}
      /\ \A i \in 1 .. Len(lines[k]) : lines[k][i] = NewLine <=> i = Len(lines[k])
  BY Lines
<1>2. 1 \in 1 .. Len(lines[k])
  BY <1>1
<1>3. lines[k][1] = NewLine
  BY <1>1, <1>2, BlankIs
<1> QED BY <1>1, <1>2, <1>3

LEMMA Empty ==
    ASSUME NEW S, NEW text \in Seq(S), Len(text) = 0 PROVE text = <<>>
BY EmptySeq

Phase ==
    \/ at \in {"recv", "gone"} /\ Idle
    \/ at = "recv" /\ PendingIn(stream)
    \/ at = "handle" /\ stream = <<>> /\ PendingIn(buffer)
    \/ at = "send" /\ stream = <<>> /\ Pending

\* The k-th command is that of the k-th line that is not blank.
CommandsAt(lines, n, done) ==
    \A k \in 1 .. Len(done) : \E m \in 1 .. n :
        ~Blank(lines[m]) /\ Asked(lines, m) = k /\ done[k] = Said[lines][m]

CommandsFollowLines == CommandsAt(script, next, executed)

AnswersFollowCommands == \A k \in 1 .. Len(answers) : AnswerTo(executed[k]) = <<answers[k]>>

LEMMA StreamInvIs ==
    StreamInv <=> AnswersFollowCommands /\ (Polite => CommandsFollowLines /\ Phase)
BY DEF StreamInv, AnswersFollowCommands, CommandsFollowLines, CommandsAt, Phase

LEMMA NextFacts ==
    TypeOK => /\ script \in Scripts /\ Len(script) \in Nat /\ next \in Nat /\ next <= Len(script)
              /\ Len(answers) \in Nat /\ Len(executed) \in Nat /\ read \in Nat
              /\ read <= Len(answers) /\ Len(stream) \in Nat /\ Len(buffer) \in Nat
              /\ stream \in Seq(Symbols) /\ buffer \in Seq(Symbols)
              /\ Len(executed) = Len(answers) + (IF at = "send" THEN 1 ELSE 0)
<1> SUFFICES ASSUME TypeOK PROVE
              /\ script \in Scripts /\ Len(script) \in Nat /\ next \in Nat /\ next <= Len(script)
              /\ Len(answers) \in Nat /\ Len(executed) \in Nat /\ read \in Nat
              /\ read <= Len(answers) /\ Len(stream) \in Nat /\ Len(buffer) \in Nat
              /\ stream \in Seq(Symbols) /\ buffer \in Seq(Symbols)
              /\ Len(executed) = Len(answers) + (IF at = "send" THEN 1 ELSE 0)
  OBVIOUS
<1>1. Len(script) \in Nat
  BY Lines DEF TypeOK
<1>2. /\ Len(answers) \in Nat /\ Len(executed) \in Nat
      /\ Len(stream) \in Nat /\ Len(buffer) \in Nat
  BY LenProperties DEF TypeOK
<1> QED BY <1>1, <1>2 DEF TypeOK

\* The phases, as relations between the lines, how many are written, a text and
\* how many answers were sent.
IdleAt(lines, n, text, count) ==
    /\ count = Asked(lines, n)
    /\ Blank(text) /\ Len(text) <= n
    /\ \A i \in n - Len(text) + 1 .. n : Blank(lines[i])
PendingAt(lines, n, count) == n > 0 /\ ~Blank(lines[n]) /\ count + 1 = Asked(lines, n)
InFront(lines, n, text, j) ==
    /\ j \in 0 .. n - 1 /\ Behind(text, j, lines[n])
    /\ \A i \in n - j .. n - 1 : Blank(lines[i])

LEMMA PhasesAt ==
    /\ Idle <=> IdleAt(script, next, stream, Len(answers))
    /\ Pending <=> PendingAt(script, next, Len(answers))
    /\ PendingIn(stream) <=> Pending /\ \E j : InFront(script, next, stream, j)
    /\ PendingIn(buffer) <=> Pending /\ \E j : InFront(script, next, buffer, j)
BY DEF Idle, IdleAt, Pending, PendingAt, PendingIn, InFront

LEMMA PhasesAtPrime ==
    /\ Idle' <=> IdleAt(script', next', stream', Len(answers'))
    /\ Pending' <=> PendingAt(script', next', Len(answers'))
    /\ PendingIn(stream)' <=> Pending' /\ \E j : InFront(script', next', stream', j)
    /\ PendingIn(buffer)' <=> Pending' /\ \E j : InFront(script', next', buffer', j)
BY DEF Idle, IdleAt, Pending, PendingAt, PendingIn, InFront

LEMMA Joined ==
    ASSUME NEW S, NEW a \in Seq(S), NEW b \in Seq(S)
    PROVE  /\ a \o b \in Seq(S) /\ Len(a \o b) = Len(a) + Len(b)
           /\ \A i \in 1 .. Len(a) : (a \o b)[i] = a[i]
           /\ \A i \in 1 .. Len(b) : (a \o b)[Len(a) + i] = b[i]
<1>1. /\ a \o b \in Seq(S) /\ Len(a \o b) = Len(a) + Len(b)
      /\ \A i \in 1 .. Len(a) + Len(b) : (a \o b)[i] = IF i <= Len(a) THEN a[i] ELSE b[i - Len(a)]
  BY ConcatProperties
<1>2. Len(a) \in Nat /\ Len(b) \in Nat
  BY LenProperties
<1>3. ASSUME NEW i \in 1 .. Len(b) PROVE (a \o b)[Len(a) + i] = b[i]
  <2>1. /\ Len(a) + i \in 1 .. Len(a) + Len(b) /\ ~(Len(a) + i <= Len(a))
        /\ (Len(a) + i) - Len(a) = i
    BY <1>2
  <2> QED BY <1>1, <2>1
<1>4. ASSUME NEW i \in 1 .. Len(a) PROVE (a \o b)[i] = a[i]
  <2>1. i \in 1 .. Len(a) + Len(b) /\ i <= Len(a)
    BY <1>2
  <2> QED BY <1>1, <2>1
<1> QED BY <1>1, <1>3, <1>4

\* The next line, written when all before it is answered.
LEMMA WriteBlank ==
    ASSUME NEW lines \in Scripts, NEW n \in Nat, n + 1 \in 1 .. Len(lines),
           NEW text \in Seq(Symbols), NEW count, IdleAt(lines, n, text, count),
           Blank(lines[n + 1])
    PROVE  IdleAt(lines, n + 1, text \o lines[n + 1], count)
<1> DEFINE line == lines[n + 1]
           longer == text \o line
<1>0. line \in Seq(Symbols)
  BY Lines
<1>1. Len(line) = 1 /\ line[1] = NewLine
  BY BlankLine
<1>2. Len(text) \in Nat /\ \A i \in 1 .. Len(text) : text[i] = NewLine
  BY BlankIs, LenProperties DEF IdleAt
<1>3. /\ longer \in Seq(Symbols) /\ Len(longer) = Len(text) + Len(line)
      /\ \A i \in 1 .. Len(text) : longer[i] = text[i]
      /\ \A i \in 1 .. Len(line) : longer[Len(text) + i] = line[i]
  <2> HIDE DEF line
  <2> QED BY <1>0, Joined
<1>4. longer[Len(text) + 1] = NewLine /\ Len(longer) = Len(text) + 1
  <2> HIDE DEF longer, line
  <2>1. 1 \in 1 .. Len(line)
    BY <1>1
  <2> QED BY <1>1, <1>3, <2>1
<1>5. \A i \in 1 .. Len(longer) : longer[i] = NewLine
  <2> HIDE DEF longer, line
  <2> SUFFICES ASSUME NEW i \in 1 .. Len(longer) PROVE longer[i] = NewLine
    OBVIOUS
  <2>1. i \in 1 .. Len(text) \/ i = Len(text) + 1
    BY <1>2, <1>4
  <2> QED BY <1>2, <1>3, <1>4, <2>1
<1>6. Blank(longer)
  <2> HIDE DEF longer
  <2> QED BY <1>3, <1>5, BlankIs
<1>7. Asked(lines, n + 1) = count
  <2>1. Asked(lines, n) \in Nat /\ Asked(lines, n + 1) = Asked(lines, n) + 0
    BY AskedType
  <2> QED BY <2>1 DEF IdleAt
<1>8. ASSUME NEW i \in n + 1 - Len(longer) + 1 .. n + 1 PROVE Blank(lines[i])
  <2>1. i = n + 1 \/ i \in n - Len(text) + 1 .. n
    <3> HIDE DEF longer
    <3> QED BY <1>2, <1>4
  <2> QED BY <2>1 DEF IdleAt
<1>9. Len(longer) <= n + 1
  <2> HIDE DEF longer
  <2> QED BY <1>2, <1>4 DEF IdleAt
<1> QED BY <1>6, <1>7, <1>8, <1>9 DEF IdleAt

LEMMA WriteFull ==
    ASSUME NEW lines \in Scripts, NEW n \in Nat, n + 1 \in 1 .. Len(lines),
           NEW text \in Seq(Symbols), NEW count, IdleAt(lines, n, text, count),
           ~Blank(lines[n + 1])
    PROVE  /\ PendingAt(lines, n + 1, count)
           /\ InFront(lines, n + 1, text \o lines[n + 1], Len(text))
<1> DEFINE line == lines[n + 1]
           longer == text \o line
<1>1. line \in Seq(Symbols)
  BY Lines
<1>2. Len(text) \in Nat /\ \A i \in 1 .. Len(text) : text[i] = NewLine
  BY BlankIs, LenProperties DEF IdleAt
<1>3. /\ Len(longer) = Len(text) + Len(line)
      /\ \A i \in 1 .. Len(text) : longer[i] = text[i]
      /\ \A i \in 1 .. Len(line) : longer[Len(text) + i] = line[i]
  <2> HIDE DEF line
  <2> QED BY <1>1, Joined
<1>4. Behind(longer, Len(text), line)
  BY <1>2, <1>3 DEF Behind
<1>5. Asked(lines, n + 1) = count + 1
  BY AskedType DEF IdleAt
<1>6. ASSUME NEW i \in n + 1 - Len(text) .. n + 1 - 1 PROVE Blank(lines[i])
  <2>1. i \in n - Len(text) + 1 .. n
    BY <1>2
  <2> QED BY <2>1 DEF IdleAt
<1>7. Len(text) \in 0 .. n + 1 - 1
  BY <1>2 DEF IdleAt
<1>8. n + 1 > 0
  OBVIOUS
<1> QED BY <1>4, <1>5, <1>6, <1>7, <1>8 DEF PendingAt, InFront

LEMMA ReceiveBlank ==
    ASSUME NEW lines, NEW n \in Nat, NEW text \in Seq(Symbols), NEW count,
           IdleAt(lines, n, text, count), NEW m \in 1 .. Len(text)
    PROVE  Blank(Take(text, m)) /\ IdleAt(lines, n, Drop(text, m), count)
<1>1. Len(text) \in Nat /\ \A i \in 1 .. Len(text) : text[i] = NewLine
  BY BlankIs, LenProperties DEF IdleAt
<1>2. m \in 0 .. Len(text)
  BY <1>1
<1>3. /\ Take(text, m) \in Seq(Symbols) /\ Len(Take(text, m)) = m
      /\ \A i \in 1 .. m : Take(text, m)[i] = text[i]
      /\ Drop(text, m) \in Seq(Symbols) /\ Len(Drop(text, m)) = Len(text) - m
      /\ \A i \in 1 .. Len(text) - m : Drop(text, m)[i] = text[m + i]
  BY <1>2, TakeDrop
<1>4. Blank(Take(text, m))
  BY <1>1, <1>3, BlankIs
<1>5. Blank(Drop(text, m))
  <2>1. ASSUME NEW i \in 1 .. Len(Drop(text, m)) PROVE Drop(text, m)[i] = NewLine
    <3>1. i \in 1 .. Len(text) - m /\ m + i \in 1 .. Len(text)
      BY <1>1, <1>3
    <3> QED BY <1>1, <1>3, <3>1
  <2> QED BY <1>3, <2>1, BlankIs
<1>6. ASSUME NEW i \in n - Len(Drop(text, m)) + 1 .. n PROVE Blank(lines[i])
  <2>1. i \in n - Len(text) + 1 .. n
    BY <1>1, <1>3
  <2> QED BY <2>1 DEF IdleAt
<1>7. Len(Drop(text, m)) <= n
  BY <1>1, <1>3 DEF IdleAt
<1> QED BY <1>4, <1>5, <1>6, <1>7 DEF IdleAt

LEMMA LineIsNotBlank ==
    ASSUME NEW lines \in Scripts, NEW n \in 1 .. Len(lines), ~Blank(lines[n]),
           NEW text \in Seq(Symbols), NEW j, InFront(lines, n, text, j)
    PROVE  ~Blank(text)
<1>1. lines[n] \in Seq(Symbols) /\ Len(lines[n]) \in Nat
  BY Lines
<1>2. PICK i \in 1 .. Len(lines[n]) : lines[n][i] # NewLine
  BY <1>1, BlankIs
<1>3. j \in 0 .. n - 1 /\ Len(text) = j + Len(lines[n]) /\ text[j + i] = lines[n][i]
  BY DEF InFront, Behind
<1>4. j + i \in 1 .. Len(text)
  BY <1>1, <1>3
<1> QED BY <1>2, <1>3, <1>4, BlankIs

\* A segment that ends where a line does takes blank lines only, or everything.
LEMMA ReceiveLine ==
    ASSUME NEW lines \in Scripts, NEW n \in 1 .. Len(lines),
           NEW text \in Seq(Symbols), NEW j, InFront(lines, n, text, j),
           NEW m \in 1 .. Len(text), text[m] = NewLine
    PROVE  \/ Blank(Take(text, m)) /\ InFront(lines, n, Drop(text, m), j - m)
           \/ Take(text, m) = text /\ Drop(text, m) = <<>>
<1> DEFINE line == lines[n]
<1>1. /\ line \in Seq(Symbols) /\ Len(line) \in Nat \ {0}
      /\ \A i \in 1 .. Len(line) : line[i] = NewLine <=> i = Len(line)
  BY Lines
<1>2. /\ j \in Nat /\ j <= n - 1 /\ Len(text) \in Nat /\ Len(text) = j + Len(line)
      /\ \A i \in 1 .. j : text[i] = NewLine
      /\ \A i \in 1 .. Len(line) : text[j + i] = line[i]
  BY LenProperties DEF InFront, Behind
<1>3. m \in 0 .. Len(text) /\ m \in Nat
  BY <1>2
<1>4. /\ Take(text, m) \in Seq(Symbols) /\ Len(Take(text, m)) = m
      /\ \A i \in 1 .. m : Take(text, m)[i] = text[i]
      /\ Drop(text, m) \in Seq(Symbols) /\ Len(Drop(text, m)) = Len(text) - m
      /\ \A i \in 1 .. Len(text) - m : Drop(text, m)[i] = text[m + i]
  BY <1>3, TakeDrop
<1> HIDE DEF line
<1>5. CASE m <= j
  <2>1. ASSUME NEW i \in 1 .. Len(Take(text, m)) PROVE Take(text, m)[i] = NewLine
    <3>1. i \in 1 .. m /\ i \in 1 .. j
      BY <1>2, <1>3, <1>4, <1>5
    <3> QED BY <1>2, <1>4, <3>1
  <2>2. Blank(Take(text, m))
    BY <1>4, <2>1, BlankIs
  <2>3. Len(Drop(text, m)) = (j - m) + Len(line)
    BY <1>1, <1>2, <1>3, <1>4
  <2>4. ASSUME NEW i \in 1 .. j - m PROVE Drop(text, m)[i] = NewLine
    <3>1. i \in 1 .. Len(text) - m /\ m + i \in 1 .. j
      BY <1>1, <1>2, <1>3
    <3> QED BY <1>2, <1>4, <3>1
  <2>5. ASSUME NEW i \in 1 .. Len(line) PROVE Drop(text, m)[(j - m) + i] = line[i]
    <3>1. (j - m) + i \in 1 .. Len(text) - m /\ m + ((j - m) + i) = j + i
      BY <1>1, <1>2, <1>3, <1>5
    <3> QED BY <1>2, <1>4, <3>1
  <2>6. Behind(Drop(text, m), j - m, line)
    BY <2>3, <2>4, <2>5 DEF Behind
  <2>7. j - m \in 0 .. n - 1
    BY <1>2, <1>3, <1>5
  <2>8. ASSUME NEW i \in n - (j - m) .. n - 1 PROVE Blank(lines[i])
    <3>1. i \in n - j .. n - 1
      BY <1>2, <1>3
    <3> QED BY <3>1 DEF InFront
  <2> QED BY <2>2, <2>6, <2>7, <2>8 DEF InFront, line
<1>6. CASE m > j
  <2>1. m - j \in 1 .. Len(line) /\ j + (m - j) = m
    BY <1>1, <1>2, <1>3, <1>6
  <2>2. line[m - j] = NewLine
    BY <1>2, <2>1
  <2>3. m = Len(text)
    BY <1>1, <1>2, <1>3, <2>1, <2>2
  <2>4. Take(text, m) = text
    BY <1>4, <2>3, SeqEqual
  <2>5. Drop(text, m) = <<>>
    BY <1>2, <1>4, <2>3, Empty
  <2> QED BY <2>4, <2>5
<1> QED BY <1>2, <1>3, <1>5, <1>6

LEMMA FitsTheBuffer ==
    ASSUME Fits, TypeOK, NEW j, next \in 1 .. Len(script), NEW text,
           InFront(script, next, text, j)
    PROVE  Len(text) <= BufferSize
<1>1. /\ j \in 0 .. next - 1 /\ Len(text) = j + Len(script[next])
      /\ \A i \in next - j .. next - 1 : Blank(script[i])
  BY DEF InFront, Behind
<1>2. next - j \in 1 .. next /\ next - (next - j) = j
  BY <1>1, NextFacts
<1>3. (next - (next - j)) + Len(script[next]) <= BufferSize
  BY <1>1, <1>2 DEF Fits
<1> QED BY <1>1, <1>2, <1>3

------------------------------------------------------------------------------
(* Every step keeps StreamInv. *)

LEMMA PoliteSame ==
    ASSUME UNCHANGED <<script, patient, whole>> PROVE Polite' <=> Polite
BY DEF Polite, Fits, Blank

LEMMA InitStreamInv == Init => StreamInv
<1> SUFFICES ASSUME Init PROVE StreamInv
  OBVIOUS
<1>1. Asked(script, 0) = 0
  BY AskedType
<1>2. IdleAt(script, 0, <<>>, 0)
  BY <1>1, EmptySeq DEF IdleAt, Blank, ToSet
<1>3. Phase
  BY <1>2, PhasesAt DEF Init, Phase
<1>4. AnswersFollowCommands /\ CommandsFollowLines
  BY DEF Init, AnswersFollowCommands, CommandsFollowLines, CommandsAt
<1> QED BY <1>3, <1>4, StreamInvIs

LEMMA WriteLinePhase ==
    ASSUME TypeOK, Polite, Phase, WriteLine PROVE Phase'
<1>1. /\ present /\ next \in Nat /\ next + 1 \in 1 .. Len(script) /\ script \in Scripts
      /\ read >= Asked(script, next) /\ Asked(script, next) \in Nat
      /\ read \in Nat /\ read <= Len(answers) /\ Len(answers) \in Nat
      /\ stream \in Seq(Symbols)
  <2>1. Asked(script, next) \in Nat
    BY NextFacts, AskedType
  <2> QED BY <2>1, NextFacts DEF WriteLine, Polite
<1>2. ~Pending
  BY <1>1 DEF Pending
<1>3. at = "recv" /\ IdleAt(script, next, stream, Len(answers))
  BY <1>1, <1>2, PhasesAt DEF Phase, PendingIn, TypeOK
<1>4. /\ next' = next + 1 /\ stream' = stream \o script[next + 1] /\ script' = script
      /\ answers' = answers /\ at' = "recv"
  BY <1>3 DEF WriteLine, worker
<1>5. CASE Blank(script[next + 1])
  <2>1. IdleAt(script, next + 1, stream \o script[next + 1], Len(answers))
    BY <1>1, <1>3, <1>5, WriteBlank
  <2> QED BY <1>4, <2>1, PhasesAtPrime DEF Phase
<1>6. CASE ~Blank(script[next + 1])
  <2>1. /\ PendingAt(script, next + 1, Len(answers))
        /\ InFront(script, next + 1, stream \o script[next + 1], Len(stream))
    BY <1>1, <1>3, <1>6, WriteFull
  <2> QED BY <1>4, <2>1, PhasesAtPrime DEF Phase
<1> QED BY <1>5, <1>6

LEMMA ReceivePhase ==
    ASSUME TypeOK, Polite, Phase, Receive PROVE Phase'
<1>1. /\ next \in Nat /\ next <= Len(script) /\ script \in Scripts /\ Len(script) \in Nat
      /\ stream \in Seq(Symbols) /\ Len(stream) \in Nat /\ BufferSize \in Nat
  BY NextFacts, StreamAssumption
<1>2. PICK arrived \in 1 .. Len(stream) :
        /\ stream[arrived] = NewLine
        /\ LET n == IF arrived < BufferSize THEN arrived ELSE BufferSize IN
           /\ n \in 1 .. Len(stream)
           /\ buffer' = Take(stream, n) /\ stream' = Drop(stream, n)
  BY Piece DEF Receive, Arrived, Polite
<1>3. /\ at = "recv" /\ script' = script /\ next' = next /\ answers' = answers
      /\ at' = IF Blank(buffer') THEN "recv" ELSE "handle"
  BY DEF Receive, client, Ignored
<1>4. CASE IdleAt(script, next, stream, Len(answers))
  <2>1. PICK n \in 1 .. Len(stream) : buffer' = Take(stream, n) /\ stream' = Drop(stream, n)
    BY <1>2
  <2>2. Blank(buffer') /\ IdleAt(script, next, stream', Len(answers))
    BY <1>1, <1>4, <2>1, ReceiveBlank
  <2> QED BY <1>3, <2>2, PhasesAtPrime DEF Phase
<1>5. ASSUME Pending, NEW j, InFront(script, next, stream, j) PROVE Phase'
  <2>1. next \in 1 .. Len(script) /\ ~Blank(script[next])
    BY <1>1, <1>5 DEF Pending
  <2>2. Len(stream) <= BufferSize
    BY <1>5, <2>1, FitsTheBuffer DEF Polite
  <2>3. buffer' = Take(stream, arrived) /\ stream' = Drop(stream, arrived)
    <3>1. (IF arrived < BufferSize THEN arrived ELSE BufferSize) = arrived
      BY <1>1, <2>2
    <3> QED BY <1>2, <3>1
  <2>4. PendingAt(script', next', Len(answers'))
    BY <1>3, <1>5, PhasesAt
  <2>5. CASE Blank(buffer') /\ InFront(script, next, stream', j - arrived)
    BY <1>3, <2>4, <2>5, PhasesAtPrime DEF Phase
  <2>6. CASE buffer' = stream /\ stream' = <<>>
    <3>1. ~Blank(buffer')
      BY <1>1, <1>5, <2>1, <2>6, LineIsNotBlank
    <3>2. InFront(script', next', buffer', j)
      BY <1>3, <1>5, <2>6
    <3> QED BY <1>3, <2>4, <2>6, <3>1, <3>2, PhasesAtPrime DEF Phase
  <2> QED BY <1>1, <1>2, <1>5, <2>1, <2>3, <2>5, <2>6, ReceiveLine
<1> QED BY <1>3, <1>4, <1>5, PhasesAt DEF Phase, PendingIn

\* What is executed is the command of the line that waits for its answer.
LEMMA HandledLine ==
    ASSUME TypeOK, PendingIn(buffer) PROVE Command(buffer) = Said[script][next] /\ next \in 1 .. Len(script)
<1>1. next \in 1 .. Len(script) /\ script \in Scripts /\ buffer \in Seq(Symbols)
  BY NextFacts DEF PendingIn, Pending
<1>2. PICK j \in 0 .. next - 1 : Behind(buffer, j, script[next])
  BY DEF PendingIn
<1>3. j \in Nat /\ script[next] \in Seq(Symbols)
  BY <1>1, Lines
<1> QED BY <1>1, <1>2, <1>3, CommandBehind, SaidIs

LEMMA HandleInv ==
    ASSUME TypeOK, Polite, Phase, CommandsFollowLines, Handle
    PROVE  Phase' /\ CommandsFollowLines'
<1>1. at = "handle" /\ stream = <<>> /\ PendingIn(buffer)
  BY DEF Phase, Handle
<1>2. /\ script' = script /\ next' = next /\ answers' = answers /\ stream' = <<>> /\ at' = "send"
      /\ executed' = Append(executed, Command(buffer))
  BY <1>1 DEF Handle, client
<1>3. Phase'
  <2>1. PendingAt(script', next', Len(answers'))
    BY <1>1, <1>2, PhasesAt DEF PendingIn
  <2> QED BY <1>2, <2>1, PhasesAtPrime DEF Phase
<1>4. /\ executed \in Seq(Executable) /\ Command(buffer) \in Executable
      /\ Len(executed) \in Nat /\ Len(executed) = Len(answers)
  BY <1>1, NextFacts, CommandType DEF TypeOK
<1>5. /\ Len(executed') = Len(executed) + 1
      /\ \A k \in 1 .. Len(executed) : executed'[k] = executed[k]
      /\ executed'[Len(executed) + 1] = Command(buffer)
  BY <1>2, <1>4, AppendProperties
<1>6. /\ next \in 1 .. next /\ ~Blank(script[next])
      /\ Asked(script, next) = Len(executed) + 1
      /\ executed'[Len(executed) + 1] = Said[script][next]
  BY <1>1, <1>4, <1>5, HandledLine, NextFacts DEF PendingIn, Pending
<1>7. ASSUME NEW k \in 1 .. Len(executed')
      PROVE  \E n \in 1 .. next : ~Blank(script[n]) /\ Asked(script, n) = k /\ executed'[k] = Said[script][n]
  <2>1. CASE k \in 1 .. Len(executed)
    BY <1>5, <2>1 DEF CommandsFollowLines, CommandsAt
  <2>2. CASE k = Len(executed) + 1
    BY <1>6, <2>2
  <2> QED BY <1>4, <1>5, <2>1, <2>2
<1>8. CommandsFollowLines'
  <2>1. CommandsAt(script', next', executed')
    BY <1>2, <1>7 DEF CommandsAt
  <2> QED BY <2>1 DEF CommandsFollowLines
<1> QED BY <1>3, <1>8

LEMMA SendInv ==
    ASSUME TypeOK, AnswersFollowCommands, Send
    PROVE  AnswersFollowCommands' /\ (Phase => Phase')
<1>1. /\ at = "send" /\ Len(answers) \in Nat /\ Len(executed) = Len(answers) + 1
      /\ script' = script /\ next' = next /\ executed' = executed /\ stream' = stream /\ at' = "recv"
  BY NextFacts DEF Send, client
<1>2. Last(executed) = executed[Len(answers) + 1] /\ Last(executed) \in Executable
  BY <1>1 DEF TypeOK, Last
<1>3. PICK a \in Reply : AnswerTo(Last(executed)) = <<a>>
  BY <1>2, AnswerIs
<1>4. /\ Len(answers') = Len(answers) + 1
      /\ \A k \in 1 .. Len(answers) : answers'[k] = answers[k]
      /\ answers'[Len(answers) + 1] = a
  <2>1. answers' = Append(answers, a)
    BY <1>3 DEF Send, TypeOK
  <2> QED BY <2>1, AppendProperties DEF TypeOK
<1>5. ASSUME NEW k \in 1 .. Len(answers') PROVE AnswerTo(executed[k]) = <<answers'[k]>>
  <2>1. CASE k \in 1 .. Len(answers)
    BY <1>4, <2>1 DEF AnswersFollowCommands
  <2>2. CASE k = Len(answers) + 1
    BY <1>2, <1>3, <1>4, <2>2
  <2> QED BY <1>1, <1>4, <2>1, <2>2
<1>6. AnswersFollowCommands'
  BY <1>1, <1>5 DEF AnswersFollowCommands, AnswerTo
<1>7. ASSUME Phase PROVE Phase'
  <2>1. stream = <<>> /\ Pending
    BY <1>1, <1>7 DEF Phase
  <2>2. IdleAt(script, next, <<>>, Len(answers) + 1)
    BY <2>1, NextFacts, EmptySeq DEF Pending, IdleAt, Blank, ToSet
  <2> QED BY <1>1, <1>4, <2>1, <2>2, PhasesAtPrime DEF Phase
<1> QED BY <1>6, <1>7

LEMMA OthersInv ==
    ASSUME TypeOK, AnswersFollowCommands, WriteLine \/ ReadAnswer \/ Leave \/ Receive \/ HangUp \/ UNCHANGED vars
    PROVE  /\ AnswersFollowCommands' /\ UNCHANGED <<script, patient, whole>>
           /\ CommandsFollowLines => CommandsFollowLines'
<1>1. /\ executed' = executed /\ answers' = answers /\ UNCHANGED <<script, patient, whole>>
      /\ next' = next \/ next' = next + 1
  BY DEF WriteLine, ReadAnswer, Leave, Receive, HangUp, vars, client, worker
<1>2. AnswersFollowCommands'
  BY <1>1 DEF AnswersFollowCommands, AnswerTo
<1>3. ASSUME CommandsAt(script, next, executed) PROVE CommandsAt(script', next', executed')
  <2>1. 1 .. next \subseteq 1 .. next'
    BY <1>1, NextFacts
  <2> QED BY <1>1, <1>3, <2>1 DEF CommandsAt
<1> QED BY <1>1, <1>2, <1>3 DEF CommandsFollowLines

LEMMA QuietPhase ==
    ASSUME TypeOK, Phase, ReadAnswer \/ Leave \/ HangUp \/ UNCHANGED vars PROVE Phase'
<1>1. /\ script' = script /\ next' = next /\ stream' = stream /\ buffer' = buffer
      /\ answers' = answers
      /\ (at' = at) \/ (at = "recv" /\ at' = "gone" /\ stream = <<>>)
  <2>1. CASE ReadAnswer
    BY <2>1 DEF ReadAnswer, worker
  <2>2. CASE Leave
    BY <2>2 DEF Leave, worker
  <2>3. CASE HangUp
    BY <2>3 DEF HangUp, client
  <2>4. CASE UNCHANGED vars
    BY <2>4 DEF vars, client, worker
  <2> QED BY <2>1, <2>2, <2>3, <2>4
<1>2. /\ Idle' <=> Idle
      /\ Pending' <=> Pending
      /\ PendingIn(stream)' <=> PendingIn(stream)
      /\ PendingIn(buffer)' <=> PendingIn(buffer)
  BY <1>1, PhasesAt, PhasesAtPrime
<1>3. stream = <<>> => ~PendingIn(stream)
  <2> SUFFICES ASSUME stream = <<>>, PendingIn(stream) PROVE FALSE
    OBVIOUS
  <2>1. PICK j \in 0 .. next - 1 : Behind(stream, j, script[next])
    BY DEF PendingIn
  <2>2. next \in 1 .. Len(script) /\ script \in Scripts
    BY NextFacts DEF PendingIn, Pending
  <2>3. Len(script[next]) \in Nat \ {0} /\ j \in Nat /\ Len(stream) = 0
    BY <2>2, Lines, EmptySeq
  <2> QED BY <2>1, <2>3 DEF Behind
<1> QED BY <1>1, <1>2, <1>3 DEF Phase

LEMMA NextStreamInv == TypeOK /\ StreamInv /\ [Next]_vars => StreamInv'
<1> SUFFICES ASSUME TypeOK, StreamInv, [Next]_vars PROVE StreamInv'
  OBVIOUS
<1>1. AnswersFollowCommands /\ (Polite => CommandsFollowLines /\ Phase)
  BY StreamInvIs
<1> SUFFICES AnswersFollowCommands' /\ (Polite' => CommandsFollowLines' /\ Phase')
  BY StreamInvIs, PTL
<1>2. CASE Handle
  <2>1. UNCHANGED <<script, patient, whole>> /\ answers' = answers /\ Len(executed) = Len(answers)
    BY <1>2, NextFacts DEF Handle, client
  <2>2. AnswersFollowCommands'
    <3>1. executed \in Seq(Executable) /\ Command(buffer) \in Executable
      BY CommandType DEF TypeOK
    <3>2. \A k \in 1 .. Len(executed) : executed'[k] = executed[k]
      BY <1>2, <3>1, AppendProperties DEF Handle
    <3> QED BY <1>1, <2>1, <3>2 DEF AnswersFollowCommands, AnswerTo
  <2> QED BY <1>1, <1>2, <2>1, <2>2, HandleInv, PoliteSame
<1>3. CASE Send
  <2>1. /\ UNCHANGED <<script, patient, whole>>
        /\ next' = next /\ executed' = executed
    BY <1>3 DEF Send, client
  <2>2. CommandsFollowLines => CommandsFollowLines'
    BY <2>1 DEF CommandsFollowLines
  <2> QED BY <1>1, <1>3, <2>1, <2>2, SendInv, PoliteSame
<1>4. CASE WriteLine
  BY <1>1, <1>4, WriteLinePhase, OthersInv, PoliteSame
<1>5. CASE Receive
  BY <1>1, <1>5, ReceivePhase, OthersInv, PoliteSame
<1>6. CASE ReadAnswer \/ Leave \/ HangUp \/ UNCHANGED vars
  BY <1>1, <1>6, QuietPhase, OthersInv, PoliteSame
<1> QED BY <1>2, <1>3, <1>4, <1>5, <1>6 DEF Next

\* The invariant of the stream of commands (handleClient in server.cpp): each
\* answer is that of the command executed, and of a polite client at most one
\* line, with the blank lines before it, is on its way, in the buffer or answered.
THEOREM OneLineAtATime == Spec => []StreamInv
<1>1. Init => TypeOK /\ StreamInv
  BY InitTypeOK, InitStreamInv
<1>2. TypeOK /\ StreamInv /\ [Next]_vars => (TypeOK /\ StreamInv)'
  <2>1. TypeOK /\ [Next]_vars => TypeOK'
    BY WriteLineTypeOK, ReceiveTypeOK, HandleTypeOK, SendTypeOK, OtherTypeOK DEF Next
  <2> QED BY <2>1, NextStreamInv
<1> QED BY <1>1, <1>2, PTL DEF Spec

LEMMA InvPoliteAnswers == TypeOK /\ StreamInv => PoliteAnswers
<1> SUFFICES ASSUME TypeOK, StreamInv, Polite PROVE
        /\ Len(answers) <= Asked(script, next)
        /\ \A k \in 1 .. Len(answers) : \E n \in 1 .. next :
               ~Blank(script[n]) /\ Asked(script, n) = k /\ AnswerTo(Said[script][n]) = <<answers[k]>>
  BY DEF PoliteAnswers
<1>1. AnswersFollowCommands /\ CommandsFollowLines /\ Phase
  BY StreamInvIs
<1>2. Asked(script, next) \in Nat /\ Len(answers) \in Nat /\ Len(answers) <= Len(executed)
      /\ Len(executed) \in Nat
  <2>1. Asked(script, next) \in Nat
    BY NextFacts, AskedType
  <2> QED BY <2>1, NextFacts
<1>3. Len(answers) <= Asked(script, next)
  BY <1>1, <1>2 DEF Phase, Idle, Pending, PendingIn
<1>4. \A k \in 1 .. Len(answers) : k \in 1 .. Len(executed)
  BY <1>2
<1> QED BY <1>1, <1>3, <1>4 DEF AnswersFollowCommands, CommandsFollowLines, CommandsAt

\* A client that waits for each answer, and whose lines arrive whole and fit the
\* buffer, reads from handleClient one answer for each line that is not blank,
\* in order and to that line, whatever the lines and however large the buffer.
THEOREM PoliteClientsAreAnswered == Spec => []PoliteAnswers
BY TypeCorrect, OneLineAtATime, InvPoliteAnswers, PTL
==============================================================================
