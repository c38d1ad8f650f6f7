----------------------------- MODULE CommandStream -----------------------------
(***************************************************************************)
(* One connection of the transaction server as bytes: the client writes    *)
(* lines, TCP hands them to recv() in segments, and handleClient           *)
(* (core/src/server.cpp) takes what one recv() returned for one command.   *)
(* The commands it finds are those TransactionServer executes; here the    *)
(* answer to a command is the command itself, or ERROR.                    *)
(*                                                                         *)
(* A line is a sequence of symbols: whole key words and names, single      *)
(* digits, and the separators.  Key words and names are never cut, which   *)
(* would give the same unknown words.                                      *)
(***************************************************************************)
EXTENDS Integers, SequencesExt

CONSTANTS Symbols,      \* what lines are made of
          Digits, Space, NewLine,  \* the digits and the separators among them
          Scripts,      \* what clients write: sequences of lines
          BufferSize    \* how many symbols one recv() can take

\* A line is what ends with a line end, and has no other.
ASSUME StreamAssumption ==
    /\ Digits \subseteq Symbols /\ {Space, NewLine} \subseteq Symbols \ Digits
    /\ {"PING", "BALANCE", "TRANSFER"} \subseteq Symbols \ (Digits \cup {Space, NewLine})
    /\ Space # NewLine /\ BufferSize \in Nat \ {0}
    /\ Scripts \subseteq Seq(Seq(Symbols))
    /\ \A lines \in Scripts : \A k \in 1 .. Len(lines) :
           /\ Len(lines[k]) > 0
           /\ \A i \in 1 .. Len(lines[k]) : lines[k][i] = NewLine <=> i = Len(lines[k])

VARIABLES script,    \* the lines of this client
          patient,   \* it waits for the answer to a line before it writes the next
          whole,     \* segments end where lines end
          next,      \* how many lines it has written
          stream,    \* what was written and not yet received
          buffer,    \* what the last recv() returned
          at,        \* where the worker is: recv, handle, send, gone
          executed,  \* the commands it has executed, in order
          answers,   \* the answers it has sent
          read,      \* how many of them a patient client has read
          present    \* the client's socket is open

client == <<script, patient, whole, next, read, present>>
worker == <<buffer, at, executed, answers>>
vars == <<client, worker, stream>>

------------------------------------------------------------------------------
(* Parsing *)

\* while (line.back() == '\n') line.pop_back(), and whether anything is left.
Blank(text) == ToSet(text) \subseteq {NewLine}

\* Mutant of Ignored: an empty line is a command too.
IgnoredNever(text) == FALSE

Ignored(text) == Blank(text)

\* How many symbols of S a text begins with.
Span(S) == [text \in Seq(Symbols) |->
    CHOOSE n \in 0 .. Len(text) :
        (\A i \in 1 .. n : text[i] \in S) /\ (n < Len(text) => text[n + 1] \notin S)]

Separators == {Space, NewLine}
Drop(text, n) == SubSeq(text, n + 1, Len(text))

\* operator>> skips separators, line ends among them, and takes what it can.
Extract(S) == [text \in Seq(Symbols) |->
    LET skipped == Drop(text, Span(Separators)[text])
        n == Span(S)[skipped]
    IN  [taken |-> SubSeq(skipped, 1, n), left |-> Drop(skipped, n)]]

Unknown == [op |-> "UNKNOWN"]

\* The first word is the command, and what follows its arguments is dropped.
Command(text) ==
    LET word   == Extract(Symbols \ Separators)[text]
        first  == Extract(Digits)[word.left]
        second == Extract(Digits)[first.left]
        third  == Extract(Digits)[second.left]
    IN  IF word.taken = <<"PING">> THEN [op |-> "PING"]
        ELSE IF word.taken = <<"BALANCE">> /\ first.taken # <<>>
             THEN [op |-> "BALANCE", account |-> first.taken]
        ELSE IF word.taken = <<"TRANSFER">> /\ <<>> \notin {first.taken, second.taken, third.taken}
             THEN [op |-> "TRANSFER", from |-> first.taken, to |-> second.taken,
                   amount |-> third.taken]
        ELSE Unknown

\* Mutant of AnswerTo: an unknown command leaves the response empty.
AnswerToKnown(cmd) == IF cmd = Unknown THEN <<>> ELSE <<cmd>>

\* What is sent for a command; nothing is, when the response is empty.
AnswerTo(cmd) == IF cmd = Unknown THEN <<[kind |-> "ERROR"]>> ELSE <<cmd>>

------------------------------------------------------------------------------
Init ==
    /\ script \in Scripts /\ patient \in BOOLEAN /\ whole \in BOOLEAN
    /\ next = 0 /\ stream = <<>> /\ read = 0 /\ present = TRUE
    /\ buffer = <<>> /\ at = "recv" /\ executed = <<>> /\ answers = <<>>

\* The commands the lines of a script say.
Said == [lines \in Scripts |-> [k \in 1 .. Len(lines) |-> Command(lines[k])]]

\* How many of the first n lines are not blank: a client expects an answer to each.
Asked(lines, n) == Cardinality({k \in 1 .. n : ~Blank(lines[k])})

WriteLine ==
    /\ present /\ next < Len(script)
    /\ patient => read >= Asked(script, next)
    /\ next' = next + 1
    /\ stream' = stream \o script[next + 1]
    /\ UNCHANGED <<script, patient, whole, read, present, worker>>

\* A patient client reads one answer; when the others read theirs is of no
\* consequence.
ReadAnswer ==
    /\ present /\ patient /\ read < Len(answers)
    /\ read' = read + 1
    /\ UNCHANGED <<script, patient, whole, next, present, worker, stream>>

Leave ==
    /\ present /\ present' = FALSE
    /\ UNCHANGED <<script, patient, whole, next, read, worker, stream>>

\* How much may have arrived.
Arrived == {n \in 1 .. Len(stream) : whole => stream[n] = NewLine}

\* Mutant of Received: the buffer is not cleared, and all of it is the line.
ReceivedOverOld(n) == SubSeq(stream, 1, n) \o SubSeq(buffer, n + 1, Len(buffer))

\* std::string line(buffer, n)
Received(n) == SubSeq(stream, 1, n)

\* recv() takes what has arrived, as far as the buffer goes.
Receive ==
    /\ at = "recv"
    /\ \E arrived \in Arrived :
           LET n == IF arrived < BufferSize THEN arrived ELSE BufferSize IN
           /\ buffer' = Received(n)
           /\ stream' = SubSeq(stream, n + 1, Len(stream))
    /\ at' = IF Ignored(buffer') THEN "recv" ELSE "handle"
    /\ UNCHANGED <<client, executed, answers>>

Handle ==
    /\ at = "handle"
    /\ executed' = Append(executed, Command(buffer))
    /\ at' = "send"
    /\ UNCHANGED <<client, stream, buffer, answers>>

Send ==
    /\ at = "send"
    /\ answers' = answers \o AnswerTo(Last(executed))
    /\ at' = "recv"
    /\ UNCHANGED <<client, stream, buffer, executed>>

\* recv() returns 0 once the client is gone and everything it wrote was taken.
HangUp ==
    /\ at = "recv" /\ ~present /\ stream = <<>>
    /\ at' = "gone"
    /\ UNCHANGED <<client, stream, buffer, executed, answers>>

Next == WriteLine \/ ReadAnswer \/ Leave \/ Receive \/ Handle \/ Send \/ HangUp

\* The worker's thread runs, and a client that stays reads and goes on.
Fairness ==
    WF_vars(Receive \/ Handle \/ Send \/ HangUp) /\ WF_vars(ReadAnswer) /\ WF_vars(WriteLine)

Spec == Init /\ [][Next]_vars /\ Fairness

------------------------------------------------------------------------------
(* Properties. *)

\* Every line fits the buffer, with the blank lines just before it.
Fits ==
    \A k \in 1 .. Len(script) : \A j \in 1 .. k :
        (\A i \in j .. k - 1 : Blank(script[i])) => (k - j) + Len(script[k]) <= BufferSize

\* A client that waits for its answers, and whose lines arrive whole and fit.
Polite == patient /\ whole /\ Fits

\* What a command can be, and an answer to it.
Number == Seq(Digits)
Executable ==
    [op : {"PING", "UNKNOWN"}] \cup [op : {"BALANCE"}, account : Number]
        \cup [op : {"TRANSFER"}, from : Number, to : Number, amount : Number]
Reply == Executable \cup [kind : {"ERROR"}]

\* Types of the variables; every command has its one answer once it is sent.
TypeOK ==
    /\ script \in Scripts /\ {patient, whole, present} \subseteq BOOLEAN
    /\ next \in 0 .. Len(script) /\ read \in 0 .. Len(answers)
    /\ stream \in Seq(Symbols) /\ buffer \in Seq(Symbols) /\ Len(buffer) <= BufferSize
    /\ executed \in Seq(Executable) /\ answers \in Seq(Reply)
    /\ at \in {"recv", "handle", "send", "gone"} /\ (at = "gone" => ~present)
    /\ Len(executed) = Len(answers) + (IF at = "send" THEN 1 ELSE 0)

\* A polite client reads one answer for each line it wrote that is not blank,
\* in their order and to that line.
PoliteAnswers ==
    Polite =>
        /\ Len(answers) <= Asked(script, next)
        /\ \A k \in 1 .. Len(answers) : \E n \in 1 .. next :
               ~Blank(script[n]) /\ Asked(script, n) = k /\ AnswerTo(Said[script][n]) = <<answers[k]>>

\* Lines say TRANSFER as their first word only, and start with no number.
PlainScripts ==
    \A lines \in Scripts : \A k \in 1 .. Len(lines) : \A i \in 1 .. Len(lines[k]) :
        /\ lines[k][i] = "TRANSFER" => i = 1
        /\ lines[k][i] \in Digits => \E h \in 1 .. i - 1 : lines[k][h] \notin Separators

\* However the stream is cut, a transfer that is executed is one the client
\* wrote: its own line, with its own accounts, once, and in order.  Its amount
\* may have lost digits, unless the client is polite.
Ordered(cmd, asked) ==
    IF Polite THEN cmd = asked
    ELSE asked.op = "TRANSFER" /\ IsPrefix(cmd.amount, asked.amount)
         /\ cmd = [asked EXCEPT !.amount = cmd.amount]

TransfersAreOrdered ==
    LET done == {k \in 1 .. Len(executed) : executed[k].op = "TRANSFER"} IN
    \E line \in [done -> 1 .. next] :
        /\ \A k \in done : Ordered(executed[k], Said[script][line[k]])
        /\ \A j, k \in done : j < k => line[j] < line[k]

\* Every command that is executed is answered, and a client that waits and
\* stays has each of its lines answered, in however many segments they arrive.
EveryLineAnswered ==
    patient ~> Len(answers) >= Asked(script, Len(script)) \/ ~present

\* A line behind j symbols of blank lines.
Behind(text, j, line) ==
    /\ Len(text) = j + Len(line)
    /\ \A i \in 1 .. j : text[i] = NewLine
    /\ \A i \in 1 .. Len(line) : text[j + i] = line[i]

\* All that a polite client was answered, and a few blank lines on their way.
Idle ==
    /\ Len(answers) = Asked(script, next)
    /\ Blank(stream) /\ Len(stream) <= next
    /\ \A i \in next - Len(stream) + 1 .. next : Blank(script[i])

\* The last line it wrote has no answer yet; the blank lines before it, if they
\* were not received, are still in front of it.
Pending == next > 0 /\ ~Blank(script[next]) /\ Len(answers) + 1 = Asked(script, next)
PendingIn(text) ==
    Pending /\ \E j \in 0 .. next - 1 :
        Behind(text, j, script[next]) /\ \A i \in next - j .. next - 1 : Blank(script[i])

\* Why PoliteAnswers holds: the commands are those of the lines, one by one, and
\* only one of them can be on its way.
StreamInv ==
    /\ \A k \in 1 .. Len(answers) : AnswerTo(executed[k]) = <<answers[k]>>
    /\ Polite =>
        /\ \A k \in 1 .. Len(executed) : \E n \in 1 .. next :
               ~Blank(script[n]) /\ Asked(script, n) = k /\ executed[k] = Said[script][n]
        /\ \/ at \in {"recv", "gone"} /\ Idle
           \/ at = "recv" /\ PendingIn(stream)
           \/ at = "handle" /\ stream = <<>> /\ PendingIn(buffer)
           \/ at = "send" /\ stream = <<>> /\ Pending

\* README.md:1243: the server receives "a command line from the customer": a
\* transfer is executed with the amount of its line, if the line fits the buffer.
TransfersAreWhole ==
    Fits => \A k \in 1 .. Len(executed) :
        executed[k].op = "TRANSFER" => \E n \in 1 .. next : executed[k] = Said[script][n]
==============================================================================
