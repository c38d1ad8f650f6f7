--------------------------- MODULE MCCommandStream ---------------------------
(* Short scripts for TLC.  They are plain: a number that starts a line would *)
(* be taken for the last argument of the line in front of it, if that lacks  *)
(* one, and what follows TRANSFER within a line for a transfer of its own.   *)
EXTENDS CommandStream

SomeSymbols == {"PING", "BALANCE", "TRANSFER", "rent", "0", "1", "2", "sp", "nl"}

Line(words) == Append(words, "nl")
Ping == Line(<<"PING">>)
Pay(amount, rest) == Line(<<"TRANSFER", "sp", "1", "sp", "2", "sp">> \o amount \o rest)

\* Blank lines, a line with a description that is longer than the buffer, one
\* whose amount is missing, an unknown word, and the same transfer twice.
SomeScripts ==
    {<<Ping, Line(<<>>), Pay(<<"1", "0">>, <<>>)>>,
     <<Pay(<<"1">>, <<>>), Pay(<<"1">>, <<>>)>>,
     <<Pay(<<"1", "0", "0">>, <<"sp", "rent">>), Ping>>,
     <<Pay(<<>>, <<>>), Line(<<"rent">>), Line(<<"BALANCE", "sp", "2">>)>>}

ASSUME PlainScripts
==============================================================================
