-------------------------- MODULE CommandOrderProofs --------------------------
(***************************************************************************)
(* However the stream of CommandStream is cut, the transfers that are      *)
(* executed are lines of the client, each once and in order.  First what a *)
(* piece of a line says, compared with the whole line; then where in the   *)
(* script each symbol of the stream comes from.                            *)
(***************************************************************************)
EXTENDS CommandStreamProofs

------------------------------------------------------------------------------
(* Numbers read from a piece of a text and from the text. *)

\* x and y agree as far as both go, y ends a line, and what x has beyond it does
\* not start with a number.
Agree(x, y) ==
    /\ x \in Seq(Symbols) /\ y \in Seq(Symbols)
    /\ \A i \in 1 .. Len(x) : i <= Len(y) => x[i] = y[i]
    /\ Len(y) > 0 /\ y[Len(y)] = NewLine
    /\ \A q \in 1 .. Len(x) :
          q > Len(y) /\ x[q] \in Digits =>
              \E h \in 1 .. q - 1 : h > Len(y) /\ x[h] \notin Separators

LEMMA AgreeDrop ==
    ASSUME NEW x, NEW y, Agree(x, y), NEW c \in Nat, c <= Len(x), c < Len(y)
    PROVE  Agree(Drop(x, c), Drop(y, c))
<1>1. /\ x \in Seq(Symbols) /\ y \in Seq(Symbols) /\ Len(x) \in Nat /\ Len(y) \in Nat
      /\ \A i \in 1 .. Len(x) : i <= Len(y) => x[i] = y[i]
      /\ y[Len(y)] = NewLine
  BY LenProperties DEF Agree
<1>2. c \in 0 .. Len(x) /\ c \in 0 .. Len(y)
  BY <1>1
<1>3. /\ Drop(x, c) \in Seq(Symbols) /\ Len(Drop(x, c)) = Len(x) - c
      /\ \A i \in 1 .. Len(x) - c : Drop(x, c)[i] = x[c + i]
      /\ Drop(y, c) \in Seq(Symbols) /\ Len(Drop(y, c)) = Len(y) - c
      /\ \A i \in 1 .. Len(y) - c : Drop(y, c)[i] = y[c + i]
  BY <1>1, <1>2, TakeDrop
<1>4. ASSUME NEW i \in 1 .. Len(Drop(x, c)), i <= Len(Drop(y, c))
      PROVE  Drop(x, c)[i] = Drop(y, c)[i]
  <2>1. /\ i \in 1 .. Len(x) - c /\ i \in 1 .. Len(y) - c
        /\ c + i \in 1 .. Len(x) /\ c + i <= Len(y)
    BY <1>1, <1>2, <1>3, <1>4
  <2> QED BY <1>1, <1>3, <2>1
<1>5. Len(Drop(y, c)) > 0 /\ Drop(y, c)[Len(Drop(y, c))] = NewLine
  <2>1. Len(y) - c \in 1 .. Len(y) - c /\ c + (Len(y) - c) = Len(y) /\ Len(y) - c > 0
    BY <1>1, <1>2
  <2> QED BY <1>1, <1>3, <2>1
<1>6. ASSUME NEW q \in 1 .. Len(Drop(x, c)), q > Len(Drop(y, c)), Drop(x, c)[q] \in Digits
      PROVE  \E h \in 1 .. q - 1 : h > Len(Drop(y, c)) /\ Drop(x, c)[h] \notin Separators
  <2>1. /\ q \in 1 .. Len(x) - c /\ c + q \in 1 .. Len(x) /\ c + q > Len(y)
        /\ x[c + q] \in Digits
    BY <1>1, <1>2, <1>3, <1>6
  <2>2. PICK h \in 1 .. (c + q) - 1 : h > Len(y) /\ x[h] \notin Separators
    BY <2>1 DEF Agree
  <2>3. /\ h - c \in 1 .. q - 1 /\ h - c > Len(y) - c /\ h - c \in 1 .. Len(x) - c
        /\ c + (h - c) = h
    BY <1>1, <1>2, <2>1, <2>2
  <2>4. Drop(x, c)[h - c] \notin Separators
    BY <1>3, <2>2, <2>3
  <2> QED BY <1>3, <2>3, <2>4
<1> QED BY <1>3, <1>4, <1>5, <1>6 DEF Agree

\* b separators, and then n symbols of S, are what is read from a text.
Parts(text, S, b, n) ==
    /\ b \in Nat /\ n \in Nat /\ b + n <= Len(text)
    /\ Spans(text, Separators, b) /\ Spans(Drop(text, b), S, n)
    /\ Extract(S)[text].left = Drop(text, b + n)
    /\ Len(Extract(S)[text].taken) = n
    /\ \A i \in 1 .. n : Extract(S)[text].taken[i] = text[b + i]

LEMMA ExtractParts ==
    ASSUME NEW text \in Seq(Symbols), NEW S
    PROVE  \E b, n : Parts(text, S, b, n)
<1> DEFINE b == Span(Separators)[text]
           skipped == Drop(text, b)
           n == Span(S)[skipped]
<1>1. Spans(text, Separators, b) /\ Len(text) \in Nat
  BY SpanValue, LenProperties
<1>2. b \in 0 .. Len(text) /\ b \in Nat
  BY <1>1 DEF Spans
<1>3. /\ skipped \in Seq(Symbols) /\ Len(skipped) = Len(text) - b
      /\ \A i \in 1 .. Len(text) - b : skipped[i] = text[b + i]
  <2> HIDE DEF b
  <2> QED BY <1>2, TakeDrop
<1>4. Spans(skipped, S, n)
  <2> HIDE DEF skipped
  <2> QED BY <1>3, SpanValue
<1>5. Skipped(text) = skipped
  BY DEF Skipped
<1>6. Extract(S)[text].taken = Take(skipped, n) /\ Extract(S)[text].left = Drop(skipped, n)
  BY <1>5, ExtractValue
<1> HIDE DEF n
<1>7. n \in 0 .. Len(skipped) /\ n \in Nat /\ b + n <= Len(text)
  <2>1. n \in 0 .. Len(skipped)
    BY <1>4 DEF Spans
  <2> HIDE DEF skipped, b
  <2> QED BY <1>1, <1>2, <1>3, <2>1
<1>8. /\ Len(Take(skipped, n)) = n /\ \A i \in 1 .. n : Take(skipped, n)[i] = skipped[i]
      /\ Drop(skipped, n) \in Seq(Symbols) /\ Len(Drop(skipped, n)) = Len(skipped) - n
      /\ \A i \in 1 .. Len(skipped) - n : Drop(skipped, n)[i] = skipped[n + i]
  <2>1. skipped \in Seq(Symbols) /\ n \in 0 .. Len(skipped)
    BY <1>3, <1>7
  <2> HIDE DEF skipped, b
  <2> QED BY <2>1, TakeDrop
<1>9. Drop(skipped, n) = Drop(text, b + n)
  <2> HIDE DEF skipped, b
  <2>1. b + n \in 0 .. Len(text)
    BY <1>1, <1>2, <1>7
  <2>2. /\ Drop(text, b + n) \in Seq(Symbols) /\ Len(Drop(text, b + n)) = Len(text) - (b + n)
        /\ \A i \in 1 .. Len(text) - (b + n) : Drop(text, b + n)[i] = text[(b + n) + i]
    BY <2>1, TakeDrop
  <2>3. Len(Drop(skipped, n)) = Len(Drop(text, b + n))
    <3>1. (Len(text) - b) - n = Len(text) - (b + n)
      BY <1>1, <1>2, <1>7
    <3> QED BY <1>3, <1>8, <2>2, <3>1
  <2>4. ASSUME NEW i \in 1 .. Len(Drop(skipped, n)) PROVE Drop(skipped, n)[i] = Drop(text, b + n)[i]
    <3>1. /\ i \in 1 .. Len(skipped) - n /\ i \in 1 .. Len(text) - (b + n)
          /\ n + i \in 1 .. Len(text) - b /\ b + (n + i) = (b + n) + i
      BY <1>1, <1>2, <1>3, <1>7, <1>8
    <3> QED BY <1>3, <1>8, <2>2, <3>1
  <2> QED BY <1>8, <2>2, <2>3, <2>4, SeqEqual
<1>10. \A i \in 1 .. n : Take(skipped, n)[i] = text[b + i]
  <2> HIDE DEF skipped, b
  <2> SUFFICES ASSUME NEW i \in 1 .. n PROVE Take(skipped, n)[i] = text[b + i]
    OBVIOUS
  <2>1. i \in 1 .. Len(text) - b
    BY <1>1, <1>2, <1>7
  <2> QED BY <1>3, <1>8, <2>1
<1>11. Parts(text, S, b, n)
  <2> HIDE DEF b
  <2> QED BY <1>1, <1>2, <1>3, <1>4, <1>6, <1>7, <1>8, <1>9, <1>10 DEF Parts
<1> QED BY <1>11

\* A number read from a piece is a prefix of the one read from the whole, and the
\* same if anything is left of the piece.
LEMMA NumberOfPiece ==
    ASSUME NEW x, NEW y, Agree(x, y), Extract(Digits)[x].taken # <<>>
    PROVE  /\ Extract(Digits)[y].taken # <<>>
           /\ IsPrefix(Extract(Digits)[x].taken, Extract(Digits)[y].taken)
           /\ Extract(Digits)[x].left # <<>> =>
                 /\ Extract(Digits)[y].taken = Extract(Digits)[x].taken
                 /\ Agree(Extract(Digits)[x].left, Extract(Digits)[y].left)
<1> DEFINE X == Extract(Digits)[x]
           Y == Extract(Digits)[y]
<1>1. /\ x \in Seq(Symbols) /\ y \in Seq(Symbols) /\ Len(x) \in Nat /\ Len(y) \in Nat
      /\ \A i \in 1 .. Len(x) : i <= Len(y) => x[i] = y[i]
      /\ Len(y) > 0 /\ y[Len(y)] = NewLine
  BY LenProperties DEF Agree
<1>2. X.taken \in Seq(Digits) /\ Y.taken \in Seq(Digits)
  BY <1>1, ExtractType
<1>3. PICK b, n : Parts(x, Digits, b, n)
  BY <1>1, ExtractParts
<1>4. PICK c, m : Parts(y, Digits, c, m)
  BY <1>1, ExtractParts
<1>x. /\ b \in Nat /\ n \in Nat /\ b + n <= Len(x)
      /\ Spans(x, Separators, b) /\ Spans(Drop(x, b), Digits, n)
      /\ X.left = Drop(x, b + n) /\ Len(X.taken) = n
      /\ \A i \in 1 .. n : X.taken[i] = x[b + i]
  BY <1>3 DEF Parts
<1>y. /\ c \in Nat /\ m \in Nat /\ c + m <= Len(y)
      /\ Spans(y, Separators, c) /\ Spans(Drop(y, c), Digits, m)
      /\ Y.left = Drop(y, c + m) /\ Len(Y.taken) = m
      /\ \A i \in 1 .. m : Y.taken[i] = y[c + i]
  BY <1>4 DEF Parts
<1> b \in Nat /\ n \in Nat /\ c \in Nat /\ m \in Nat
  BY <1>x, <1>y
<1> HIDE DEF X, Y
<1>5. n > 0
  <2>1. X.taken # <<>>
    BY DEF X
  <2> QED BY <1>2, <1>x, <2>1, Empty
<1>6. /\ Len(Drop(x, b)) = Len(x) - b
      /\ \A i \in 1 .. Len(x) - b : Drop(x, b)[i] = x[b + i]
  <2>1. b \in 0 .. Len(x)
    BY <1>1, <1>x
  <2> QED BY <1>1, <2>1, TakeDrop
<1>7. /\ Len(Drop(y, c)) = Len(y) - c
      /\ \A i \in 1 .. Len(y) - c : Drop(y, c)[i] = y[c + i]
  <2>1. c \in 0 .. Len(y)
    BY <1>1, <1>y
  <2> QED BY <1>1, <2>1, TakeDrop
<1>8. /\ \A i \in 1 .. b : x[i] \in Separators
      /\ \A i \in 1 .. n : x[b + i] \in Digits
      /\ b + n < Len(x) => x[b + n + 1] \notin Digits
  <2>1. ASSUME NEW i \in 1 .. n PROVE x[b + i] \in Digits
    <3>1. i \in 1 .. Len(x) - b
      BY <1>1, <1>x
    <3> QED BY <1>x, <1>6, <3>1 DEF Spans
  <2>2. ASSUME b + n < Len(x) PROVE x[b + n + 1] \notin Digits
    <3>1. n < Len(x) - b /\ n + 1 \in 1 .. Len(x) - b /\ b + (n + 1) = b + n + 1
      BY <1>1, <1>x, <2>2
    <3> QED BY <1>x, <1>6, <3>1 DEF Spans
  <2> QED BY <1>x, <2>1, <2>2 DEF Spans
<1>9. b < Len(y)
  <2> SUFFICES ASSUME b >= Len(y) PROVE FALSE
    BY <1>1
  <2>1. b + 1 \in 1 .. Len(x) /\ b + 1 > Len(y) /\ x[b + 1] \in Digits
    BY <1>1, <1>x, <1>5, <1>8
  <2>2. PICK h \in 1 .. (b + 1) - 1 : x[h] \notin Separators
    BY <2>1 DEF Agree
  <2> QED BY <1>8, <2>2
<1>10. c = b
  <2>1. Spans(y, Separators, b)
    <3>1. b \in 0 .. Len(y)
      BY <1>9
    <3>2. ASSUME NEW i \in 1 .. b PROVE y[i] \in Separators
      <4>1. i \in 1 .. Len(x) /\ i <= Len(y)
        BY <1>1, <1>x, <1>9
      <4> QED BY <1>1, <1>8, <4>1
    <3>3. y[b + 1] \notin Separators
      <4>1. y[b + 1] = x[b + 1] /\ x[b + 1] \in Digits
        <5>1. b + 1 \in 1 .. Len(x) /\ b + 1 <= Len(y) /\ 1 \in 1 .. n
          BY <1>1, <1>x, <1>5, <1>9
        <5> QED BY <1>1, <1>8, <5>1
      <4> QED BY <4>1, StreamAssumption DEF Separators
    <3> QED BY <3>1, <3>2, <3>3 DEF Spans
  <2> QED BY <1>1, <1>y, <2>1, SpanUnique
<1>11. b + n < Len(y)
  <2> SUFFICES ASSUME b + n >= Len(y) PROVE FALSE
    BY <1>1
  <2>1. Len(y) - b \in 1 .. n /\ b + (Len(y) - b) = Len(y) /\ Len(y) \in 1 .. Len(x)
    BY <1>1, <1>x, <1>9
  <2>2. x[Len(y)] \in Digits /\ x[Len(y)] = NewLine
    BY <1>1, <1>8, <2>1
  <2> QED BY <2>2, StreamAssumption
<1>12. m >= n
  <2> SUFFICES ASSUME m < n PROVE FALSE
    OBVIOUS
  <2>1. m + 1 \in 1 .. n /\ m < Len(y) - b /\ m + 1 \in 1 .. Len(y) - b
        /\ b + (m + 1) \in 1 .. Len(x) /\ b + (m + 1) <= Len(y)
    BY <1>1, <1>x, <1>11
  <2>2. Drop(y, b)[m + 1] \notin Digits
    BY <1>y, <1>7, <1>10, <2>1 DEF Spans
  <2>3. Drop(y, b)[m + 1] = x[b + (m + 1)]
    BY <1>1, <1>7, <1>10, <2>1
  <2> QED BY <1>8, <2>1, <2>2, <2>3
<1>13. \A i \in 1 .. n : X.taken[i] = Y.taken[i]
  <2> SUFFICES ASSUME NEW i \in 1 .. n PROVE X.taken[i] = Y.taken[i]
    OBVIOUS
  <2>1. i \in 1 .. m /\ b + i \in 1 .. Len(x) /\ b + i <= Len(y)
    BY <1>1, <1>x, <1>11, <1>12
  <2> QED BY <1>1, <1>x, <1>y, <1>10, <2>1
<1>14. Y.taken # <<>>
  BY <1>y, <1>5, <1>12, EmptySeq
<1>15. IsPrefix(X.taken, Y.taken)
  <2>1. n \in 0 .. Len(X.taken) /\ n \in 0 .. Len(Y.taken)
    BY <1>x, <1>y, <1>12
  <2>2. /\ Take(X.taken, n) \in Seq(Digits) /\ Len(Take(X.taken, n)) = n
        /\ \A i \in 1 .. n : Take(X.taken, n)[i] = X.taken[i]
    BY <1>2, <2>1, TakeDrop
  <2>3. /\ Take(Y.taken, n) \in Seq(Digits) /\ Len(Take(Y.taken, n)) = n
        /\ \A i \in 1 .. n : Take(Y.taken, n)[i] = Y.taken[i]
    BY <1>2, <2>1, TakeDrop
  <2>4. Take(X.taken, n) = Take(Y.taken, n)
    BY <1>13, <2>2, <2>3, SeqEqual
  <2> QED BY <1>x, <1>y, <1>12, <2>4 DEF IsPrefix, Take
<1>16. ASSUME X.left # <<>> PROVE Y.taken = X.taken /\ Agree(X.left, Y.left)
  <2>1. b + n < Len(x)
    <3> SUFFICES ASSUME b + n = Len(x) PROVE FALSE
      BY <1>1, <1>x
    <3>1. b + n \in 0 .. Len(x)
      BY <1>1
    <3>2. Drop(x, b + n) \in Seq(Symbols) /\ Len(Drop(x, b + n)) = Len(x) - (b + n)
      BY <1>1, <3>1, TakeDrop
    <3>3. Len(Drop(x, b + n)) = 0
      BY <1>1, <3>2
    <3> QED BY <1>x, <1>16, <3>2, <3>3, Empty
  <2>2. m = n
    <3> SUFFICES ASSUME m > n PROVE FALSE
      BY <1>12
    <3>1. n + 1 \in 1 .. m /\ n + 1 \in 1 .. Len(y) - b
          /\ b + (n + 1) = b + n + 1 /\ b + n + 1 \in 1 .. Len(x) /\ b + n + 1 <= Len(y)
      BY <1>1, <1>y, <1>10, <1>11, <2>1
    <3>2. Drop(y, b)[n + 1] \in Digits
      BY <1>y, <1>10, <3>1 DEF Spans
    <3>3. Drop(y, b)[n + 1] = x[b + n + 1]
      BY <1>1, <1>7, <1>10, <3>1
    <3> QED BY <1>8, <2>1, <3>2, <3>3
  <2>3. Y.taken = X.taken
    BY <1>2, <1>x, <1>y, <1>13, <2>2, SeqEqual
  <2>4. Agree(Drop(x, b + n), Drop(y, b + n))
    <3>1. b + n \in Nat /\ b + n <= Len(x)
      BY <1>x
    <3> QED BY <1>11, <3>1, AgreeDrop
  <2> QED BY <1>x, <1>y, <1>10, <2>2, <2>3, <2>4
<1> QED BY <1>14, <1>15, <1>16 DEF X, Y

------------------------------------------------------------------------------
(* Where in the script the symbols of a text come from. *)

\* T is a piece of the first n lines, up to the end of a line: its i-th symbol is
\* the of[i]-th of line ln[i], and two symbols of one line are as far apart in T
\* as in the line.
Source(lines, n, T, ln, of, i) ==
    /\ ln[i] \in 1 .. n /\ of[i] \in 1 .. Len(lines[ln[i]])
    /\ T[i] = lines[ln[i]][of[i]]
    /\ Len(lines[ln[i]]) - of[i] <= Len(T) - i
Together(ln, of, i, j) == ln[i] = ln[j] /\ of[j] = of[i] + (j - i)
Apart(lines, ln, of, i, j) ==
    ln[i] < ln[j] /\ of[j] <= j - i /\ Len(lines[ln[i]]) - of[i] < j - i
Cut(lines, n, T, ln, of) ==
    /\ lines \in Scripts /\ n \in 0 .. Len(lines) /\ T \in Seq(Symbols)
    /\ \A i \in 1 .. Len(T) : Source(lines, n, T, ln, of, i)
    /\ \A i, j \in 1 .. Len(T) : i <= j => Together(ln, of, i, j) \/ Apart(lines, ln, of, i, j)

LEMMA CutTypes ==
    ASSUME NEW lines, NEW n, NEW T, NEW ln, NEW of, Cut(lines, n, T, ln, of)
    PROVE  /\ Len(T) \in Nat /\ Len(lines) \in Nat /\ n \in Nat
           /\ \A i \in 1 .. Len(T) :
                /\ ln[i] \in 1 .. Len(lines) /\ ln[i] \in Nat /\ of[i] \in Nat \ {0}
                /\ Len(lines[ln[i]]) \in Nat /\ of[i] <= Len(lines[ln[i]])
<1>1. Len(T) \in Nat /\ Len(lines) \in Nat
  BY LenProperties, Lines DEF Cut
<1>2. ASSUME NEW i \in 1 .. Len(T)
      PROVE  /\ ln[i] \in 1 .. Len(lines) /\ ln[i] \in Nat /\ of[i] \in Nat \ {0}
             /\ Len(lines[ln[i]]) \in Nat /\ of[i] <= Len(lines[ln[i]])
  <2>1. ln[i] \in 1 .. n /\ of[i] \in 1 .. Len(lines[ln[i]])
    BY DEF Cut, Source
  <2>2. ln[i] \in 1 .. Len(lines)
    BY <1>1, <2>1 DEF Cut
  <2>3. Len(lines[ln[i]]) \in Nat
    BY <2>2, Lines DEF Cut
  <2> QED BY <1>1, <2>1, <2>2, <2>3
<1> QED BY <1>1, <1>2 DEF Cut

\* The rest of a line follows, as far as it goes.
LEMMA CutForward ==
    ASSUME NEW lines, NEW n, NEW T, NEW ln, NEW of, Cut(lines, n, T, ln, of),
           NEW i \in 1 .. Len(T), NEW d \in Nat, of[i] + d <= Len(lines[ln[i]])
    PROVE  i + d \in 1 .. Len(T) /\ T[i + d] = lines[ln[i]][of[i] + d]
<1>1. Len(T) \in Nat /\ of[i] \in Nat /\ Len(lines[ln[i]]) \in Nat /\ i \in Nat
  BY CutTypes
<1>2. i + d \in 1 .. Len(T)
  <2>1. Len(lines[ln[i]]) - of[i] <= Len(T) - i
    BY DEF Cut, Source
  <2> QED BY <1>1, <2>1
<1>3. Together(ln, of, i, i + d)
  <2>1. ~Apart(lines, ln, of, i, i + d)
    BY <1>1 DEF Apart
  <2>2. i <= i + d
    BY <1>1
  <2> QED BY <1>2, <2>1, <2>2 DEF Cut
<1>4. ln[i + d] = ln[i] /\ of[i + d] = of[i] + d
  BY <1>1, <1>3 DEF Together
<1>5. T[i + d] = lines[ln[i + d]][of[i + d]]
  BY <1>2 DEF Cut, Source
<1> QED BY <1>2, <1>4, <1>5

\* What is before a symbol in its line is before it, as far as the text goes.
LEMMA CutBackward ==
    ASSUME NEW lines, NEW n, NEW T, NEW ln, NEW of, Cut(lines, n, T, ln, of),
           NEW i \in 1 .. Len(T), NEW h \in 1 .. of[i] - 1, of[i] - h < i
    PROVE  i - (of[i] - h) \in 1 .. i - 1 /\ T[i - (of[i] - h)] = lines[ln[i]][h]
<1> DEFINE d == of[i] - h
           g == i - d
<1>1. Len(T) \in Nat /\ of[i] \in Nat /\ i \in Nat /\ h \in Nat /\ d \in Nat /\ d > 0
  BY CutTypes
<1>2. g \in 1 .. i - 1 /\ g \in 1 .. Len(T) /\ i - g = d /\ g <= i /\ g \in Nat
  BY <1>1
<1>3. Together(ln, of, g, i)
  <2>1. d < of[i]
    BY <1>1
  <2>2. ~Apart(lines, ln, of, g, i)
    <3> HIDE DEF g, d
    <3> QED BY <1>1, <1>2, <2>1 DEF Apart
  <2> HIDE DEF g, d
  <2> QED BY <1>2, <2>2 DEF Cut
<1>4. of[g] \in Nat
  <2> HIDE DEF g
  <2> QED BY <1>2, CutTypes
<1>5. ln[g] = ln[i] /\ of[g] = h
  <2>1. ln[g] = ln[i] /\ of[i] = of[g] + (i - g)
    BY <1>3 DEF Together
  <2>2. of[i] = of[g] + d
    BY <1>2, <2>1
  <2>3. d = of[i] - h
    OBVIOUS
  <2>4. \A p, q \in Nat : p = q + (p - h) => q = h
    BY <1>1
  <2>5. of[g] = h
    BY <1>1, <1>4, <2>2, <2>4
  <2> QED BY <2>1, <2>5
<1>6. T[g] = lines[ln[g]][of[g]]
  <2> HIDE DEF g
  <2> QED BY <1>2 DEF Cut, Source
<1> QED BY <1>2, <1>5, <1>6

------------------------------------------------------------------------------
(* A transfer found in a piece of the script is that of a line. *)

\* The command asked for, except that its amount may have lost digits.
Shortened(cmd, asked) ==
    asked.op = "TRANSFER" /\ IsPrefix(cmd.amount, asked.amount)
        /\ cmd = [asked EXCEPT !.amount = cmd.amount]

\* The arguments of a text, if it is a transfer.
First(text)  == Extract(Symbols \ Separators)[text]
Second(text) == Extract(Digits)[First(text).left]
Third(text)  == Extract(Digits)[Second(text).left]
Fourth(text) == Extract(Digits)[Third(text).left]

LEMMA CommandIs ==
    ASSUME NEW text
    PROVE  Command(text).op = "TRANSFER" <=>
             /\ First(text).taken = <<"TRANSFER">>
             /\ <<>> \notin {Second(text).taken, Third(text).taken, Fourth(text).taken}
<1>1. Command(text) =
        IF First(text).taken = <<"PING">> THEN [op |-> "PING"]
        ELSE IF First(text).taken = <<"BALANCE">> /\ Second(text).taken # <<>>
             THEN [op |-> "BALANCE", account |-> Second(text).taken]
        ELSE IF First(text).taken = <<"TRANSFER">>
                  /\ <<>> \notin {Second(text).taken, Third(text).taken, Fourth(text).taken}
             THEN [op |-> "TRANSFER", from |-> Second(text).taken, to |-> Third(text).taken,
                   amount |-> Fourth(text).taken]
        ELSE Unknown
  BY DEF Command, First, Second, Third, Fourth
<1>2. <<"PING">> # <<"TRANSFER">> /\ <<"BALANCE">> # <<"TRANSFER">>
  OBVIOUS
<1> QED BY <1>1, <1>2 DEF Unknown

LEMMA TransferIs ==
    ASSUME NEW text, Command(text).op = "TRANSFER"
    PROVE  Command(text) = [op |-> "TRANSFER", from |-> Second(text).taken,
                            to |-> Third(text).taken, amount |-> Fourth(text).taken]
<1>1. /\ First(text).taken = <<"TRANSFER">>
      /\ <<>> \notin {Second(text).taken, Third(text).taken, Fourth(text).taken}
  BY CommandIs
<1>2. <<"PING">> # <<"TRANSFER">> /\ <<"BALANCE">> # <<"TRANSFER">>
  OBVIOUS
<1> QED BY <1>1, <1>2 DEF Command, First, Second, Third, Fourth

LEMMA NothingLeft ==
    ASSUME NEW text \in Seq(Symbols), NEW S, Extract(S)[text].taken # <<>> PROVE text # <<>>
<1> SUFFICES ASSUME text = <<>> PROVE FALSE
  OBVIOUS
<1>1. PICK b, n : Parts(text, S, b, n)
  BY ExtractParts
<1>2. n = 0
  BY <1>1, EmptySeq DEF Parts
<1>3. Extract(S)[text].taken \in Seq(S) /\ Len(Extract(S)[text].taken) = 0
  BY <1>1, <1>2, ExtractType DEF Parts
<1> QED BY <1>3, Empty

\* If what follows the first words agrees, so do the transfers.
LEMMA ArgumentsOfPiece ==
    ASSUME NEW x \in Seq(Symbols), NEW y \in Seq(Symbols), Command(x).op = "TRANSFER",
           First(y).taken = <<"TRANSFER">>, Agree(First(x).left, First(y).left)
    PROVE  Command(y).op = "TRANSFER" /\ Shortened(Command(x), Command(y))
<1>1. /\ Second(x).taken # <<>> /\ Third(x).taken # <<>> /\ Fourth(x).taken # <<>>
  BY CommandIs
<1>2. /\ First(x).left \in Seq(Symbols) /\ Second(x).left \in Seq(Symbols)
      /\ Third(x).left \in Seq(Symbols)
  <2>1. First(x).left \in Seq(Symbols)
    BY ExtractType DEF First
  <2>2. Second(x).left \in Seq(Symbols)
    BY <2>1, ExtractType DEF Second
  <2>3. Third(x).left \in Seq(Symbols)
    BY <2>2, ExtractType DEF Third
  <2> QED BY <2>1, <2>2, <2>3
<1>3. Second(x).left # <<>> /\ Third(x).left # <<>>
  BY <1>1, <1>2, NothingLeft DEF Third, Fourth
<1>4. /\ Second(y).taken # <<>> /\ Second(y).taken = Second(x).taken
      /\ Agree(Second(x).left, Second(y).left)
  BY <1>1, <1>3, NumberOfPiece DEF Second
<1>5. /\ Third(y).taken # <<>> /\ Third(y).taken = Third(x).taken
      /\ Agree(Third(x).left, Third(y).left)
  BY <1>1, <1>3, <1>4, NumberOfPiece DEF Third
<1>6. Fourth(y).taken # <<>> /\ IsPrefix(Fourth(x).taken, Fourth(y).taken)
  BY <1>1, <1>5, NumberOfPiece DEF Fourth
<1>7. Command(y).op = "TRANSFER"
  BY <1>4, <1>5, <1>6, CommandIs
<1>8. /\ Command(x) = [op |-> "TRANSFER", from |-> Second(x).taken,
                        to |-> Third(x).taken, amount |-> Fourth(x).taken]
      /\ Command(y) = [op |-> "TRANSFER", from |-> Second(y).taken,
                        to |-> Third(y).taken, amount |-> Fourth(y).taken]
  BY <1>7, TransferIs
<1>9. /\ Command(x).amount = Fourth(x).taken /\ Command(y).amount = Fourth(y).taken
      /\ Command(x) = [Command(y) EXCEPT !.amount = Fourth(x).taken]
  BY <1>4, <1>5, <1>8
<1> QED BY <1>6, <1>7, <1>9 DEF Shortened

\* After the end of a line no number comes first.
LEMMA NoNumberFirst ==
    ASSUME PlainScripts, NEW lines, NEW n, NEW T, NEW ln, NEW of, Cut(lines, n, T, ln, of),
           NEW e \in 1 .. Len(T), of[e] = Len(lines[ln[e]]),
           NEW q \in 1 .. Len(T), q > e, T[q] \in Digits
    PROVE  \E h \in 1 .. q - 1 : h > e /\ T[h] \notin Separators
<1>1. /\ Len(T) \in Nat /\ of[q] \in Nat /\ of[e] \in Nat /\ of[q] <= Len(lines[ln[q]])
      /\ ln[q] \in 1 .. Len(lines) /\ Len(lines[ln[q]]) \in Nat
  BY CutTypes
<1>2. lines \in Scripts /\ of[q] \in 1 .. Len(lines[ln[q]]) /\ lines[ln[q]][of[q]] \in Digits
  BY DEF Cut, Source
<1>3. PICK h \in 1 .. of[q] - 1 : lines[ln[q]][h] \notin Separators
  BY <1>1, <1>2 DEF PlainScripts
<1>4. of[q] <= q - e
  <2>1. e <= q
    BY <1>1
  <2>2. CASE Together(ln, of, e, q)
    BY <1>1, <2>2 DEF Together
  <2>3. CASE Apart(lines, ln, of, e, q)
    BY <2>3 DEF Apart
  <2> QED BY <2>1, <2>2, <2>3 DEF Cut
<1>5. of[q] - h < q
  BY <1>1, <1>4
<1>6. q - (of[q] - h) \in 1 .. q - 1 /\ T[q - (of[q] - h)] = lines[ln[q]][h]
  BY <1>5, CutBackward
<1>7. q - (of[q] - h) > e
  BY <1>1, <1>4
<1> QED BY <1>3, <1>6, <1>7

Wordly == Symbols \ Separators

\* The first word of a line that starts with the word.
LEMMA FirstOfLine ==
    ASSUME NEW line \in Seq(Symbols), Len(line) > 1, line[1] \in Wordly, line[2] \in Separators
    PROVE  First(line).taken = <<line[1]>> /\ First(line).left = Drop(line, 1)
<1>1. PICK b, n : Parts(line, Wordly, b, n)
  BY ExtractParts
<1>2. /\ b \in Nat /\ n \in Nat /\ b + n <= Len(line) /\ Len(line) \in Nat
      /\ Spans(line, Separators, b) /\ Spans(Drop(line, b), Wordly, n)
      /\ First(line).left = Drop(line, b + n) /\ Len(First(line).taken) = n
      /\ \A i \in 1 .. n : First(line).taken[i] = line[b + i]
  BY <1>1, LenProperties DEF Parts, First, Wordly
<1>3. b = 0
  <2>1. Spans(line, Separators, 0)
    BY <1>2 DEF Spans, Wordly
  <2> QED BY <1>2, <2>1, SpanUnique
<1>4. /\ Len(Drop(line, 0)) = Len(line)
      /\ \A i \in 1 .. Len(line) : Drop(line, 0)[i] = line[i]
  <2>1. 0 \in 0 .. Len(line)
    BY <1>2
  <2>2. /\ Len(Drop(line, 0)) = Len(line) - 0
        /\ \A i \in 1 .. Len(line) - 0 : Drop(line, 0)[i] = line[0 + i]
    BY <2>1, TakeDrop
  <2> QED BY <1>2, <2>2
<1>5. n = 1
  <2>1. Spans(Drop(line, 0), Wordly, 1)
    BY <1>2, <1>4 DEF Spans, Wordly
  <2>2. Len(Drop(line, 0)) \in Nat
    BY <1>2, <1>4
  <2> QED BY <1>2, <1>3, <2>1, <2>2, SpanUnique
<1>6. First(line).taken \in Seq(Wordly)
  BY ExtractType DEF First, Wordly
<1>7. First(line).taken = <<line[1]>>
  <2>1. First(line).taken[1] = line[1] /\ Len(First(line).taken) = 1
    BY <1>2, <1>3, <1>5
  <2> QED BY <1>6, <2>1
<1> QED BY <1>2, <1>3, <1>5, <1>7

LEMMA TransferOfPiece ==
    ASSUME PlainScripts, NEW lines, NEW n, NEW T, NEW ln, NEW of, Cut(lines, n, T, ln, of),
           NEW b \in 0 .. Len(T), Command(Take(T, b)).op = "TRANSFER"
    PROVE  \E p \in 1 .. b :
             /\ of[p] = 1
             /\ Command(lines[ln[p]]).op = "TRANSFER"
             /\ Shortened(Command(Take(T, b)), Command(lines[ln[p]]))
<1> DEFINE text == Take(T, b)
<1>1. /\ Len(T) \in Nat /\ b \in Nat /\ T \in Seq(Symbols)
      /\ text \in Seq(Symbols) /\ Len(text) = b
      /\ \A i \in 1 .. b : text[i] = T[i]
  BY CutTypes, TakeDrop DEF Cut
<1>2. Command(text).op = "TRANSFER"
  OBVIOUS
<1> HIDE DEF text
<1>3. /\ First(text).taken = <<"TRANSFER">>
      /\ Second(text).taken # <<>>
  BY <1>2, CommandIs
<1>4. PICK s, m : Parts(text, Wordly, s, m)
  BY <1>1, ExtractParts
<1>5. /\ s \in Nat /\ m \in Nat /\ s + m <= b
      /\ Spans(Drop(text, s), Wordly, m)
      /\ First(text).left = Drop(text, s + m) /\ Len(First(text).taken) = m
      /\ \A i \in 1 .. m : First(text).taken[i] = text[s + i]
  BY <1>1, <1>4 DEF Parts, First, Wordly
<1>6. m = 1 /\ text[s + 1] = "TRANSFER"
  BY <1>3, <1>5
<1> DEFINE p == s + 1
<1>7. /\ p \in 1 .. b /\ p \in 1 .. Len(T) /\ T[p] = "TRANSFER" /\ p \in Nat
      /\ First(text).left = Drop(text, p)
  BY <1>1, <1>5, <1>6
<1> HIDE DEF p
<1> DEFINE line == lines[ln[p]]
<1>8. /\ ln[p] \in 1 .. Len(lines) /\ of[p] \in 1 .. Len(line) /\ line[of[p]] = "TRANSFER"
      /\ lines \in Scripts
  BY <1>7, CutTypes DEF Cut, Source
<1>9. of[p] = 1
  BY <1>8 DEF PlainScripts
<1>10. /\ line \in Seq(Symbols) /\ Len(line) \in Nat \ {0}
       /\ \A i \in 1 .. Len(line) : line[i] = NewLine <=> i = Len(line)
  BY <1>8, Lines
<1>11. Len(line) > 1 /\ line[1] \in Wordly /\ line[1] = "TRANSFER" /\ line[Len(line)] = NewLine
  <2>1. line[1] = "TRANSFER"
    BY <1>8, <1>9
  <2>2. "TRANSFER" \in Wordly /\ "TRANSFER" # NewLine
    BY StreamAssumption DEF Wordly, Separators
  <2>3. Len(line) # 1
    BY <1>10, <2>1, <2>2
  <2> QED BY <1>10, <2>1, <2>2, <2>3
<1>12. p < b
  <2> SUFFICES ASSUME p = b PROVE FALSE
    BY <1>1, <1>7
  <2>1. p \in 0 .. Len(text)
    BY <1>1
  <2>2. Drop(text, p) \in Seq(Symbols) /\ Len(Drop(text, p)) = 0
    BY <1>1, <2>1, TakeDrop
  <2>3. Drop(text, p) # <<>>
    BY <1>3, <1>7, <2>2, NothingLeft DEF Second
  <2> QED BY <2>2, <2>3, Empty
\* The symbols of the line, from the word on, are those of the text.
<1>13. ASSUME NEW d \in Nat, 1 + d <= Len(line)
       PROVE  p + d \in 1 .. Len(T) /\ T[p + d] = line[1 + d]
  <2>1. of[p] + d <= Len(lines[ln[p]])
    BY <1>9, <1>13
  <2>2. p + d \in 1 .. Len(T) /\ T[p + d] = lines[ln[p]][of[p] + d]
    BY <1>7, <1>13, <2>1, CutForward
  <2> QED BY <1>9, <2>2
<1>14. line[2] \in Separators
  <2>1. s \in 0 .. Len(text) /\ p = s + 1
    BY <1>1, <1>5 DEF p
  <2>2. Drop(text, s)[2] = text[s + 2] /\ Len(Drop(text, s)) = b - s
    <3>1. /\ Len(Drop(text, s)) = Len(text) - s
          /\ \A i \in 1 .. Len(text) - s : Drop(text, s)[i] = text[s + i]
      BY <1>1, <2>1, TakeDrop
    <3>2. 2 \in 1 .. Len(text) - s
      BY <1>1, <1>5, <1>12, <2>1
    <3> QED BY <1>1, <3>1, <3>2
  <2>3. Drop(text, s)[1 + 1] \notin Wordly
    BY <1>1, <1>5, <1>6, <1>12, <2>1, <2>2 DEF Spans
  <2>4. text[s + 2] = T[p + 1] /\ text[s + 2] \in Symbols
    BY <1>1, <1>12, <2>1, ElementOfSeq
  <2>5. T[p + 1] = line[1 + 1]
    BY <1>10, <1>11, <1>13
  <2> QED BY <2>2, <2>3, <2>4, <2>5 DEF Wordly
<1>15. First(line).taken = <<"TRANSFER">> /\ First(line).left = Drop(line, 1)
  BY <1>10, <1>11, <1>14, FirstOfLine
<1>16. Agree(Drop(text, p), Drop(line, 1))
  <2> DEFINE x == Drop(text, p)
             y == Drop(line, 1)
             e == p + (Len(line) - 1)
  <2>1. /\ x \in Seq(Symbols) /\ Len(x) = b - p
        /\ \A i \in 1 .. b - p : x[i] = text[p + i]
    <3>1. p \in 0 .. Len(text)
      BY <1>1, <1>7
    <3> QED BY <1>1, <3>1, TakeDrop
  <2>2. /\ y \in Seq(Symbols) /\ Len(y) = Len(line) - 1
        /\ \A i \in 1 .. Len(line) - 1 : y[i] = line[1 + i]
    <3>1. 1 \in 0 .. Len(line)
      BY <1>10
    <3> HIDE DEF line
    <3> QED BY <1>10, <3>1, TakeDrop
  <2>3. \A i \in 1 .. b - p : x[i] = T[p + i]
    <3> SUFFICES ASSUME NEW i \in 1 .. b - p PROVE x[i] = T[p + i]
      OBVIOUS
    <3>1. p + i \in 1 .. b
      BY <1>1, <1>7
    <3> QED BY <1>1, <2>1, <3>1
  <2> HIDE DEF x, y, line
  <2>4. ASSUME NEW i \in 1 .. Len(x), i <= Len(y) PROVE x[i] = y[i]
    <3>1. i \in Nat /\ 1 + i <= Len(line) /\ i \in 1 .. b - p /\ i \in 1 .. Len(line) - 1
      BY <1>1, <1>7, <1>10, <2>1, <2>2, <2>4
    <3> QED BY <1>13, <2>2, <2>3, <3>1
  <2>5. Len(y) > 0 /\ y[Len(y)] = NewLine
    <3>1. Len(line) - 1 \in 1 .. Len(line) - 1 /\ 1 + (Len(line) - 1) = Len(line)
      BY <1>10, <1>11
    <3> QED BY <1>11, <2>2, <3>1
  <2>6. ASSUME NEW q \in 1 .. Len(x), q > Len(y), x[q] \in Digits
        PROVE  \E h \in 1 .. q - 1 : h > Len(y) /\ x[h] \notin Separators
    <3>1. /\ q \in 1 .. b - p /\ p + q \in 1 .. Len(T) /\ p + q > e /\ T[p + q] \in Digits
      BY <1>1, <1>7, <1>10, <2>1, <2>2, <2>3, <2>6
    <3>2. e \in 1 .. Len(T) /\ of[e] = Len(lines[ln[e]])
      <4>1. Len(line) - 1 \in Nat /\ 1 + (Len(line) - 1) = Len(line)
        BY <1>10
      <4>2. e \in 1 .. Len(T) /\ T[e] = line[Len(line)]
        <5>1. 1 + (Len(line) - 1) <= Len(line)
          BY <1>10
        <5> HIDE DEF e
        <5>2. /\ p + (Len(line) - 1) \in 1 .. Len(T)
              /\ T[p + (Len(line) - 1)] = line[1 + (Len(line) - 1)]
          BY <1>13, <4>1, <5>1
        <5> QED BY <4>1, <5>2 DEF e
      <4>3. T[e] = NewLine
        BY <1>11, <4>2
      <4>4. ln[e] \in 1 .. Len(lines) /\ of[e] \in 1 .. Len(lines[ln[e]])
            /\ lines[ln[e]][of[e]] = NewLine
        <5> HIDE DEF e
        <5> QED BY <4>2, <4>3, CutTypes DEF Cut, Source
      <4> HIDE DEF e
      <4> QED BY <1>8, <4>2, <4>4, Lines
    <3> HIDE DEF e
    <3>3. PICK h \in 1 .. (p + q) - 1 : h > e /\ T[h] \notin Separators
      BY <3>1, <3>2, NoNumberFirst
    <3>4. /\ h - p \in 1 .. q - 1 /\ h - p > Len(y) /\ h - p \in 1 .. b - p
          /\ p + (h - p) = h
      BY <1>1, <1>7, <1>10, <1>11, <2>2, <3>1, <3>3 DEF e
    <3>5. x[h - p] \notin Separators
      BY <2>3, <3>3, <3>4
    <3> QED BY <3>4, <3>5
  <2> QED BY <2>1, <2>2, <2>4, <2>5, <2>6 DEF Agree, x, y
<1>17. Command(line).op = "TRANSFER" /\ Shortened(Command(text), Command(line))
  <2> HIDE DEF line
  <2> QED BY <1>1, <1>2, <1>7, <1>10, <1>15, <1>16, ArgumentsOfPiece
<1> QED BY <1>7, <1>9, <1>17 DEF text

------------------------------------------------------------------------------
(* The transfers that are executed, and what was not handled yet. *)

\* The tail of T after m symbols comes from the same places.
TailOf(lines, n, T, ln, of, m, ln2, of2) ==
    /\ Cut(lines, n, Drop(T, m), ln2, of2)
    /\ \A i \in 1 .. Len(Drop(T, m)) :
         m + i \in 1 .. Len(T) /\ ln2[i] = ln[m + i] /\ of2[i] = of[m + i]

LEMMA CutDrop ==
    ASSUME NEW lines, NEW n, NEW T, NEW ln, NEW of, Cut(lines, n, T, ln, of), NEW m \in 0 .. Len(T)
    PROVE  \E ln2, of2 : TailOf(lines, n, T, ln, of, m, ln2, of2)
<1> DEFINE rest == Drop(T, m)
           ln2 == [i \in 1 .. Len(T) - m |-> ln[m + i]]
           of2 == [i \in 1 .. Len(T) - m |-> of[m + i]]
<1>1. /\ Len(T) \in Nat /\ m \in Nat /\ m <= Len(T)
      /\ rest \in Seq(Symbols) /\ Len(rest) = Len(T) - m
      /\ \A i \in 1 .. Len(T) - m : rest[i] = T[m + i]
  BY CutTypes, TakeDrop DEF Cut
<1>2. \A i \in 1 .. Len(T) - m : m + i \in 1 .. Len(T) /\ ln2[i] = ln[m + i] /\ of2[i] = of[m + i]
  BY <1>1
<1> HIDE DEF rest, ln2, of2
<1>3. ASSUME NEW i \in 1 .. Len(rest) PROVE Source(lines, n, rest, ln2, of2, i)
  <2>1. /\ i \in 1 .. Len(T) - m /\ m + i \in 1 .. Len(T) /\ ln2[i] = ln[m + i] /\ of2[i] = of[m + i]
    BY <1>1, <1>2
  <2>2. Source(lines, n, T, ln, of, m + i)
    BY <2>1 DEF Cut
  <2>3. Len(T) - (m + i) = Len(rest) - i
    BY <1>1
  <2> QED BY <1>1, <2>1, <2>2, <2>3 DEF Source
<1>4. ASSUME NEW i \in 1 .. Len(rest), NEW j \in 1 .. Len(rest), i <= j
      PROVE  Together(ln2, of2, i, j) \/ Apart(lines, ln2, of2, i, j)
  <2>1. /\ m + i \in 1 .. Len(T) /\ ln2[i] = ln[m + i] /\ of2[i] = of[m + i]
        /\ m + j \in 1 .. Len(T) /\ ln2[j] = ln[m + j] /\ of2[j] = of[m + j]
        /\ m + i <= m + j /\ (m + j) - (m + i) = j - i
    BY <1>1, <1>2, <1>4
  <2>2. Together(ln, of, m + i, m + j) \/ Apart(lines, ln, of, m + i, m + j)
    BY <2>1 DEF Cut
  <2>3. CASE Together(ln, of, m + i, m + j)
    BY <2>1, <2>3 DEF Together
  <2>4. CASE Apart(lines, ln, of, m + i, m + j)
    BY <2>1, <2>4 DEF Apart
  <2> QED BY <2>2, <2>3, <2>4
<1>5. Cut(lines, n, rest, ln2, of2)
  <2>1. lines \in Scripts /\ n \in 0 .. Len(lines)
    BY DEF Cut
  <2> QED BY <1>1, <1>3, <1>4, <2>1 DEF Cut
<1>6. TailOf(lines, n, T, ln, of, m, ln2, of2)
  BY <1>1, <1>2, <1>5 DEF TailOf, rest
<1> QED BY <1>6

LEMMA CutAppend ==
    ASSUME NEW lines, NEW n, NEW T, NEW ln, NEW of, Cut(lines, n, T, ln, of),
           n + 1 \in 1 .. Len(lines)
    PROVE  \E ln2, of2 :
             /\ Cut(lines, n + 1, T \o lines[n + 1], ln2, of2)
             /\ \A i \in 1 .. Len(T \o lines[n + 1]) :
                  IF i \in 1 .. Len(T) THEN ln2[i] = ln[i] /\ of2[i] = of[i] ELSE ln2[i] = n + 1
<1> DEFINE line == lines[n + 1]
           all == T \o line
           ln2 == [i \in 1 .. Len(T) + Len(line) |-> IF i <= Len(T) THEN ln[i] ELSE n + 1]
           of2 == [i \in 1 .. Len(T) + Len(line) |-> IF i <= Len(T) THEN of[i] ELSE i - Len(T)]
<1>1. /\ Len(T) \in Nat /\ n \in Nat /\ T \in Seq(Symbols) /\ lines \in Scripts
      /\ line \in Seq(Symbols) /\ Len(line) \in Nat \ {0}
  BY CutTypes, Lines DEF Cut
<1>2. /\ all \in Seq(Symbols) /\ Len(all) = Len(T) + Len(line)
      /\ \A i \in 1 .. Len(T) : all[i] = T[i]
      /\ \A i \in 1 .. Len(line) : all[Len(T) + i] = line[i]
  <2> HIDE DEF line
  <2> QED BY <1>1, Joined
<1>3. /\ \A i \in 1 .. Len(T) : ln2[i] = ln[i] /\ of2[i] = of[i] /\ i \in 1 .. Len(all)
      /\ \A i \in 1 .. Len(all) : i > Len(T) => ln2[i] = n + 1 /\ of2[i] = i - Len(T)
  <2> HIDE DEF line, all
  <2> QED BY <1>1, <1>2
<1> HIDE DEF all, ln2, of2
<1>4. ASSUME NEW i \in 1 .. Len(all) PROVE Source(lines, n + 1, all, ln2, of2, i)
  <2>1. CASE i \in 1 .. Len(T)
    <3>1. Source(lines, n, T, ln, of, i)
      BY <2>1 DEF Cut
    <3>2. ln[i] \in 1 .. n + 1
      BY <1>1, <3>1 DEF Source
    <3>3. Len(lines[ln[i]]) - of[i] <= Len(all) - i
      <4>1. Len(lines[ln[i]]) \in Nat /\ of[i] \in Nat
        BY <2>1, CutTypes
      <4> HIDE DEF line
      <4> QED BY <1>1, <1>2, <2>1, <3>1, <4>1 DEF Source
    <3> QED BY <1>2, <1>3, <2>1, <3>1, <3>2, <3>3 DEF Source
  <2>2. CASE i > Len(T)
    <3>1. ln2[i] = n + 1 /\ of2[i] = i - Len(T)
      BY <1>3, <2>2
    <3>2. i - Len(T) \in 1 .. Len(line) /\ Len(T) + (i - Len(T)) = i
      BY <1>1, <1>2, <2>2
    <3>3. all[i] = line[i - Len(T)]
      BY <1>2, <3>2
    <3>4. Len(line) - (i - Len(T)) <= Len(all) - i
      BY <1>1, <1>2, <3>2
    <3>5. n + 1 \in 1 .. n + 1
      BY <1>1
    <3> QED BY <3>1, <3>2, <3>3, <3>4, <3>5 DEF Source
  <2> QED BY <1>1, <2>1, <2>2
<1>5. ASSUME NEW i \in 1 .. Len(all), NEW j \in 1 .. Len(all), i <= j
      PROVE  Together(ln2, of2, i, j) \/ Apart(lines, ln2, of2, i, j)
  <2>1. CASE j \in 1 .. Len(T)
    <3>1. i \in 1 .. Len(T)
      BY <1>1, <1>5, <2>1
    <3>2. Together(ln, of, i, j) \/ Apart(lines, ln, of, i, j)
      BY <1>5, <2>1, <3>1 DEF Cut
    <3>3. ln2[i] = ln[i] /\ of2[i] = of[i] /\ ln2[j] = ln[j] /\ of2[j] = of[j]
      BY <1>3, <2>1, <3>1
    <3>4. CASE Together(ln, of, i, j)
      BY <3>3, <3>4 DEF Together
    <3>5. CASE Apart(lines, ln, of, i, j)
      BY <3>3, <3>5 DEF Apart
    <3> QED BY <3>2, <3>4, <3>5
  <2>2. CASE i \in 1 .. Len(T) /\ j > Len(T)
    <3>1. /\ ln2[i] = ln[i] /\ of2[i] = of[i] /\ ln2[j] = n + 1 /\ of2[j] = j - Len(T)
      BY <1>3, <2>2
    <3>2. Source(lines, n, T, ln, of, i) /\ Len(lines[ln[i]]) \in Nat /\ of[i] \in Nat /\ ln[i] \in Nat
      BY <2>2, CutTypes DEF Cut
    <3>3. ln[i] <= n /\ Len(lines[ln[i]]) - of[i] <= Len(T) - i
      BY <1>1, <3>2 DEF Source
    <3>4. ln[i] < n + 1 /\ Len(T) - i < j - i /\ j - Len(T) <= j - i
      BY <1>1, <2>2, <3>2, <3>3
    <3>5. Len(lines[ln[i]]) - of[i] < j - i
      BY <1>1, <2>2, <3>2, <3>3, <3>4
    <3> QED BY <3>1, <3>4, <3>5 DEF Apart
  <2>3. CASE i > Len(T) /\ j > Len(T)
    <3>1. /\ ln2[i] = n + 1 /\ of2[i] = i - Len(T) /\ ln2[j] = n + 1 /\ of2[j] = j - Len(T)
      BY <1>3, <2>3
    <3>2. j - Len(T) = (i - Len(T)) + (j - i)
      BY <1>1
    <3> QED BY <3>1, <3>2 DEF Together
  <2> QED BY <1>1, <1>5, <2>1, <2>2, <2>3
<1>6. Cut(lines, n + 1, all, ln2, of2)
  <2>1. n + 1 \in 0 .. Len(lines)
    BY <1>1
  <2> QED BY <1>1, <1>2, <1>4, <1>5, <2>1 DEF Cut
<1>7. \A i \in 1 .. Len(all) :
        IF i \in 1 .. Len(T) THEN ln2[i] = ln[i] /\ of2[i] = of[i] ELSE ln2[i] = n + 1
  BY <1>1, <1>3
<1> QED BY <1>6, <1>7 DEF all

\* L gives each transfer in ex its line; lines that still start in T come later.
Transfers(ex) == {k \in 1 .. Len(ex) : ex[k].op = "TRANSFER"}
Mapped(lines, n, ex, L) ==
    /\ L \in [Transfers(ex) -> 1 .. n]
    /\ \A k \in Transfers(ex) : Shortened(ex[k], Said[lines][L[k]])
    /\ \A j, k \in Transfers(ex) : j < k => L[j] < L[k]
Ahead(ex, T, L, ln, of) ==
    \A k \in Transfers(ex), i \in 1 .. Len(T) : of[i] = 1 => L[k] < ln[i]
OrderAt(lines, n, ex, T) ==
    \E L, ln, of : Mapped(lines, n, ex, L) /\ Cut(lines, n, T, ln, of) /\ Ahead(ex, T, L, ln, of)

LEMMA OrderDrop ==
    ASSUME NEW lines, NEW n, NEW ex, NEW T, OrderAt(lines, n, ex, T), NEW m \in 0 .. Len(T)
    PROVE  OrderAt(lines, n, ex, Drop(T, m))
<1>1. PICK L, ln, of :
        Mapped(lines, n, ex, L) /\ Cut(lines, n, T, ln, of) /\ Ahead(ex, T, L, ln, of)
  BY DEF OrderAt
<1>2. PICK ln2, of2 : TailOf(lines, n, T, ln, of, m, ln2, of2)
  BY <1>1, CutDrop
<1>3. Ahead(ex, Drop(T, m), L, ln2, of2)
  BY <1>1, <1>2 DEF Ahead, TailOf
<1> QED BY <1>1, <1>2, <1>3 DEF OrderAt, TailOf

LEMMA OrderAppend ==
    ASSUME NEW lines, NEW n, NEW ex, NEW T, OrderAt(lines, n, ex, T), n + 1 \in 1 .. Len(lines)
    PROVE  OrderAt(lines, n + 1, ex, T \o lines[n + 1])
<1> DEFINE all == T \o lines[n + 1]
<1>1. PICK L, ln, of :
        Mapped(lines, n, ex, L) /\ Cut(lines, n, T, ln, of) /\ Ahead(ex, T, L, ln, of)
  BY DEF OrderAt
<1>2. PICK ln2, of2 :
        /\ Cut(lines, n + 1, all, ln2, of2)
        /\ \A i \in 1 .. Len(all) :
             IF i \in 1 .. Len(T) THEN ln2[i] = ln[i] /\ of2[i] = of[i] ELSE ln2[i] = n + 1
  BY <1>1, CutAppend
<1> HIDE DEF all
<1>3. n \in Nat /\ Len(T) \in Nat
  BY <1>1, CutTypes
<1>4. L \in [Transfers(ex) -> 1 .. n]
  BY <1>1 DEF Mapped
<1>5. Mapped(lines, n + 1, ex, L)
  <2>1. 1 .. n \subseteq 1 .. n + 1
    BY <1>3
  <2>2. L \in [Transfers(ex) -> 1 .. n + 1]
    BY <1>4, <2>1
  <2> QED BY <1>1, <2>2 DEF Mapped
<1>6. Ahead(ex, all, L, ln2, of2)
  <2> SUFFICES ASSUME NEW k \in Transfers(ex), NEW i \in 1 .. Len(all), of2[i] = 1
               PROVE  L[k] < ln2[i]
    BY DEF Ahead
  <2>1. CASE i \in 1 .. Len(T)
    BY <1>1, <1>2, <2>1 DEF Ahead
  <2>2. CASE i \notin 1 .. Len(T)
    <3>1. ln2[i] = n + 1 /\ L[k] \in 1 .. n
      BY <1>2, <1>4, <2>2
    <3> QED BY <1>3, <3>1
  <2> QED BY <2>1, <2>2
<1> QED BY <1>2, <1>5, <1>6 DEF OrderAt, all

LEMMA OrderHandle ==
    ASSUME PlainScripts, NEW lines, NEW n, NEW ex \in Seq(Executable), NEW T,
           OrderAt(lines, n, ex, T), NEW b \in 0 .. Len(T)
    PROVE  OrderAt(lines, n, Append(ex, Command(Take(T, b))), Drop(T, b))
<1> DEFINE cmd == Command(Take(T, b))
           more == Append(ex, cmd)
           last == Len(ex) + 1
<1>1. PICK L, ln, of :
        Mapped(lines, n, ex, L) /\ Cut(lines, n, T, ln, of) /\ Ahead(ex, T, L, ln, of)
  BY DEF OrderAt
<1>2. PICK ln2, of2 : TailOf(lines, n, T, ln, of, b, ln2, of2)
  BY <1>1, CutDrop
<1>11. /\ Cut(lines, n, Drop(T, b), ln2, of2)
       /\ \A i \in 1 .. Len(Drop(T, b)) :
            b + i \in 1 .. Len(T) /\ ln2[i] = ln[b + i] /\ of2[i] = of[b + i]
  BY <1>2 DEF TailOf
<1>3. T \in Seq(Symbols) /\ Len(T) \in Nat /\ n \in Nat /\ b \in Nat /\ b <= Len(T) /\ n <= Len(lines)
      /\ lines \in Scripts /\ Len(lines) \in Nat
  BY <1>1, CutTypes DEF Cut
<1>4. cmd \in Executable
  BY <1>3, TakeDrop, CommandType
<1> HIDE DEF cmd
<1>5. /\ Len(more) = last /\ last \in Nat /\ Len(ex) \in Nat
      /\ \A k \in 1 .. Len(ex) : more[k] = ex[k]
      /\ more[last] = cmd
  BY <1>4, AppendProperties, LenProperties
<1> HIDE DEF more
<1>6. Transfers(more) = IF cmd.op = "TRANSFER" THEN Transfers(ex) \cup {last} ELSE Transfers(ex)
  <2>1. 1 .. last = 1 .. Len(ex) \cup {last}
    BY <1>5
  <2> QED BY <1>5, <2>1 DEF Transfers
<1>7. \A k \in Transfers(ex) : k \in 1 .. Len(ex) /\ k < last /\ more[k] = ex[k]
  BY <1>5 DEF Transfers
<1>8. L \in [Transfers(ex) -> 1 .. n]
  BY <1>1 DEF Mapped
<1>9. CASE cmd.op # "TRANSFER"
  <2>1. Transfers(more) = Transfers(ex)
    BY <1>6, <1>9
  <2>2. Mapped(lines, n, more, L)
    BY <1>1, <1>7, <2>1 DEF Mapped
  <2>3. Ahead(more, Drop(T, b), L, ln2, of2)
    BY <1>1, <1>11, <2>1 DEF Ahead
  <2> QED BY <1>11, <2>2, <2>3 DEF OrderAt, more, cmd
<1>10. CASE cmd.op = "TRANSFER"
  <2>1. PICK p \in 1 .. b :
          of[p] = 1 /\ Shortened(cmd, Command(lines[ln[p]]))
    BY <1>1, <1>10, TransferOfPiece DEF cmd
  <2>2. p \in 1 .. Len(T) /\ p \in Nat /\ p <= b
    BY <1>3
  <2>3. ln[p] \in 1 .. n
    BY <1>1, <2>2 DEF Cut, Source
  <2>4. Said[lines][ln[p]] = Command(lines[ln[p]])
    <3>1. ln[p] \in 1 .. Len(lines)
      BY <1>3, <2>3
    <3> QED BY <1>3, <3>1, SaidIs
  <2> DEFINE L2 == [k \in Transfers(more) |-> IF k = last THEN ln[p] ELSE L[k]]
  <2>5. Transfers(more) = Transfers(ex) \cup {last}
    BY <1>6, <1>10
  <2>6. /\ \A k \in Transfers(ex) : L2[k] = L[k]
        /\ L2[last] = ln[p]
    <3>1. \A k \in Transfers(ex) : k # last
      BY <1>5, <1>7
    <3> QED BY <2>5, <3>1
  <2>7. L2 \in [Transfers(more) -> 1 .. n]
    BY <1>8, <2>3, <2>5
  <2> HIDE DEF L2
  <2>8. \A k \in Transfers(ex) : L[k] < ln[p]
    BY <1>1, <2>1, <2>2 DEF Ahead
  <2>9. Mapped(lines, n, more, L2)
    <3>1. ASSUME NEW k \in Transfers(more) PROVE Shortened(more[k], Said[lines][L2[k]])
      <4>1. CASE k \in Transfers(ex)
        BY <1>1, <1>7, <2>6, <4>1 DEF Mapped
      <4>2. CASE k = last
        BY <1>5, <2>1, <2>4, <2>6, <4>2
      <4> QED BY <2>5, <4>1, <4>2
    <3>2. ASSUME NEW j \in Transfers(more), NEW k \in Transfers(more), j < k PROVE L2[j] < L2[k]
      <4>1. j # last
        BY <1>5, <1>7, <2>5, <3>2
      <4>2. CASE k \in Transfers(ex)
        BY <1>1, <2>5, <2>6, <3>2, <4>1, <4>2 DEF Mapped
      <4>3. CASE k = last
        BY <2>5, <2>6, <2>8, <4>1, <4>3
      <4> QED BY <2>5, <4>2, <4>3
    <3> QED BY <2>7, <3>1, <3>2 DEF Mapped
  <2>10. Ahead(more, Drop(T, b), L2, ln2, of2)
    <3> SUFFICES ASSUME NEW k \in Transfers(more), NEW i \in 1 .. Len(Drop(T, b)), of2[i] = 1
                 PROVE  L2[k] < ln2[i]
      BY DEF Ahead
    <3>1. /\ b + i \in 1 .. Len(T) /\ ln2[i] = ln[b + i] /\ of[b + i] = 1
      BY <1>11
    <3>2. i \in Nat /\ i > 0 /\ p <= b + i
      <4>1. Len(Drop(T, b)) \in Nat
        BY <1>11, CutTypes
      <4> QED BY <1>3, <2>2, <4>1
    <3>3. CASE k \in Transfers(ex)
      BY <1>1, <2>6, <3>1, <3>3 DEF Ahead
    <3>4. CASE k = last
      <4>1. ~Together(ln, of, p, b + i)
        BY <1>3, <2>1, <2>2, <3>1, <3>2 DEF Together
      <4>2. Apart(lines, ln, of, p, b + i)
        BY <1>1, <2>2, <3>1, <3>2, <4>1 DEF Cut
      <4> QED BY <2>6, <3>1, <3>4, <4>2 DEF Apart
    <3> QED BY <2>5, <3>3, <3>4
  <2> QED BY <1>11, <2>9, <2>10 DEF OrderAt, more, cmd
<1> QED BY <1>9, <1>10
------------------------------------------------------------------------------
(* The order of the transfers is kept by every step. *)

\* What was received and what was not, as far as no command was made of it.
Unhandled == IF at = "handle" THEN buffer \o stream ELSE stream
OrderInv == OrderAt(script, next, executed, Unhandled)

LEMMA JoinTakeDrop ==
    ASSUME NEW a \in Seq(Symbols), NEW b \in Seq(Symbols)
    PROVE  Len(a) \in 0 .. Len(a \o b) /\ Take(a \o b, Len(a)) = a /\ Drop(a \o b, Len(a)) = b
<1> DEFINE all == a \o b
           n == Len(a)
<1>1. /\ all \in Seq(Symbols) /\ Len(all) = n + Len(b) /\ n \in Nat /\ Len(b) \in Nat
      /\ \A i \in 1 .. n : all[i] = a[i]
      /\ \A i \in 1 .. Len(b) : all[n + i] = b[i]
  BY Joined, LenProperties
<1> HIDE DEF all
<1>2. n \in 0 .. Len(all) /\ Len(all) - n = Len(b)
  BY <1>1
<1>3. /\ Take(all, n) \in Seq(Symbols) /\ Len(Take(all, n)) = n
      /\ \A i \in 1 .. n : Take(all, n)[i] = all[i]
      /\ Drop(all, n) \in Seq(Symbols) /\ Len(Drop(all, n)) = Len(all) - n
      /\ \A i \in 1 .. Len(all) - n : Drop(all, n)[i] = all[n + i]
  <2>1. all \in Seq(Symbols) /\ n \in 0 .. Len(all)
    BY <1>1, <1>2
  <2> HIDE DEF n
  <2> QED BY <2>1, TakeDrop
<1>4. Take(all, n) = a
  BY <1>1, <1>3, SeqEqual
<1>5. Drop(all, n) = b
  BY <1>1, <1>2, <1>3, SeqEqual
<1> QED BY <1>2, <1>4, <1>5 DEF all

LEMMA TakeDropJoin ==
    ASSUME NEW text \in Seq(Symbols), NEW n \in 0 .. Len(text)
    PROVE  Take(text, n) \o Drop(text, n) = text
<1> DEFINE a == Take(text, n)
           b == Drop(text, n)
<1>1. /\ a \in Seq(Symbols) /\ Len(a) = n /\ \A i \in 1 .. n : a[i] = text[i]
      /\ b \in Seq(Symbols) /\ Len(b) = Len(text) - n
      /\ \A i \in 1 .. Len(text) - n : b[i] = text[n + i]
      /\ Len(text) \in Nat /\ n \in Nat
  <2>1. Len(text) \in Nat /\ n \in Nat
    BY LenProperties
  <2> QED BY <2>1, TakeDrop
<1> HIDE DEF a, b
<1>2. /\ a \o b \in Seq(Symbols) /\ Len(a \o b) = Len(a) + Len(b)
      /\ \A i \in 1 .. Len(a) : (a \o b)[i] = a[i]
      /\ \A i \in 1 .. Len(b) : (a \o b)[Len(a) + i] = b[i]
  <2>1. a \in Seq(Symbols) /\ b \in Seq(Symbols)
    BY <1>1
  <2> QED BY <2>1, Joined
<1>3. Len(a \o b) = Len(text)
  BY <1>1, <1>2
<1>4. ASSUME NEW i \in 1 .. Len(a \o b) PROVE (a \o b)[i] = text[i]
  <2>1. CASE i <= n
    <3>1. i \in 1 .. Len(a) /\ i \in 1 .. n
      BY <1>1, <2>1
    <3> QED BY <1>1, <1>2, <3>1
  <2>2. CASE i > n
    <3>1. i - n \in 1 .. Len(b) /\ i - n \in 1 .. Len(text) - n /\ n + (i - n) = i
      BY <1>1, <1>3, <2>2
    <3>2. (a \o b)[n + (i - n)] = text[n + (i - n)]
      BY <1>1, <1>2, <3>1
    <3> QED BY <3>1, <3>2
  <2> QED BY <1>1, <2>1, <2>2
<1>5. a \o b = text
  BY <1>2, <1>3, <1>4, SeqEqual
<1> QED BY <1>5 DEF a, b

LEMMA Joins ==
    ASSUME NEW a \in Seq(Symbols), NEW b \in Seq(Symbols), NEW c \in Seq(Symbols)
    PROVE  (a \o b) \o c = a \o (b \o c)
OBVIOUS

LEMMA InitOrder == Init => OrderInv
<1> SUFFICES ASSUME Init PROVE OrderInv
  OBVIOUS
<1> DEFINE none == [i \in {} |-> 0]
<1>1. /\ script \in Scripts /\ next = 0 /\ executed = <<>> /\ Unhandled = <<>>
  BY DEF Init, Unhandled
<1>2. Len(script) \in Nat
  BY <1>1, Lines
<1>3. Transfers(<<>>) = {} /\ 1 .. Len(<<>>) = {} /\ <<>> \in Seq(Symbols)
  BY EmptySeq DEF Transfers
<1>4. Mapped(script, 0, <<>>, none)
  BY <1>3 DEF Mapped
<1>5. Cut(script, 0, <<>>, none, none)
  BY <1>1, <1>2, <1>3 DEF Cut
<1>6. Ahead(<<>>, <<>>, none, none, none)
  BY <1>3 DEF Ahead
<1> HIDE DEF none
<1> QED BY <1>1, <1>4, <1>5, <1>6 DEF OrderInv, OrderAt

LEMMA WriteLineOrder == TypeOK /\ OrderInv /\ WriteLine => OrderInv'
<1> SUFFICES ASSUME TypeOK, OrderInv, WriteLine PROVE OrderInv'
  OBVIOUS
<1>1. /\ script' = script /\ next' = next + 1 /\ executed' = executed
      /\ stream' = stream \o script[next + 1] /\ at' = at /\ buffer' = buffer
      /\ next + 1 \in 1 .. Len(script)
  BY NextFacts DEF WriteLine, worker
<1>2. script[next + 1] \in Seq(Symbols) /\ stream \in Seq(Symbols) /\ buffer \in Seq(Symbols)
  BY <1>1, NextFacts, Lines
<1>3. Unhandled' = Unhandled \o script[next + 1]
  <2>1. (buffer \o stream) \o script[next + 1] = buffer \o (stream \o script[next + 1])
    BY <1>2, Joins
  <2>2. CASE at = "handle"
    <3>1. Unhandled' = buffer \o (stream \o script[next + 1]) /\ Unhandled = buffer \o stream
      BY <1>1, <2>2 DEF Unhandled
    <3> QED BY <2>1, <3>1
  <2>3. CASE at # "handle"
    BY <1>1, <2>3 DEF Unhandled
  <2> QED BY <2>2, <2>3
<1>4. OrderAt(script, next + 1, executed, Unhandled \o script[next + 1])
  BY <1>1, OrderAppend DEF OrderInv
<1> QED BY <1>1, <1>3, <1>4 DEF OrderInv

LEMMA ReceiveOrder == TypeOK /\ OrderInv /\ Receive => OrderInv'
<1> SUFFICES ASSUME TypeOK, OrderInv, Receive PROVE OrderInv'
  OBVIOUS
<1>1. PICK n \in 1 .. Len(stream) : buffer' = Take(stream, n) /\ stream' = Drop(stream, n)
  BY Piece DEF Receive
<1>2. n \in 0 .. Len(stream) /\ stream \in Seq(Symbols)
  BY NextFacts
<1>3. buffer' = Take(stream, n) /\ stream' = Drop(stream, n)
  BY <1>1
<1>4. /\ Unhandled = stream /\ at' \in {"recv", "handle"}
      /\ script' = script /\ next' = next /\ executed' = executed
  BY DEF Receive, Unhandled, client
<1>5. CASE at' = "handle"
  <2>1. Take(stream, n) \o Drop(stream, n) = stream
    BY <1>2, TakeDropJoin
  <2>2. Unhandled' = stream
    BY <1>3, <1>5, <2>1 DEF Unhandled
  <2> QED BY <1>4, <2>2 DEF OrderInv
<1>6. CASE at' = "recv"
  <2>1. Unhandled' = Drop(stream, n)
    BY <1>3, <1>6 DEF Unhandled
  <2>2. OrderAt(script, next, executed, Drop(stream, n))
    BY <1>2, <1>4, OrderDrop DEF OrderInv
  <2> QED BY <1>4, <2>1, <2>2 DEF OrderInv
<1> QED BY <1>4, <1>5, <1>6

LEMMA HandleOrder == PlainScripts /\ TypeOK /\ OrderInv /\ Handle => OrderInv'
<1> SUFFICES ASSUME PlainScripts, TypeOK, OrderInv, Handle PROVE OrderInv'
  OBVIOUS
<1> DEFINE T == buffer \o stream
           b == Len(buffer)
<1>1. /\ Unhandled = T /\ Unhandled' = stream
      /\ script' = script /\ next' = next /\ executed' = Append(executed, Command(buffer))
  BY DEF Handle, Unhandled, client
<1>2. buffer \in Seq(Symbols) /\ stream \in Seq(Symbols) /\ executed \in Seq(Executable)
  BY NextFacts DEF TypeOK
<1>3. b \in 0 .. Len(T) /\ Take(T, b) = buffer /\ Drop(T, b) = stream
  BY <1>2, JoinTakeDrop
<1>4. OrderAt(script, next, executed, T)
  BY <1>1 DEF OrderInv
<1> HIDE DEF T, b
<1>5. OrderAt(script, next, Append(executed, Command(Take(T, b))), Drop(T, b))
  BY <1>2, <1>3, <1>4, OrderHandle
<1> QED BY <1>1, <1>3, <1>5 DEF OrderInv

LEMMA NextOrder == PlainScripts /\ TypeOK /\ OrderInv /\ [Next]_vars => OrderInv'
<1> SUFFICES ASSUME PlainScripts, TypeOK, OrderInv, [Next]_vars PROVE OrderInv'
  OBVIOUS
<1>1. ASSUME UNCHANGED <<script, next, executed, stream>>, at # "handle", at' # "handle"
      PROVE  OrderInv'
  BY <1>1 DEF OrderInv, Unhandled
<1>2. ASSUME UNCHANGED <<script, next, executed, stream, at, buffer>> PROVE OrderInv'
  BY <1>2 DEF OrderInv, Unhandled
<1>3. CASE WriteLine
  BY <1>3, WriteLineOrder
<1>4. CASE Receive
  BY <1>4, ReceiveOrder
<1>5. CASE Handle
  BY <1>5, HandleOrder
<1>6. CASE ReadAnswer
  BY <1>2, <1>6 DEF ReadAnswer, worker
<1>7. CASE Leave
  BY <1>2, <1>7 DEF Leave, worker
<1>8. CASE Send
  BY <1>1, <1>8 DEF Send, client
<1>9. CASE HangUp
  BY <1>1, <1>9 DEF HangUp, client
<1>10. CASE UNCHANGED vars
  BY <1>2, <1>10 DEF vars, client, worker
<1> QED BY <1>3, <1>4, <1>5, <1>6, <1>7, <1>8, <1>9, <1>10 DEF Next

------------------------------------------------------------------------------
(* What a polite client wrote comes back as it was. *)

LEMMA AskedGrows ==
    ASSUME NEW lines, NEW m \in Nat, NEW n \in Nat, m <= n
    PROVE  Asked(lines, m) <= Asked(lines, n) /\ Asked(lines, m) \in Nat /\ Asked(lines, n) \in Nat
<1> DEFINE Full(i) == {k \in 1 .. i : ~Blank(lines[k])}
<1>1. Full(m) \subseteq Full(n)
  OBVIOUS
<1>2. IsFiniteSet(Full(n))
  <2>1. IsFiniteSet(1 .. n)
    BY FS_Interval
  <2> QED BY <2>1, FS_Subset
<1>3. Asked(lines, m) = Cardinality(Full(m)) /\ Asked(lines, n) = Cardinality(Full(n))
  BY DEF Asked
<1> HIDE DEF Full
<1> QED BY <1>1, <1>2, <1>3, FS_Subset, AskedType

LEMMA PoliteOrder == TypeOK /\ StreamInv /\ Polite => TransfersAreOrdered
<1> SUFFICES ASSUME TypeOK, StreamInv, Polite PROVE TransfersAreOrdered
  OBVIOUS
<1> DEFINE done == Transfers(executed)
           Is(k, n) == /\ ~Blank(script[n]) /\ Asked(script, n) = k
                       /\ executed[k] = Said[script][n]
           line == [k \in done |-> CHOOSE n \in 1 .. next : Is(k, n)]
<1>1. \A k \in done : \E n \in 1 .. next : Is(k, n)
  BY StreamInvIs DEF CommandsFollowLines, CommandsAt, Transfers
<1>2. \A k \in done : line[k] \in 1 .. next /\ Is(k, line[k])
  <2> SUFFICES ASSUME NEW k \in done PROVE line[k] \in 1 .. next /\ Is(k, line[k])
    OBVIOUS
  <2>1. \E n \in 1 .. next : Is(k, n)
    BY <1>1
  <2> HIDE DEF Is
  <2> QED BY <2>1
<1>3. line \in [done -> 1 .. next]
  BY <1>2
<1> HIDE DEF line
<1>4. ASSUME NEW k \in done PROVE Ordered(executed[k], Said[script][line[k]])
  BY <1>2 DEF Ordered
<1>5. ASSUME NEW j \in done, NEW k \in done, j < k PROVE line[j] < line[k]
  <2>1. line[j] \in Nat /\ line[k] \in Nat
    BY <1>2, NextFacts
  <2>2. Asked(script, line[j]) = j /\ Asked(script, line[k]) = k
    BY <1>2
  <2>3. SUFFICES ASSUME line[k] <= line[j] PROVE FALSE
    BY <2>1
  <2>4. k <= j
    BY <2>1, <2>2, <2>3, AskedGrows
  <2>5. j \in Nat /\ k \in Nat
    BY <2>1, <2>2, AskedGrows
  <2> QED BY <1>5, <2>4, <2>5
<1>6. done = {k \in 1 .. Len(executed) : executed[k].op = "TRANSFER"}
  BY DEF Transfers
<1> HIDE DEF done
<1> QED BY <1>3, <1>4, <1>5, <1>6 DEF TransfersAreOrdered

LEMMA InvTransfersAreOrdered == TypeOK /\ StreamInv /\ OrderInv => TransfersAreOrdered
<1> SUFFICES ASSUME TypeOK, OrderInv, ~Polite PROVE TransfersAreOrdered
  BY PoliteOrder
<1>1. PICK L : Mapped(script, next, executed, L)
  BY DEF OrderInv, OrderAt
<1>2. \A k \in Transfers(executed) : Ordered(executed[k], Said[script][L[k]])
  BY <1>1 DEF Mapped, Ordered, Shortened
<1> QED BY <1>1, <1>2 DEF TransfersAreOrdered, Mapped, Transfers

\* For every script whose lines are plain, however the connection cuts what the
\* client writes: handleClient (core/src/server.cpp) executes no transfer that is
\* not a line of the client, none twice and none before an earlier one, and a
\* client that waits for its answers has each done with the amount it wrote.
THEOREM TransfersKeepTheirOrder == PlainScripts => (Spec => []TransfersAreOrdered)
<1> SUFFICES ASSUME PlainScripts PROVE Spec => []TransfersAreOrdered
  OBVIOUS
<1> DEFINE Inv == TypeOK /\ StreamInv /\ OrderInv
<1>1. Init => Inv
  BY InitTypeOK, InitStreamInv, InitOrder
<1>2. TypeOK /\ [Next]_vars => TypeOK'
  BY WriteLineTypeOK, ReceiveTypeOK, HandleTypeOK, SendTypeOK, OtherTypeOK DEF Next
<1>3. Inv /\ [Next]_vars => Inv'
  BY <1>2, NextStreamInv, NextOrder
<1>4. Inv => TransfersAreOrdered
  BY InvTransfersAreOrdered
<1> QED BY <1>1, <1>3, <1>4, PTL DEF Spec
==============================================================================
