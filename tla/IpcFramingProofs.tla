--------------------------- MODULE IpcFramingProofs ---------------------------
(***************************************************************************)
(* Proofs about IpcFraming, for a daemon with one writer thread (OneWriter): *)
(* the reader is never out of step with the frames, wherever the pipe and a  *)
(* death cut them, and the frames implement a channel of whole messages.     *)
(*                                                                          *)
(* What is inductive is about the tokens on their way, in the pipe or before *)
(* it: each follows from the one before, the first is what the reader waits  *)
(* for, and the last is where write_msg has come to.                         *)
(***************************************************************************)
EXTENDS IpcFraming, TLAPS, WellFoundedInduction

\* One herd per daemon, as today's UI has it (ui/start.rs): with two writer
\* threads the calls of their write_msg can interleave.
OneWriter == \A t, u \in Thread : t = u

OnTheWay == pipe \o stdout

\* Token l comes right after token k.
Follows(k, l) ==
    \/ k.kind = "length" /\ l.kind = "body" /\ l.at = 1 /\ l.of.size = k.size
    \/ IsLast(k) /\ l.kind = "length"
    \/ k.kind = "body" /\ ~ IsLast(k) /\ l.kind = "body" /\ l.of = k.of /\ l.at = k.at + 1

Chain(tokens) == \A i \in 1 .. Len(tokens) - 1 : Follows(tokens[i], tokens[i + 1])

\* Token l is what the reader can go on with.
Expected(l) ==
    \/ reader = "length" /\ l.kind = "length"
    \/ /\ reader = "body" /\ l.kind = "body"
       /\ l.of.size = wanted /\ l.at = Len(buf) + 1
       /\ buf # <<>> => l.of = buf[1].of

InStep ==
    /\ Chain(OnTheWay)
    /\ OnTheWay # <<>> => Expected(OnTheWay[1])
    /\ \A i \in DOMAIN OnTheWay :
          OnTheWay[i].kind = "length" => OnTheWay[i].size <= Limit

\* What the reader has of a body, and when it stops.
Holding ==
    /\ reader = "length" => buf = <<>>
    /\ reader = "body" => wanted \in Sizes /\ Len(buf) < wanted
    /\ \A i \in DOMAIN buf :
          buf[1].of \in Message /\ buf[1].of.size = wanted /\ buf[i] = Unit(buf[1].of, i)
    /\ reader = "dead" => daemon = "dead" /\ pipe = <<>>

\* Where the tokens end, in a message that is begun or between two.
Ends(t) ==
    IF pc[t] = "body"
    THEN IF OnTheWay = <<>> THEN reader = "body" /\ buf = <<>> /\ wanted = writing[t].size
                            ELSE OnTheWay[Len(OnTheWay)] = Length(writing[t])
    ELSE IF OnTheWay = <<>> THEN reader = "length"
                            ELSE IsLast(OnTheWay[Len(OnTheWay)])

Writing ==
    /\ writing \in [Thread -> Message \cup {NoMessage(t) : t \in Thread}]
    /\ \A t \in Thread :
          /\ pc[t] \in {"length", "body"} => writing[t] \in Message /\ writing[t].size <= Limit
          /\ daemon = "running" => Ends(t)
    /\ daemon = "dead" => stdout = <<>>

FramingInv == TypeOK /\ InStep /\ Holding /\ Writing

-----------------------------------------------------------------------------
(* Induction over the naturals, from the least element that a set of them has *)

LEMMA Least ==
    ASSUME NEW T, T \subseteq Nat, T # {}
    PROVE  \E x \in T : \A y \in T : x <= y
<1> DEFINE R == OpToRel(<, Nat)
<1>1. IsWellFoundedOn(R, Nat)
  BY NatLessThanWellFounded
<1> HIDE DEF R
<1>2. PICK x \in T : \A y \in T : ~ (<<y, x>> \in R)
  BY <1>1, WFMin
<1>3. \A y \in T : y < x => <<y, x>> \in R
  BY DEF R, OpToRel
<1>4. \A y \in T : ~ (y < x)
  BY <1>2, <1>3
<1>5. \A y \in T : x <= y
  BY <1>4
<1> QED BY <1>5

LEMMA Induction ==
    ASSUME NEW T, 0 \in T, \A n \in Nat : n \in T => n + 1 \in T
    PROVE  Nat \subseteq T
<1> SUFFICES ASSUME Nat \ T # {} PROVE FALSE
  OBVIOUS
<1>1. PICK x \in Nat \ T : \A y \in Nat \ T : x <= y
  BY Least
<1>2. x # 0 /\ x - 1 \in Nat /\ x - 1 \in T
  BY <1>1
<1>3. (x - 1) + 1 \in T
  BY <1>2
<1> QED BY <1>1, <1>2, <1>3

\* Induction over sequences, from their ends.
LEMMA Sequences ==
    ASSUME NEW Dom, NEW T, <<>> \in T,
           \A s \in Seq(Dom), e \in Dom : s \in T => Append(s, e) \in T
    PROVE  Seq(Dom) \subseteq T
<1> DEFINE U == {n \in Nat : \A s \in Seq(Dom) : Len(s) = n => s \in T}
<1>1. 0 \in U
  <2>1. \A s \in Seq(Dom) : Len(s) = 0 => s = <<>>
    OBVIOUS
  <2> QED BY <2>1
<1>2. ASSUME NEW n \in Nat, n \in U PROVE n + 1 \in U
  <2> SUFFICES ASSUME NEW s \in Seq(Dom), Len(s) = n + 1 PROVE s \in T
    OBVIOUS
  <2> DEFINE f == [i \in 1 .. n |-> s[i]]
  <2>1. f \in Seq(Dom) /\ Len(f) = n /\ s[n + 1] \in Dom
    OBVIOUS
  <2>2. Append(f, s[n + 1]) = s
    OBVIOUS
  <2>3. f \in T
    BY <1>2, <2>1
  <2> QED BY <2>1, <2>2, <2>3
<1>3. Nat \subseteq U
  <2> HIDE DEF U
  <2> QED BY <1>1, <1>2, Induction
<1> QED
  <2> SUFFICES ASSUME NEW s \in Seq(Dom) PROVE s \in T
    OBVIOUS
  <2>1. Len(s) \in U
    BY <1>3
  <2> QED BY <2>1

-----------------------------------------------------------------------------
(* The messages among tokens                                                 *)

\* What one more token makes of the messages so far.
With(messages, k) == IF IsLast(k) THEN Append(messages, k.of) ELSE messages

\* The function that Messages defines by recursion, up to m tokens.
FoundUpTo(of, tokens, m) ==
    of = [n \in 0 .. m |-> IF n = 0 THEN <<>> ELSE With(of[n - 1], tokens[n])]

LEMMA FoundExists ==
    ASSUME NEW tokens, NEW k \in Nat
    PROVE  \E of : FoundUpTo(of, tokens, k)
<1> DEFINE T == {m \in Nat : \E of : FoundUpTo(of, tokens, m)}
<1>1. 0 \in T
  <2> DEFINE f == [n \in 0 .. 0 |-> <<>>]
  <2>1. FoundUpTo(f, tokens, 0)
    BY DEF FoundUpTo
  <2> QED BY <2>1
<1>2. ASSUME NEW m \in Nat, m \in T PROVE m + 1 \in T
  <2>1. PICK f : FoundUpTo(f, tokens, m)
    BY <1>2
  <2> DEFINE g == [n \in 0 .. m + 1 |-> IF n = m + 1 THEN With(f[m], tokens[n]) ELSE f[n]]
             h == [n \in 0 .. m + 1 |-> IF n = 0 THEN <<>> ELSE With(g[n - 1], tokens[n])]
  <2>2. \A n \in 0 .. m + 1 : g[n] = h[n]
    <3> SUFFICES ASSUME NEW n \in 0 .. m + 1 PROVE g[n] = h[n]
      OBVIOUS
    <3>1. CASE n = m + 1
      <4>1. g[n - 1] = f[m] /\ n # 0
        BY <3>1
      <4> QED BY <3>1, <4>1
    <3>2. CASE n # m + 1
      <4>1. n \in 0 .. m /\ g[n] = f[n] /\ (n # 0 => g[n - 1] = f[n - 1])
        BY <3>2
      <4>2. f[n] = IF n = 0 THEN <<>> ELSE With(f[n - 1], tokens[n])
        BY <2>1, <4>1 DEF FoundUpTo
      <4> QED BY <4>1, <4>2
    <3> QED BY <3>1, <3>2
  <2>3. g = h
    BY <2>2
  <2>4. FoundUpTo(g, tokens, m + 1)
    BY <2>3 DEF FoundUpTo
  <2> QED BY <2>4
<1>3. Nat \subseteq T
  <2> HIDE DEF T
  <2> QED BY <1>1, <1>2, Induction
<1> QED BY <1>3

LEMMA MessagesOf ==
    ASSUME NEW tokens, Len(tokens) \in Nat
    PROVE  \E of : /\ Messages(tokens) = of[Len(tokens)]
                   /\ of[0] = <<>>
                   /\ \A n \in 1 .. Len(tokens) : of[n] = With(of[n - 1], tokens[n])
<1> DEFINE found == CHOOSE of : FoundUpTo(of, tokens, Len(tokens))
<1>1. FoundUpTo(found, tokens, Len(tokens))
  BY FoundExists
<1>2. Messages(tokens) = found[Len(tokens)]
  BY DEF Messages, FoundUpTo, With
<1> HIDE DEF found
<1>3. found[0] = <<>> /\ \A n \in 1 .. Len(tokens) : found[n] = With(found[n - 1], tokens[n])
  BY <1>1 DEF FoundUpTo
<1> QED BY <1>2, <1>3

LEMMA MessagesOfNone == Messages(<<>>) = <<>>
<1>1. Len(<<>>) = 0
  OBVIOUS
<1> QED BY <1>1, MessagesOf

LEMMA MessagesOfLonger ==
    ASSUME NEW s \in Seq(Token), NEW more \in Seq(Token),
           Len(more) = Len(s) + 1, \A n \in 1 .. Len(s) : more[n] = s[n]
    PROVE  Messages(more) = With(Messages(s), more[Len(more)])
<1>1. Len(s) \in Nat /\ Len(more) \in Nat
  OBVIOUS
<1>2. PICK f : /\ Messages(s) = f[Len(s)] /\ f[0] = <<>>
               /\ \A n \in 1 .. Len(s) : f[n] = With(f[n - 1], s[n])
  BY <1>1, MessagesOf
<1>3. PICK g : /\ Messages(more) = g[Len(more)] /\ g[0] = <<>>
               /\ \A n \in 1 .. Len(more) : g[n] = With(g[n - 1], more[n])
  BY <1>1, MessagesOf
<1> DEFINE m == Len(s)
           T == {n \in Nat : n <= m => f[n] = g[n]}
<1>4. 0 \in T
  BY <1>2, <1>3
<1>5. ASSUME NEW n \in Nat, n \in T PROVE n + 1 \in T
  <2> SUFFICES ASSUME n + 1 <= m PROVE f[n + 1] = g[n + 1]
    OBVIOUS
  <2>1. n + 1 \in 1 .. m /\ n + 1 \in 1 .. Len(more) /\ (n + 1) - 1 = n /\ f[n] = g[n]
    BY <1>1, <1>5
  <2> QED BY <1>2, <1>3, <2>1
<1>6. Nat \subseteq T
  <2> HIDE DEF T
  <2> QED BY <1>4, <1>5, Induction
<1>7. f[m] = g[m]
  BY <1>1, <1>6
<1>8. g[m + 1] = With(g[m], more[m + 1])
  <2>1. m + 1 \in 1 .. Len(more) /\ (m + 1) - 1 = m
    BY <1>1
  <2> QED BY <1>3, <2>1
<1> QED BY <1>2, <1>3, <1>7, <1>8

LEMMA MessagesOfOneMore ==
    ASSUME NEW s \in Seq(Token), NEW k \in Token
    PROVE  Messages(Append(s, k)) = With(Messages(s), k)
<1>1. /\ Append(s, k) \in Seq(Token) /\ Len(Append(s, k)) = Len(s) + 1
      /\ Append(s, k)[Len(Append(s, k))] = k
      /\ \A n \in 1 .. Len(s) : Append(s, k)[n] = s[n]
  OBVIOUS
<1> QED BY <1>1, MessagesOfLonger

\* A token of a body is the unit that it says it is.
LEMMA UnitOfBody ==
    ASSUME NEW k \in Token, k.kind = "body"
    PROVE  k.of \in Message /\ k.at \in Nat /\ k = Unit(k.of, k.at)
BY FramingAssumption DEF Token, Unit

LEMMA LastOfMessage ==
    ASSUME NEW k \in Token, IsLast(k)
    PROVE  k.kind = "body" /\ k.of \in Message
BY UnitOfBody DEF IsLast

LEMMA MessagesTyped == \A s \in Seq(Token) : Messages(s) \in Seq(Message)
<1> DEFINE T == {s \in Seq(Token) : Messages(s) \in Seq(Message)}
<1>1. <<>> \in T
  <2>1. <<>> \in Seq(Token) /\ <<>> \in Seq(Message)
    OBVIOUS
  <2> QED BY <2>1, MessagesOfNone
<1>2. ASSUME NEW s \in Seq(Token), NEW k \in Token, s \in T PROVE Append(s, k) \in T
  <2>1. Messages(Append(s, k)) = With(Messages(s), k) /\ Append(s, k) \in Seq(Token)
    BY MessagesOfOneMore
  <2>2. Messages(s) \in Seq(Message)
    BY <1>2
  <2>3. With(Messages(s), k) \in Seq(Message)
    BY <2>2, LastOfMessage DEF With
  <2> QED BY <2>1, <2>3
<1>3. Seq(Token) \subseteq T
  <2> HIDE DEF T
  <2> QED BY <1>1, <1>2, Sequences
<1> QED BY <1>3

LEMMA WithMoreBefore ==
    ASSUME NEW x \in Seq(Message), NEW y \in Seq(Message), NEW k \in Token
    PROVE  With(x \o y, k) = x \o With(y, k)
<1>1. CASE IsLast(k)
  <2>1. k.of \in Message
    BY <1>1, LastOfMessage
  <2>2. Append(x \o y, k.of) = x \o Append(y, k.of)
    BY <2>1
  <2> QED BY <1>1, <2>2 DEF With
<1>2. CASE ~ IsLast(k)
  BY <1>2 DEF With
<1> QED BY <1>1, <1>2

LEMMA MessagesOfBoth ==
    ASSUME NEW a \in Seq(Token)
    PROVE  \A b \in Seq(Token) : Messages(a \o b) = Messages(a) \o Messages(b)
<1> DEFINE T == {b \in Seq(Token) : Messages(a \o b) = Messages(a) \o Messages(b)}
<1>1. <<>> \in T
  <2>1. a \o <<>> = a /\ <<>> \in Seq(Token)
    OBVIOUS
  <2>2. Messages(a) \o <<>> = Messages(a)
    <3>1. PICK x \in Seq(Message) : x = Messages(a)
      BY MessagesTyped
    <3>2. x \o <<>> = x
      OBVIOUS
    <3> QED BY <3>1, <3>2
  <2> QED BY <2>1, <2>2, MessagesOfNone
<1>2. ASSUME NEW b \in Seq(Token), NEW k \in Token, b \in T PROVE Append(b, k) \in T
  <2>1. a \o b \in Seq(Token) /\ a \o Append(b, k) = Append(a \o b, k) /\ Append(b, k) \in Seq(Token)
    OBVIOUS
  <2>2. Messages(Append(a \o b, k)) = With(Messages(a \o b), k)
    BY <2>1, MessagesOfOneMore
  <2>3. Messages(Append(b, k)) = With(Messages(b), k)
    BY MessagesOfOneMore
  <2>4. Messages(a \o b) = Messages(a) \o Messages(b)
    BY <1>2
  <2>5. PICK x \in Seq(Message), y \in Seq(Message) : x = Messages(a) /\ y = Messages(b)
    BY MessagesTyped
  <2>6. With(x \o y, k) = x \o With(y, k)
    BY <2>5, WithMoreBefore
  <2> QED BY <2>1, <2>2, <2>3, <2>4, <2>5, <2>6
<1>3. Seq(Token) \subseteq T
  <2> HIDE DEF T
  <2> QED BY <1>1, <1>2, Sequences
<1> QED BY <1>3

LEMMA MessagesOfFirst ==
    ASSUME NEW s \in Seq(Token), s # <<>>
    PROVE  Messages(s) = With(<<>>, Head(s)) \o Messages(Tail(s))
<1>1. /\ Head(s) \in Token /\ Tail(s) \in Seq(Token)
      /\ <<Head(s)>> \in Seq(Token) /\ s = <<Head(s)>> \o Tail(s)
  OBVIOUS
<1>2. Append(<<>>, Head(s)) = <<Head(s)>> /\ <<>> \in Seq(Token)
  OBVIOUS
<1>3. Messages(<<Head(s)>>) = With(<<>>, Head(s))
  BY <1>1, <1>2, MessagesOfOneMore, MessagesOfNone
<1>4. Messages(<<Head(s)>> \o Tail(s)) = Messages(<<Head(s)>>) \o Messages(Tail(s))
  BY <1>1, MessagesOfBoth
<1> QED BY <1>1, <1>3, <1>4

LEMMA MessagesOfNoLast ==
    \A s \in Seq(Token) : (\A i \in 1 .. Len(s) : ~ IsLast(s[i])) => Messages(s) = <<>>
<1> DEFINE T == {s \in Seq(Token) :
                   (\A i \in 1 .. Len(s) : ~ IsLast(s[i])) => Messages(s) = <<>>}
<1>1. <<>> \in T
  BY MessagesOfNone
<1>2. ASSUME NEW s \in Seq(Token), NEW k \in Token, s \in T PROVE Append(s, k) \in T
  <2> DEFINE a == Append(s, k)
  <2>1. /\ a \in Seq(Token) /\ Len(s) \in Nat /\ Len(a) = Len(s) + 1 /\ a[Len(s) + 1] = k
        /\ \A i \in 1 .. Len(s) : a[i] = s[i]
    OBVIOUS
  <2>2. Messages(a) = With(Messages(s), k)
    BY MessagesOfOneMore
  <2> HIDE DEF a
  <2>3. ASSUME \A i \in 1 .. Len(a) : ~ IsLast(a[i]) PROVE Messages(a) = <<>>
    <3>1. ~ IsLast(k)
      BY <2>1, <2>3
    <3>2. \A i \in 1 .. Len(s) : ~ IsLast(s[i])
      BY <2>1, <2>3
    <3>3. Messages(s) = <<>>
      BY <3>2, <1>2
    <3> QED BY <2>2, <3>1, <3>3 DEF With
  <2> QED BY <2>1, <2>3 DEF a
<1>3. Seq(Token) \subseteq T
  <2> HIDE DEF T
  <2> QED BY <1>1, <1>2, Sequences
<1> QED BY <1>3

LEMMA BodyFacts ==
    ASSUME NEW m \in Message
    PROVE  /\ m.size \in Nat \ {0} /\ m.size \in Sizes
           /\ Body(m) \in Seq(Token) /\ Len(Body(m)) = m.size
           /\ \A i \in 1 .. m.size : Body(m)[i] = Unit(m, i)
<1>1. m.size \in Sizes /\ m.size \in Nat \ {0}
  BY FramingAssumption DEF Message
<1>2. \A i \in 1 .. m.size : Unit(m, i) \in Token
  BY <1>1 DEF Token, Unit
<1>3. Body(m) \in [1 .. m.size -> Token]
  BY <1>2 DEF Body
<1>4. Body(m) \in Seq(Token) /\ Len(Body(m)) = m.size
  BY <1>1, <1>3
<1> QED BY <1>1, <1>4 DEF Body

LEMMA MessageOfBody ==
    ASSUME NEW m \in Message
    PROVE  Messages(Body(m)) = <<m>>
<1> DEFINE n == m.size - 1
           front == [i \in 1 .. n |-> Unit(m, i)]
<1>1. n \in Nat /\ m.size = n + 1
  BY BodyFacts
<1>2. \A i \in 1 .. m.size : Unit(m, i) \in Token
  BY BodyFacts
<1>3. front \in Seq(Token) /\ Len(front) = n
  BY <1>1, <1>2
<1>4. \A i \in 1 .. Len(front) : ~ IsLast(front[i])
  BY <1>1, <1>3 DEF IsLast, Unit
<1>5. Body(m)[Len(Body(m))] = Unit(m, m.size) /\ Len(Body(m)) = Len(front) + 1
  BY <1>1, <1>3, BodyFacts
<1>6. \A i \in 1 .. Len(front) : Body(m)[i] = front[i]
  BY <1>1, <1>3, BodyFacts
<1>7. Messages(front) = <<>>
  BY <1>3, <1>4, MessagesOfNoLast
<1>8. Messages(Body(m)) = With(Messages(front), Unit(m, m.size))
  <2> DEFINE b == Body(m)
  <2>1. b \in Seq(Token) /\ Len(b) = Len(front) + 1 /\ b[Len(b)] = Unit(m, m.size)
    BY <1>5, BodyFacts
  <2>2. \A i \in 1 .. Len(front) : b[i] = front[i]
    BY <1>6
  <2> HIDE DEF b, front
  <2>3. Messages(b) = With(Messages(front), b[Len(b)])
    BY <1>3, <2>1, <2>2, MessagesOfLonger
  <2> QED BY <2>1, <2>3 DEF b
<1>9. IsLast(Unit(m, m.size)) /\ Unit(m, m.size).of = m
  BY DEF IsLast, Unit
<1>10. With(<<>>, Unit(m, m.size)) = Append(<<>>, m)
  BY <1>9 DEF With
<1>11. Append(<<>>, m) = <<m>>
  OBVIOUS
<1> QED BY <1>7, <1>8, <1>10, <1>11

-----------------------------------------------------------------------------
(* Tokens in their order                                                     *)

LEMMA JoinThree ==
    ASSUME NEW a \in Seq(Token), NEW b \in Seq(Token), NEW c \in Seq(Token)
    PROVE  a \o (b \o c) = (a \o b) \o c
OBVIOUS

LEMMA PassOn ==
    ASSUME NEW a \in Seq(Token), NEW b \in Seq(Token), b # <<>>
    PROVE  /\ Append(a, Head(b)) \o Tail(b) = a \o b
           /\ Append(a, Head(b)) \in Seq(Token) /\ Tail(b) \in Seq(Token)
           /\ Len(Append(a, Head(b))) = Len(a) + 1
<1>1. Head(b) \in Token /\ Tail(b) \in Seq(Token) /\ b = <<Head(b)>> \o Tail(b)
      /\ <<Head(b)>> \in Seq(Token) /\ Append(a, Head(b)) = a \o <<Head(b)>>
  OBVIOUS
<1>2. a \o (<<Head(b)>> \o Tail(b)) = (a \o <<Head(b)>>) \o Tail(b)
  BY <1>1, JoinThree
<1>3. Append(a, Head(b)) \in Seq(Token) /\ Len(Append(a, Head(b))) = Len(a) + 1
  BY <1>1
<1> QED BY <1>1, <1>2, <1>3

LEMMA ChainBoth ==
    ASSUME NEW a \in Seq(Token), NEW b \in Seq(Token), Chain(a), Chain(b),
           a # <<>> /\ b # <<>> => Follows(a[Len(a)], b[1])
    PROVE  Chain(a \o b)
<1> DEFINE s == a \o b
<1>1. /\ Len(a) \in Nat /\ Len(b) \in Nat /\ Len(s) = Len(a) + Len(b)
      /\ \A i \in 1 .. Len(a) : s[i] = a[i]
      /\ \A i \in 1 .. Len(b) : s[Len(a) + i] = b[i]
      /\ (a # <<>> <=> Len(a) > 0) /\ (b # <<>> <=> Len(b) > 0)
  OBVIOUS
<1> HIDE DEF s
<1> SUFFICES ASSUME NEW i \in 1 .. Len(s) - 1 PROVE Follows(s[i], s[i + 1])
  BY DEF Chain, s
<1>2. CASE i < Len(a)
  <2>1. i \in 1 .. Len(a) - 1 /\ s[i] = a[i] /\ s[i + 1] = a[i + 1]
    BY <1>1, <1>2
  <2> QED BY <2>1 DEF Chain
<1>3. CASE i = Len(a)
  <2>1. s[i] = a[Len(a)] /\ s[i + 1] = b[1] /\ a # <<>> /\ b # <<>>
    BY <1>1, <1>3
  <2> QED BY <2>1
<1>4. CASE i > Len(a)
  <2> DEFINE j == i - Len(a)
  <2>1. j \in 1 .. Len(b) - 1 /\ i = Len(a) + j /\ i + 1 = Len(a) + (j + 1)
    BY <1>1, <1>4
  <2> HIDE DEF j
  <2>2. s[i] = b[j] /\ s[i + 1] = b[j + 1]
    BY <1>1, <2>1
  <2> QED BY <2>1, <2>2 DEF Chain
<1> QED BY <1>1, <1>2, <1>3, <1>4

LEMMA ChainOne ==
    ASSUME NEW s \in Seq(Token), NEW k \in Token, Chain(s),
           s # <<>> => Follows(s[Len(s)], k)
    PROVE  Chain(Append(s, k))
<1>1. <<k>> \in Seq(Token) /\ Append(s, k) = s \o <<k>> /\ <<k>>[1] = k /\ Len(<<k>>) = 1
  OBVIOUS
<1>2. Chain(<<k>>)
  BY <1>1 DEF Chain
<1> QED BY <1>1, <1>2, ChainBoth

LEMMA ChainOfFirst ==
    ASSUME NEW a \in Seq(Token), NEW b \in Seq(Token), Chain(a \o b)
    PROVE  Chain(a)
<1>1. /\ Len(a) \in Nat /\ Len(b) \in Nat /\ Len(a \o b) = Len(a) + Len(b)
      /\ \A i \in 1 .. Len(a) : (a \o b)[i] = a[i]
  OBVIOUS
<1> SUFFICES ASSUME NEW i \in 1 .. Len(a) - 1 PROVE Follows(a[i], a[i + 1])
  BY DEF Chain
<1>2. /\ i \in 1 .. Len(a \o b) - 1
      /\ (a \o b)[i] = a[i] /\ (a \o b)[i + 1] = a[i + 1]
  BY <1>1
<1> QED BY <1>2 DEF Chain

LEMMA ChainOfTail ==
    ASSUME NEW s \in Seq(Token), s # <<>>, Chain(s)
    PROVE  /\ Tail(s) \in Seq(Token) /\ Chain(Tail(s))
           /\ Tail(s) # <<>> => Follows(s[1], Tail(s)[1])
<1> DEFINE r == Tail(s)
<1>1. /\ r \in Seq(Token) /\ Len(s) \in Nat /\ Len(r) = Len(s) - 1
      /\ \A i \in 1 .. Len(r) : r[i] = s[i + 1]
      /\ (r # <<>> <=> Len(r) > 0) /\ Len(s) > 0
  OBVIOUS
<1> HIDE DEF r
<1>2. ASSUME NEW i \in 1 .. Len(r) - 1 PROVE Follows(r[i], r[i + 1])
  <2>1. i + 1 \in 1 .. Len(s) - 1 /\ r[i] = s[i + 1] /\ r[i + 1] = s[(i + 1) + 1]
    BY <1>1
  <2> QED BY <2>1 DEF Chain
<1>3. r # <<>> => Follows(s[1], r[1])
  <2> SUFFICES ASSUME r # <<>> PROVE Follows(s[1], r[1])
    OBVIOUS
  <2>1. 1 \in 1 .. Len(s) - 1 /\ r[1] = s[1 + 1]
    BY <1>1
  <2> QED BY <2>1 DEF Chain
<1> QED BY <1>1, <1>2, <1>3 DEF Chain, r

LEMMA ChainOfBody ==
    ASSUME NEW m \in Message
    PROVE  Chain(Body(m))
<1>1. /\ m.size \in Nat /\ Len(Body(m)) = m.size
      /\ \A i \in 1 .. m.size : Body(m)[i] = Unit(m, i)
  BY BodyFacts
<1> SUFFICES ASSUME NEW i \in 1 .. m.size - 1 PROVE Follows(Body(m)[i], Body(m)[i + 1])
  BY <1>1 DEF Chain
<1>2. Body(m)[i] = Unit(m, i) /\ Body(m)[i + 1] = Unit(m, i + 1) /\ i # m.size
  BY <1>1
<1>3. Follows(Unit(m, i), Unit(m, i + 1))
  BY <1>2 DEF Follows, Unit, IsLast
<1> QED BY <1>2, <1>3

-----------------------------------------------------------------------------
(* The invariant                                                             *)

LEMMA InitialInv == Init => FramingInv
<1> SUFFICES ASSUME Init PROVE FramingInv
  OBVIOUS
<1>1. OnTheWay = <<>> /\ <<>> \in Seq(Token) /\ <<>> \in Seq(Message) /\ Len(<<>>) = 0
  BY DEF Init, OnTheWay
<1>2. TypeOK
  BY <1>1, FramingAssumption DEF Init, TypeOK
<1>3. InStep
  BY <1>1 DEF Init, InStep, Chain
<1>4. Holding /\ Writing
  BY <1>1 DEF Init, Holding, Writing, Ends
<1> QED BY <1>2, <1>3, <1>4 DEF FramingInv

LEMMA WayTyped ==
    ASSUME FramingInv
    PROVE  /\ pipe \in Seq(Token) /\ stdout \in Seq(Token) /\ OnTheWay \in Seq(Token)
           /\ Len(OnTheWay) \in Nat /\ DOMAIN OnTheWay = 1 .. Len(OnTheWay)
           /\ OnTheWay # <<>> <=> Len(OnTheWay) > 0
           /\ \A i \in 1 .. Len(OnTheWay) : OnTheWay[i] \in Token
<1>1. pipe \in Seq(Token) /\ stdout \in Seq(Token)
  BY DEF FramingInv, TypeOK
<1>2. OnTheWay \in Seq(Token)
  BY <1>1 DEF OnTheWay
<1> QED BY <1>1, <1>2

\* A step that leaves the tokens on their way and the reader as they are.
LEMMA SameWay ==
    ASSUME FramingInv, UNCHANGED <<OnTheWay, reader, wanted, buf>>,
           daemon = "running" \/ UNCHANGED <<daemon, pipe>>
    PROVE  InStep' /\ Holding'
<1>1. InStep'
  BY DEF FramingInv, InStep, Expected
<1>2. Holding'
  BY DEF FramingInv, Holding
<1> QED BY <1>1, <1>2

LEMMA SerializeKeeps ==
    ASSUME OneWriter, FramingInv, NEW t \in Thread, Serialize(t)
    PROVE  FramingInv'
<1>1. OnTheWay' = OnTheWay
  BY DEF Serialize, OnTheWay
<1>2. PICK s \in Sizes :
        /\ writing' = [writing EXCEPT ![t] = [from |-> t, number |-> count[t] + 1, size |-> s]]
        /\ pc' = [pc EXCEPT ![t] = IF s <= Limit THEN "length" ELSE "panicked"]
  BY DEF Serialize
<1>3. /\ pc \in [Thread -> {"idle", "length", "body", "flush", "panicked"}]
      /\ count \in [Thread -> 0 .. MaxMessages] /\ MaxMessages \in Nat
      /\ writing \in [Thread -> Message \cup {NoMessage(u) : u \in Thread}]
      /\ pc[t] = "idle" /\ count[t] < MaxMessages /\ daemon = "running"
  BY FramingAssumption DEF FramingInv, TypeOK, Writing, Serialize
<1>4. [from |-> t, number |-> count[t] + 1, size |-> s] \in Message
  BY <1>3 DEF Message
<1>5. TypeOK'
  <2>1. count' \in [Thread -> 0 .. MaxMessages]
    BY <1>3 DEF Serialize
  <2>2. pc' \in [Thread -> {"idle", "length", "body", "flush", "panicked"}]
    BY <1>2, <1>3
  <2>3. \A u \in Thread : writing'[u] \in Message \cup {NoMessage(u)}
    BY <1>2, <1>3, <1>4 DEF FramingInv, TypeOK
  <2> QED BY <2>1, <2>2, <2>3 DEF FramingInv, TypeOK, Serialize, readerVars
<1>6. InStep' /\ Holding'
  BY <1>1, <1>3, SameWay DEF Serialize, readerVars
<1>7. Writing'
  <2>1. writing' \in [Thread -> Message \cup {NoMessage(u) : u \in Thread}]
    BY <1>2, <1>3, <1>4
  <2>2. ASSUME NEW u \in Thread
        PROVE  /\ pc'[u] \in {"length", "body"} => writing'[u] \in Message /\ writing'[u].size <= Limit
               /\ Ends(u)'
    <3>1. u = t
      BY DEF OneWriter
    <3>2. /\ pc'[u] = (IF s <= Limit THEN "length" ELSE "panicked")
          /\ writing'[u] = [from |-> t, number |-> count[t] + 1, size |-> s]
      BY <1>2, <1>3, <3>1
    <3>3. pc[u] # "body" /\ pc'[u] # "body" /\ Ends(u)
      BY <1>3, <3>1, <3>2 DEF FramingInv, Writing
    <3>4. Ends(u)'
      BY <1>1, <3>3 DEF Ends, Serialize, readerVars
    <3> QED BY <1>4, <3>2, <3>4
  <2>3. daemon' = "running"
    BY <1>3 DEF Serialize
  <2> QED BY <2>1, <2>2, <2>3 DEF Writing
<1> QED BY <1>5, <1>6, <1>7 DEF FramingInv

\* What is written into a gap goes on where the tokens end.
LEMMA WriteLengthKeeps ==
    ASSUME OneWriter, FramingInv, NEW t \in Thread, WriteLength(t)
    PROVE  FramingInv'
<1> DEFINE k == Length(writing[t])
<1>1. /\ stdout' = Append(stdout, k) /\ pipe' = pipe
      /\ pc' = [pc EXCEPT ![t] = "body"] /\ pc[t] = "length"
      /\ daemon = "running" /\ UNCHANGED <<writing, count, daemon, reader, wanted, buf, delivered>>
  BY DEF WriteLength, readerVars
<1>2. writing[t] \in Message /\ writing[t].size <= Limit
  BY <1>1 DEF FramingInv, Writing
<1>3. k \in Token /\ k.kind = "length" /\ k.size = writing[t].size
  BY <1>2 DEF Token, Length, Message
<1>4. Ends(t) /\ reader \in {"length", "body"}
  BY <1>1 DEF FramingInv, Writing, Holding, TypeOK
<1> HIDE DEF k
<1>5. /\ OnTheWay' \in Seq(Token) /\ OnTheWay' = Append(OnTheWay, k)
      /\ OnTheWay' # <<>> /\ Len(OnTheWay') = Len(OnTheWay) + 1
      /\ OnTheWay'[Len(OnTheWay')] = k
      /\ \A i \in 1 .. Len(OnTheWay) : OnTheWay'[i] = OnTheWay[i]
      /\ DOMAIN OnTheWay' = 1 .. Len(OnTheWay) + 1
  <2>1. OnTheWay' = Append(OnTheWay, k)
    BY <1>1, <1>3, WayTyped DEF OnTheWay
  <2> QED BY <2>1, <1>3, WayTyped
<1>6. TypeOK'
  <2>1. stdout' \in Seq(Token)
    BY <1>1, <1>3, WayTyped
  <2>2. pc' \in [Thread -> {"idle", "length", "body", "flush", "panicked"}]
    BY <1>1 DEF FramingInv, TypeOK
  <2> QED BY <1>1, <2>1, <2>2 DEF FramingInv, TypeOK
<1>7. Chain(OnTheWay')
  <2>1. OnTheWay # <<>> => Follows(OnTheWay[Len(OnTheWay)], k)
    BY <1>1, <1>3, <1>4 DEF Ends, Follows
  <2> QED BY <2>1, <1>3, <1>5, WayTyped, ChainOne DEF FramingInv, InStep
<1>8. InStep'
  <2>1. Expected(OnTheWay[1])'
    <3>1. CASE OnTheWay = <<>>
      <4>1. OnTheWay'[1] = k
        BY <3>1, <1>5, WayTyped
      <4>2. reader = "length"
        BY <3>1, <1>1, <1>4 DEF Ends
      <4> QED BY <4>1, <4>2, <1>1, <1>3 DEF Expected
    <3>2. CASE OnTheWay # <<>>
      <4>1. OnTheWay'[1] = OnTheWay[1]
        BY <3>2, <1>5, WayTyped
      <4>2. Expected(OnTheWay[1])
        BY <3>2 DEF FramingInv, InStep
      <4> QED BY <4>1, <4>2, <1>1 DEF Expected
    <3> QED BY <3>1, <3>2
  <2>2. \A i \in DOMAIN OnTheWay' : OnTheWay'[i].kind = "length" => OnTheWay'[i].size <= Limit
    <3> SUFFICES ASSUME NEW i \in DOMAIN OnTheWay', OnTheWay'[i].kind = "length"
                 PROVE  OnTheWay'[i].size <= Limit
      OBVIOUS
    <3>1. CASE i \in 1 .. Len(OnTheWay)
      BY <3>1, <1>5, WayTyped DEF FramingInv, InStep
    <3>2. CASE i = Len(OnTheWay) + 1
      BY <3>2, <1>2, <1>3, <1>5
    <3> QED BY <3>1, <3>2, <1>5, WayTyped
  <2> QED BY <1>7, <2>1, <2>2 DEF InStep
<1>9. Holding'
  BY <1>1 DEF FramingInv, Holding
<1>10. Writing'
  <2>1. ASSUME NEW u \in Thread
        PROVE  /\ pc'[u] \in {"length", "body"} => writing'[u] \in Message /\ writing'[u].size <= Limit
               /\ Ends(u)'
    <3>1. u = t
      BY DEF OneWriter
    <3>2. pc'[u] = "body" /\ writing'[u] = writing[t]
      BY <1>1, <3>1 DEF FramingInv, TypeOK
    <3>3. Ends(u)'
      BY <3>2, <1>5 DEF Ends, k
    <3> QED BY <1>2, <3>2, <3>3
  <2> QED BY <1>1, <2>1 DEF FramingInv, Writing
<1> QED BY <1>6, <1>8, <1>9, <1>10 DEF FramingInv

LEMMA WriteBodyKeeps ==
    ASSUME OneWriter, FramingInv, NEW t \in Thread, WriteBody(t)
    PROVE  FramingInv'
<1> DEFINE m == writing[t]
           b == Body(m)
<1>1. /\ stdout' = stdout \o b /\ pipe' = pipe
      /\ pc' = [pc EXCEPT ![t] = "flush"] /\ pc[t] = "body"
      /\ daemon = "running" /\ UNCHANGED <<writing, count, daemon, reader, wanted, buf, delivered>>
  BY DEF WriteBody, AfterBody, readerVars
<1>2. m \in Message /\ m.size <= Limit
  BY <1>1 DEF FramingInv, Writing
<1>3. /\ m.size \in Nat \ {0} /\ b \in Seq(Token) /\ Len(b) = m.size /\ b # <<>>
      /\ \A i \in 1 .. m.size : b[i] = Unit(m, i)
      /\ Chain(b)
  BY <1>2, BodyFacts, ChainOfBody
<1>4. Ends(t) /\ reader \in {"length", "body"}
  BY <1>1 DEF FramingInv, Writing, Holding, TypeOK
<1>5. b[1] = Unit(m, 1) /\ b[Len(b)] = Unit(m, m.size)
  BY <1>3
<1> HIDE DEF b
<1>6. /\ OnTheWay' \in Seq(Token) /\ OnTheWay' = OnTheWay \o b
      /\ OnTheWay' # <<>> /\ Len(OnTheWay') = Len(OnTheWay) + m.size
      /\ OnTheWay'[Len(OnTheWay')] = Unit(m, m.size)
      /\ \A i \in 1 .. Len(OnTheWay) : OnTheWay'[i] = OnTheWay[i]
      /\ \A i \in 1 .. m.size : OnTheWay'[Len(OnTheWay) + i] = Unit(m, i)
      /\ DOMAIN OnTheWay' = 1 .. Len(OnTheWay) + m.size
  <2>1. OnTheWay' = OnTheWay \o b
    BY <1>1, <1>3, WayTyped, JoinThree DEF OnTheWay
  <2> HIDE DEF m
  <2>2. /\ OnTheWay' \in Seq(Token) /\ OnTheWay' # <<>>
        /\ Len(OnTheWay') = Len(OnTheWay) + m.size
        /\ \A i \in 1 .. Len(OnTheWay) : OnTheWay'[i] = OnTheWay[i]
        /\ \A i \in 1 .. m.size : OnTheWay'[Len(OnTheWay) + i] = b[i]
        /\ DOMAIN OnTheWay' = 1 .. Len(OnTheWay) + m.size
    BY <2>1, <1>3, WayTyped
  <2>3. OnTheWay'[Len(OnTheWay')] = b[m.size]
    BY <2>2, <1>3
  <2> QED BY <2>1, <2>2, <2>3, <1>3
<1>7. TypeOK'
  <2>1. stdout' \in Seq(Token)
    BY <1>1, <1>3, WayTyped
  <2>2. pc' \in [Thread -> {"idle", "length", "body", "flush", "panicked"}]
    BY <1>1 DEF FramingInv, TypeOK
  <2> QED BY <1>1, <2>1, <2>2 DEF FramingInv, TypeOK
<1>8. Chain(OnTheWay')
  <2>1. OnTheWay # <<>> => Follows(OnTheWay[Len(OnTheWay)], b[1])
    BY <1>1, <1>4, <1>5 DEF Ends, Follows, Unit, Length
  <2> QED BY <2>1, <1>3, <1>6, WayTyped, ChainBoth DEF FramingInv, InStep
<1>9. InStep'
  <2>1. Expected(OnTheWay[1])'
    <3>1. CASE OnTheWay = <<>>
      <4>1. OnTheWay'[1] = Unit(m, 1)
        BY <3>1, <1>3, <1>6, WayTyped
      <4>2. reader = "body" /\ buf = <<>> /\ wanted = m.size /\ Len(<<>>) + 1 = 1
        BY <3>1, <1>1, <1>4 DEF Ends
      <4> QED BY <4>1, <4>2, <1>1 DEF Expected, Unit
    <3>2. CASE OnTheWay # <<>>
      <4>1. OnTheWay'[1] = OnTheWay[1]
        BY <3>2, <1>6, WayTyped
      <4>2. Expected(OnTheWay[1])
        BY <3>2 DEF FramingInv, InStep
      <4> QED BY <4>1, <4>2, <1>1 DEF Expected
    <3> QED BY <3>1, <3>2
  <2>2. \A i \in DOMAIN OnTheWay' : OnTheWay'[i].kind = "length" => OnTheWay'[i].size <= Limit
    <3> SUFFICES ASSUME NEW i \in DOMAIN OnTheWay', OnTheWay'[i].kind = "length"
                 PROVE  OnTheWay'[i].size <= Limit
      OBVIOUS
    <3>1. CASE i \in 1 .. Len(OnTheWay)
      BY <3>1, <1>6, WayTyped DEF FramingInv, InStep
    <3>2. CASE i > Len(OnTheWay)
      <4> DEFINE j == i - Len(OnTheWay)
      <4>1. j \in 1 .. m.size /\ i = Len(OnTheWay) + j
        BY <3>2, <1>3, <1>6, WayTyped
      <4>2. OnTheWay'[i] = Unit(m, j)
        BY <4>1, <1>6
      <4> QED BY <4>2 DEF Unit
    <3> QED BY <3>1, <3>2, <1>3, <1>6, WayTyped
  <2> QED BY <1>8, <2>1, <2>2 DEF InStep
<1>10. Holding'
  BY <1>1 DEF FramingInv, Holding
<1>11. Writing'
  <2>1. ASSUME NEW u \in Thread
        PROVE  /\ pc'[u] \notin {"length", "body"}
               /\ Ends(u)'
    <3>1. u = t
      BY DEF OneWriter
    <3>2. pc'[u] = "flush"
      BY <1>1, <3>1 DEF FramingInv, TypeOK
    <3>3. Ends(u)'
      BY <3>2, <1>6 DEF Ends, IsLast, Unit
    <3> QED BY <3>2, <3>3
  <2> QED BY <1>1, <2>1 DEF FramingInv, Writing
<1> QED BY <1>7, <1>9, <1>10, <1>11 DEF FramingInv

\* Tokens that go from the buffer into the pipe stay in their order.
LEMMA WayOfFlush ==
    ASSUME FramingInv, stdout # <<>>,
           pipe' = Append(pipe, Head(stdout)), stdout' = Tail(stdout)
    PROVE  OnTheWay' = OnTheWay /\ pipe' \in Seq(Token) /\ stdout' \in Seq(Token)
           /\ Len(pipe') = Len(pipe) + 1
BY WayTyped, PassOn DEF OnTheWay

LEMMA FlushKeeps ==
    ASSUME OneWriter, FramingInv, NEW t \in Thread, Flush(t)
    PROVE  FramingInv'
<1>1. /\ UNCHANGED <<writing, count, daemon, reader, wanted, buf, delivered>>
      /\ daemon = "running" /\ pc[t] = "flush"
      /\ \/ stdout = <<>> /\ pc' = [pc EXCEPT ![t] = "idle"] /\ UNCHANGED <<stdout, pipe>>
         \/ /\ stdout # <<>> /\ Len(pipe) < Capacity /\ pc' = pc
            /\ pipe' = Append(pipe, Head(stdout)) /\ stdout' = Tail(stdout)
  BY DEF Flush, Rest, readerVars
<1>2. /\ OnTheWay' = OnTheWay /\ pipe' \in Seq(Token) /\ stdout' \in Seq(Token)
      /\ Len(pipe') <= Capacity
  <2>1. CASE stdout = <<>>
    BY <2>1, <1>1, WayTyped DEF OnTheWay, FramingInv, TypeOK
  <2>2. CASE stdout # <<>>
    <3>1. Len(pipe) \in Nat /\ Capacity \in Nat
      BY WayTyped, FramingAssumption
    <3> QED BY <2>2, <1>1, <3>1, WayOfFlush
  <2> QED BY <2>1, <2>2
<1>3. pc' \in [Thread -> {"idle", "length", "body", "flush", "panicked"}]
  BY <1>1 DEF FramingInv, TypeOK
<1>4. TypeOK'
  BY <1>1, <1>2, <1>3 DEF FramingInv, TypeOK
<1>5. InStep' /\ Holding'
  BY <1>1, <1>2, SameWay
<1>6. Writing'
  <2>1. ASSUME NEW u \in Thread
        PROVE  pc'[u] \notin {"length", "body"} /\ Ends(u)'
    <3>1. u = t
      BY DEF OneWriter
    <3>2. pc'[u] \in {"flush", "idle"} /\ pc[u] # "body" /\ Ends(u)
      BY <1>1, <3>1 DEF FramingInv, TypeOK, Writing
    <3>3. Ends(u)'
      BY <3>2, <1>1, <1>2 DEF Ends
    <3> QED BY <3>2, <3>3
  <2> QED BY <1>1, <2>1 DEF FramingInv, Writing
<1> QED BY <1>4, <1>5, <1>6 DEF FramingInv

LEMMA LinePassesOnKeeps ==
    ASSUME FramingInv, LinePassesOn
    PROVE  FramingInv'
<1>1. /\ UNCHANGED <<pc, writing, count, daemon, reader, wanted, buf, delivered>>
      /\ daemon = "running" /\ stdout # <<>> /\ Len(pipe) < Capacity
      /\ pipe' = Append(pipe, Head(stdout)) /\ stdout' = Tail(stdout)
  BY DEF LinePassesOn, threadVars, readerVars
<1>2. /\ OnTheWay' = OnTheWay /\ pipe' \in Seq(Token) /\ stdout' \in Seq(Token)
      /\ Len(pipe') <= Capacity
  <2>1. Len(pipe) \in Nat /\ Capacity \in Nat
    BY WayTyped, FramingAssumption
  <2> QED BY <1>1, <2>1, WayOfFlush
<1>3. TypeOK'
  BY <1>1, <1>2 DEF FramingInv, TypeOK
<1>4. InStep' /\ Holding'
  BY <1>1, <1>2, SameWay
<1>5. Writing'
  BY <1>1, <1>2 DEF FramingInv, Writing, Ends
<1> QED BY <1>3, <1>4, <1>5 DEF FramingInv

LEMMA DaemonDiesKeeps ==
    ASSUME FramingInv, DaemonDies
    PROVE  FramingInv'
<1>1. /\ UNCHANGED <<pc, writing, count, pipe, reader, wanted, buf, delivered>>
      /\ daemon = "running" /\ daemon' = "dead" /\ stdout' = <<>>
  BY DEF DaemonDies, threadVars, readerVars
<1>2. OnTheWay' = pipe
  BY <1>1, WayTyped DEF OnTheWay
<1>3. /\ Len(pipe) \in Nat /\ DOMAIN pipe = 1 .. Len(pipe)
      /\ pipe # <<>> => Len(pipe) > 0 /\ OnTheWay # <<>>
      /\ \A i \in 1 .. Len(pipe) : OnTheWay[i] = pipe[i] /\ i \in DOMAIN OnTheWay
  BY WayTyped DEF OnTheWay
<1>4. TypeOK'
  BY <1>1 DEF FramingInv, TypeOK
<1>5. InStep'
  <2>1. Chain(pipe)
    BY WayTyped, ChainOfFirst DEF FramingInv, InStep, OnTheWay
  <2>2. pipe # <<>> => Expected(pipe[1])
    BY <1>3 DEF FramingInv, InStep
  <2>3. pipe # <<>> => Expected(pipe[1])'
    BY <1>1, <2>2 DEF Expected
  <2>4. \A i \in DOMAIN pipe : pipe[i].kind = "length" => pipe[i].size <= Limit
    BY <1>3 DEF FramingInv, InStep
  <2>5. OnTheWay' # <<>> => Expected(OnTheWay[1])'
    BY <1>1, <1>2, <2>3
  <2> QED BY <1>2, <2>1, <2>4, <2>5 DEF InStep
<1>6. Holding'
  BY <1>1 DEF FramingInv, Holding
<1>7. Writing'
  BY <1>1 DEF FramingInv, Writing
<1> QED BY <1>4, <1>5, <1>6, <1>7 DEF FramingInv

\* The reader takes the first of the tokens on their way.
LEMMA WayOfRead ==
    ASSUME FramingInv, pipe # <<>>, pipe' = Tail(pipe), stdout' = stdout
    PROVE  /\ OnTheWay # <<>> /\ OnTheWay[1] = Head(pipe) /\ Head(pipe) \in Token
           /\ Expected(Head(pipe))
           /\ OnTheWay' = Tail(OnTheWay) /\ OnTheWay' \in Seq(Token)
           /\ pipe' \in Seq(Token) /\ Len(pipe') <= Capacity
           /\ Chain(OnTheWay')
           /\ OnTheWay' # <<>> => Follows(Head(pipe), OnTheWay'[1])
           /\ \A i \in DOMAIN OnTheWay' :
                 OnTheWay'[i].kind = "length" => OnTheWay'[i].size <= Limit
           /\ OnTheWay' = <<>> => OnTheWay[Len(OnTheWay)] = Head(pipe)
           /\ OnTheWay' # <<>> => OnTheWay'[Len(OnTheWay')] = OnTheWay[Len(OnTheWay)]
<1>1. pipe \in Seq(Token) /\ stdout \in Seq(Token) /\ OnTheWay = pipe \o stdout
  BY WayTyped DEF OnTheWay
<1>2. /\ OnTheWay # <<>> /\ OnTheWay[1] = Head(pipe) /\ Head(pipe) \in Token
      /\ pipe' \in Seq(Token) /\ Len(pipe') = Len(pipe) - 1
  BY <1>1
<1>3. OnTheWay' = Tail(OnTheWay)
  <2>1. Tail(pipe \o stdout) = Tail(pipe) \o stdout
    BY <1>1
  <2> QED BY <1>1, <2>1 DEF OnTheWay
<1>4. Expected(Head(pipe))
  BY <1>2 DEF FramingInv, InStep
<1>5. Len(pipe') <= Capacity
  <2>1. Len(pipe) \in Nat /\ Len(pipe) <= Capacity /\ Capacity \in Nat
    BY <1>1, FramingAssumption DEF FramingInv, TypeOK
  <2> QED BY <1>2, <2>1
<1> DEFINE w == OnTheWay
           r == Tail(w)
<1>6. /\ r \in Seq(Token) /\ Chain(r) /\ (r # <<>> => Follows(w[1], r[1]))
  BY <1>2, WayTyped, ChainOfTail DEF FramingInv, InStep
<1>7. /\ Len(w) \in Nat /\ Len(r) = Len(w) - 1 /\ DOMAIN r = 1 .. Len(r)
      /\ r # <<>> <=> Len(r) > 0
      /\ \A i \in 1 .. Len(r) : r[i] = w[i + 1] /\ i + 1 \in DOMAIN w
  <2>1. w \in Seq(Token) /\ w # <<>>
    BY <1>2, WayTyped
  <2> HIDE DEF w
  <2>2. /\ Len(w) \in Nat /\ DOMAIN w = 1 .. Len(w) /\ Len(w) > 0
        /\ r \in Seq(Token) /\ Len(r) = Len(w) - 1
    BY <2>1
  <2>3. DOMAIN r = 1 .. Len(r) /\ (r # <<>> <=> Len(r) > 0)
    BY <2>2
  <2>4. ASSUME NEW i \in 1 .. Len(r) PROVE r[i] = w[i + 1] /\ i + 1 \in DOMAIN w
    BY <2>1, <2>2
  <2> QED BY <2>2, <2>3, <2>4
<1>8. \A i \in DOMAIN w : w[i].kind = "length" => w[i].size <= Limit
  BY DEF FramingInv, InStep
<1> HIDE DEF w, r
<1>9. \A i \in DOMAIN r : r[i].kind = "length" => r[i].size <= Limit
  BY <1>7, <1>8
<1>10. r = <<>> => Len(w) = 1
  BY <1>7, <1>2, WayTyped DEF w
<1>11. r # <<>> => r[Len(r)] = w[Len(w)]
  BY <1>7
<1>12. OnTheWay' = r
  BY <1>3 DEF r, w
<1>13. w[1] = Head(pipe)
  BY <1>2 DEF w
<1>14. r = <<>> => w[Len(w)] = Head(pipe)
  BY <1>10, <1>13
<1>15. /\ Chain(r) /\ r \in Seq(Token)
       /\ r # <<>> => Follows(Head(pipe), r[1])
       /\ \A i \in DOMAIN r : r[i].kind = "length" => r[i].size <= Limit
       /\ r = <<>> => w[Len(w)] = Head(pipe)
       /\ r # <<>> => r[Len(r)] = w[Len(w)]
  BY <1>6, <1>9, <1>11, <1>13, <1>14
<1> QED BY <1>2, <1>3, <1>4, <1>5, <1>12, <1>15 DEF w

LEMMA ReadEndsKeeps ==
    ASSUME FramingInv, ReadEnds
    PROVE  FramingInv'
<1>1. /\ UNCHANGED <<pc, writing, count, stdout, pipe, daemon, wanted, buf, delivered>>
      /\ daemon = "dead" /\ pipe = <<>> /\ reader' = "dead"
  BY DEF ReadEnds, threadVars
<1>2. OnTheWay = <<>> /\ OnTheWay' = <<>> /\ Len(<<>>) = 0
  BY <1>1 DEF FramingInv, Writing, OnTheWay
<1>3. TypeOK'
  BY <1>1 DEF FramingInv, TypeOK
<1>4. InStep'
  BY <1>2 DEF InStep, Chain
<1>5. Holding'
  BY <1>1 DEF FramingInv, Holding
<1>6. Writing'
  BY <1>1 DEF FramingInv, Writing
<1> QED BY <1>3, <1>4, <1>5, <1>6 DEF FramingInv

LEMMA ReadLengthKeeps ==
    ASSUME FramingInv, ReadLength
    PROVE  FramingInv'
<1> DEFINE h == Head(pipe)
<1>1. /\ UNCHANGED <<pc, writing, count, stdout, daemon, buf, delivered>>
      /\ reader = "length" /\ pipe # <<>> /\ pipe' = Tail(pipe) /\ stdout' = stdout
  BY DEF ReadLength, threadVars
<1>2. h.kind = "length" /\ h \in Token
  BY <1>1, WayOfRead DEF Expected
<1>3. reader' = "body" /\ wanted' = h.size
  BY <1>2 DEF ReadLength
<1>4. h.size \in Sizes
  BY <1>2 DEF Token
<1>5. h.size <= Limit
  <2>1. OnTheWay[1] = h /\ 1 \in DOMAIN OnTheWay
    BY <1>1, WayOfRead, WayTyped
  <2> QED BY <1>2, <2>1 DEF FramingInv, InStep
<1>6. buf = <<>> /\ Len(<<>>) = 0 /\ h.size \in Nat \ {0}
  BY <1>1, <1>4, FramingAssumption DEF FramingInv, Holding
<1>7. TypeOK'
  <2>1. pipe' \in Seq(Token) /\ Len(pipe') <= Capacity
    BY <1>1, WayOfRead
  <2>2. buf' \in Seq(Token) /\ Len(buf') <= wanted'
    BY <1>1, <1>3, <1>6 DEF FramingInv, TypeOK
  <2> QED BY <1>1, <1>3, <1>4, <1>5, <2>1, <2>2 DEF FramingInv, TypeOK
<1>8. InStep'
  <2>1. ASSUME OnTheWay' # <<>> PROVE Expected(OnTheWay[1])'
    <3> DEFINE l == OnTheWay'[1]
    <3>1. Follows(h, l)
      BY <1>1, <2>1, WayOfRead
    <3>2. l.kind = "body" /\ l.at = 1 /\ l.of.size = h.size
      BY <1>2, <3>1 DEF Follows, IsLast
    <3> HIDE DEF h
    <3>3. buf' = <<>> /\ l.at = Len(buf') + 1
      BY <1>1, <1>6, <3>2
    <3> QED BY <1>3, <3>2, <3>3 DEF Expected
  <2> QED BY <1>1, <2>1, WayOfRead DEF InStep
<1>9. Holding'
  BY <1>1, <1>3, <1>4, <1>6 DEF Holding
<1>10. Writing'
  <2>1. ASSUME NEW u \in Thread, daemon = "running" PROVE Ends(u)'
    <3>1. Ends(u) /\ OnTheWay # <<>>
      BY <1>1, <2>1, WayOfRead DEF FramingInv, Writing
    <3>2. CASE OnTheWay' = <<>>
      <4>1. OnTheWay[Len(OnTheWay)] = h
        BY <1>1, <3>2, WayOfRead
      <4>2. pc[u] = "body" /\ h = Length(writing[u])
        BY <1>2, <3>1, <4>1 DEF Ends, IsLast
      <4>3. wanted' = writing[u].size
        BY <1>3, <4>2 DEF Length
      <4> QED BY <1>1, <1>3, <1>6, <3>2, <4>2, <4>3 DEF Ends
    <3>3. CASE OnTheWay' # <<>>
      <4>1. OnTheWay'[Len(OnTheWay')] = OnTheWay[Len(OnTheWay)]
        BY <1>1, <3>3, WayOfRead
      <4> QED BY <1>1, <3>1, <3>3, <4>1 DEF Ends
    <3> QED BY <3>2, <3>3
  <2> QED BY <1>1, <2>1 DEF FramingInv, Writing
<1> QED BY <1>7, <1>8, <1>9, <1>10 DEF FramingInv

\* The part of a body that the reader has with the next token.
LEMMA NextOfBody ==
    ASSUME FramingInv, ReadBody
    PROVE  LET h == Head(pipe)
               b == Append(buf, h)
           IN  /\ h \in Token /\ h.kind = "body" /\ h.of \in Message /\ h = Unit(h.of, h.at)
               /\ h.of.size = wanted /\ h.at = Len(buf) + 1
               /\ b \in Seq(Token) /\ b # <<>> /\ Len(b) = h.at /\ Len(b) \in Nat /\ Len(b) <= wanted
               /\ b[1].of = h.of
               /\ \A i \in 1 .. Len(b) : b[i] = Unit(h.of, i)
               /\ Len(b) = wanted => b = Body(h.of)
<1> DEFINE h == Head(pipe)
           b == Append(buf, h)
<1>1. reader = "body" /\ pipe # <<>> /\ pipe' = Tail(pipe) /\ stdout' = stdout
  BY DEF ReadBody, threadVars
<1>2. /\ h \in Token /\ h.kind = "body" /\ h.of.size = wanted /\ h.at = Len(buf) + 1
      /\ buf # <<>> => h.of = buf[1].of
  BY <1>1, WayOfRead DEF Expected
<1>3. h.of \in Message /\ h = Unit(h.of, h.at)
  BY <1>2, UnitOfBody
<1> HIDE DEF h
<1>4. /\ buf \in Seq(Token) /\ Len(buf) \in Nat /\ DOMAIN buf = 1 .. Len(buf)
      /\ wanted \in Nat /\ Len(buf) < wanted
  BY <1>1, FramingAssumption DEF FramingInv, TypeOK, Holding
<1>5. /\ b \in Seq(Token) /\ b # <<>> /\ Len(b) = h.at /\ Len(b) \in Nat /\ Len(b) <= wanted
      /\ \A i \in 1 .. Len(buf) : b[i] = buf[i]
      /\ b[Len(buf) + 1] = h
  BY <1>2, <1>4
<1> HIDE DEF b
<1>6. \A i \in 1 .. Len(b) : b[i] = Unit(h.of, i)
  <2> SUFFICES ASSUME NEW i \in 1 .. Len(b) PROVE b[i] = Unit(h.of, i)
    OBVIOUS
  <2>1. CASE i = Len(buf) + 1
    BY <2>1, <1>2, <1>3, <1>5
  <2>2. CASE i # Len(buf) + 1
    <3>1. i \in 1 .. Len(buf) /\ buf # <<>>
      BY <2>2, <1>2, <1>4, <1>5
    <3>2. buf[i] = Unit(buf[1].of, i)
      BY <3>1, <1>4 DEF FramingInv, Holding
    <3> QED BY <3>1, <3>2, <1>2, <1>5
  <2> QED BY <2>1, <2>2
<1>7. b[1].of = h.of
  <2>1. 1 \in 1 .. Len(b)
    BY <1>2, <1>4, <1>5
  <2>2. b[1] = Unit(h.of, 1)
    BY <2>1, <1>6
  <2>3. Unit(h.of, 1).of = h.of
    BY DEF Unit
  <2> QED BY <2>2, <2>3
<1>8. Len(b) = wanted => b = Body(h.of)
  <2> SUFFICES ASSUME Len(b) = wanted PROVE b = Body(h.of)
    OBVIOUS
  <2>1. b = [i \in 1 .. Len(b) |-> b[i]]
    BY <1>5
  <2>2. [i \in 1 .. Len(b) |-> b[i]] = [i \in 1 .. Len(b) |-> Unit(h.of, i)]
    BY <1>6
  <2> QED BY <2>1, <2>2, <1>2 DEF Body
<1> QED BY <1>2, <1>3, <1>5, <1>6, <1>7, <1>8 DEF h, b

LEMMA ReadBodyKeeps ==
    ASSUME FramingInv, ReadBody
    PROVE  FramingInv'
<1> DEFINE h == Head(pipe)
           b == Append(buf, h)
<1>1. /\ UNCHANGED <<pc, writing, count, stdout, daemon, wanted>>
      /\ reader = "body" /\ pipe # <<>> /\ pipe' = Tail(pipe) /\ stdout' = stdout
  BY DEF ReadBody, threadVars
<1>2. /\ h \in Token /\ h.kind = "body" /\ h.of \in Message
      /\ h.of.size = wanted /\ h.at = Len(buf) + 1
      /\ b \in Seq(Token) /\ b # <<>> /\ Len(b) = h.at /\ Len(b) \in Nat /\ Len(b) <= wanted
      /\ b[1].of = h.of
      /\ \A i \in 1 .. Len(b) : b[i] = Unit(h.of, i)
      /\ Len(b) = wanted => b = Body(h.of)
  BY NextOfBody
<1>3. \/ Len(b) # wanted /\ buf' = b /\ reader' = "body" /\ delivered' = delivered
      \/ /\ Len(b) = wanted /\ buf' = <<>> /\ reader' = "length"
         /\ delivered' = Append(delivered, h.of)
  <2>1. CASE Len(b) # wanted
    BY <2>1, <1>1 DEF ReadBody, Complete
  <2>2. CASE Len(b) = wanted
    <3>1. Deserializes(b)
      BY <2>2, <1>2 DEF Deserializes
    <3> QED BY <2>2, <3>1, <1>2 DEF ReadBody, Complete
  <2> QED BY <2>1, <2>2
<1>4. pipe' \in Seq(Token) /\ Len(pipe') <= Capacity
  BY <1>1, WayOfRead
<1>5. IsLast(h) <=> Len(b) = wanted
  BY <1>2 DEF IsLast
<1>6. OnTheWay' # <<>> => Follows(h, OnTheWay'[1])
  BY <1>1, WayOfRead
<1>7. wanted \in Sizes /\ wanted \in Nat
  BY <1>1, FramingAssumption DEF FramingInv, Holding
<1> HIDE DEF h, b
<1>8. TypeOK'
  <2>1. buf' \in Seq(Token) /\ Len(buf') <= wanted
    <3>1. <<>> \in Seq(Token) /\ Len(<<>>) = 0 /\ 0 <= wanted
      BY <1>7
    <3> QED BY <3>1, <1>2, <1>3
  <2>2. delivered' \in Seq(Message) /\ reader' \in {"length", "body", "dead"}
    <3>1. delivered \in Seq(Message)
      BY DEF FramingInv, TypeOK
    <3>2. Append(delivered, h.of) \in Seq(Message)
      BY <1>2, <3>1
    <3> QED BY <1>3, <3>1, <3>2
  <2> QED BY <1>1, <1>4, <2>1, <2>2 DEF FramingInv, TypeOK
<1>9. InStep'
  <2>1. ASSUME OnTheWay' # <<>> PROVE Expected(OnTheWay[1])'
    <3> DEFINE l == OnTheWay'[1]
    <3>1. Follows(h, l)
      BY <2>1, <1>6
    <3> HIDE DEF l
    <3>2. CASE Len(b) = wanted
      <4>1. l.kind = "length"
        BY <3>1, <3>2, <1>2, <1>5 DEF Follows
      <4> QED BY <3>2, <4>1, <1>2, <1>3 DEF Expected, l
    <3>3. CASE Len(b) # wanted
      <4>1. l.kind = "body" /\ l.of = h.of /\ l.at = Len(b) + 1
        BY <3>1, <3>3, <1>2, <1>5 DEF Follows
      <4>2. reader' = "body" /\ buf' = b /\ wanted' = wanted
        BY <3>3, <1>1, <1>2, <1>3
      <4>3. l.kind = "body" /\ l.of.size = wanted' /\ l.at = Len(buf') + 1 /\ l.of = buf'[1].of
        BY <4>1, <4>2, <1>2
      <4> QED BY <4>2, <4>3 DEF Expected, l
    <3> QED BY <3>2, <3>3
  <2> QED BY <1>1, <2>1, WayOfRead DEF InStep
<1>10. Holding'
  <2>1. CASE Len(b) = wanted
    BY <2>1, <1>3 DEF Holding
  <2>2. CASE Len(b) # wanted
    <3>1. buf' = b /\ reader' = "body" /\ Len(b) < wanted
      BY <2>2, <1>2, <1>3, <1>7
    <3>2. DOMAIN b = 1 .. Len(b)
      BY <1>2
    <3>3. \A i \in DOMAIN b : b[1].of \in Message /\ b[1].of.size = wanted /\ b[i] = Unit(b[1].of, i)
      BY <3>2, <1>2
    <3> QED BY <3>1, <3>3, <1>1, <1>7 DEF Holding
  <2> QED BY <2>1, <2>2
<1>11. Writing'
  <2>1. ASSUME NEW u \in Thread, daemon = "running" PROVE Ends(u)'
    <3>1. Ends(u) /\ OnTheWay # <<>>
      BY <1>1, <2>1, WayOfRead DEF FramingInv, Writing
    <3>2. CASE OnTheWay' = <<>>
      <4>1. OnTheWay[Len(OnTheWay)] = h
        BY <1>1, <3>2, WayOfRead DEF h
      <4>2. pc[u] # "body" /\ IsLast(h)
        BY <1>2, <3>1, <4>1 DEF Ends, Length
      <4>3. reader' = "length"
        BY <1>3, <1>5, <4>2
      <4> QED BY <1>1, <3>2, <4>2, <4>3 DEF Ends
    <3>3. CASE OnTheWay' # <<>>
      <4>1. OnTheWay'[Len(OnTheWay')] = OnTheWay[Len(OnTheWay)]
        BY <1>1, <3>3, WayOfRead
      <4> QED BY <1>1, <3>1, <3>3, <4>1 DEF Ends
    <3> QED BY <3>2, <3>3
  <2> QED BY <1>1, <2>1 DEF FramingInv, Writing
<1> QED BY <1>8, <1>9, <1>10, <1>11 DEF FramingInv

LEMMA StutterKeeps ==
    ASSUME FramingInv, UNCHANGED vars
    PROVE  FramingInv'
<1>1. UNCHANGED <<pc, writing, count, stdout, pipe, daemon, reader, wanted, buf, delivered, OnTheWay>>
  BY DEF vars, OnTheWay
<1>2. TypeOK' /\ InStep' /\ Holding'
  BY <1>1 DEF FramingInv, TypeOK, InStep, Expected, Holding
<1>3. Writing'
  BY <1>1 DEF FramingInv, Writing, Ends
<1> QED BY <1>2, <1>3 DEF FramingInv

LEMMA StepKeeps ==
    ASSUME OneWriter, FramingInv, [Next]_vars
    PROVE  FramingInv'
BY SerializeKeeps, WriteLengthKeeps, WriteBodyKeeps, FlushKeeps, LinePassesOnKeeps,
   DaemonDiesKeeps, ReadLengthKeeps, ReadBodyKeeps, ReadEndsKeeps, StutterKeeps
   DEF Next, Write, Read

(* For a daemon with one writer thread, any messages, limit and pipe: the     *)
(* invariant.                                                                *)
THEOREM FramingInvariant == ASSUME OneWriter PROVE Spec => []FramingInv
<1>1. Init => FramingInv
  BY InitialInv
<1>2. FramingInv /\ [Next]_vars => FramingInv'
  BY StepKeeps
<1> QED BY <1>1, <1>2, PTL DEF Spec

(* Types; the reader never takes a part of a body for a length, nor anything  *)
(* but a whole message for a message, even when the daemon dies within a      *)
(* frame: "Deserialization error is impossible" (ipc_common.rs:49).          *)
THEOREM FramingTypeCorrect == ASSUME OneWriter PROVE Spec => []TypeOK
<1>1. FramingInv => TypeOK
  BY DEF FramingInv
<1> QED BY <1>1, FramingInvariant, PTL

-----------------------------------------------------------------------------
(* The channel of messages                                                   *)

LEMMA ChannelInit == Init => Channel!Init
<1> SUFFICES ASSUME Init PROVE Channel!Init
  OBVIOUS
<1>1. pipe \o stdout = <<>>
  BY DEF Init
<1> QED BY <1>1, MessagesOfNone DEF Init, InFlight, Channel!Init

\* A step that changes neither the messages on their way nor those delivered.
LEMMA Unseen ==
    ASSUME InFlight' = InFlight, UNCHANGED <<delivered, daemon>>
    PROVE  UNCHANGED Channel!vars
BY DEF Channel!vars

LEMMA InFlightOf == InFlight = Messages(OnTheWay) /\ InFlight' = Messages(OnTheWay')
BY DEF InFlight, OnTheWay

LEMMA WriteLengthIsUnseen ==
    ASSUME FramingInv, NEW t \in Thread, WriteLength(t)
    PROVE  UNCHANGED Channel!vars
<1> DEFINE k == Length(writing[t])
<1>1. stdout' = Append(stdout, k) /\ pipe' = pipe /\ UNCHANGED <<delivered, daemon>>
  BY DEF WriteLength, readerVars
<1>2. k \in Token /\ ~ IsLast(k)
  BY DEF FramingInv, Writing, WriteLength, Token, Length, Message, IsLast
<1> HIDE DEF k
<1>3. OnTheWay' = Append(OnTheWay, k)
  BY <1>1, <1>2, WayTyped DEF OnTheWay
<1>4. InFlight' = With(InFlight, k)
  BY <1>2, <1>3, WayTyped, MessagesOfOneMore, InFlightOf
<1>5. InFlight' = InFlight
  BY <1>2, <1>4 DEF With
<1> QED BY <1>1, <1>5, Unseen

LEMMA WriteBodySends ==
    ASSUME FramingInv, NEW t \in Thread, WriteBody(t)
    PROVE  Channel!Send(writing[t]) /\ writing[t] \in Message
<1> DEFINE m == writing[t]
           b == Body(m)
<1>1. stdout' = stdout \o b /\ pipe' = pipe /\ UNCHANGED <<delivered, daemon>> /\ daemon = "running"
  BY DEF WriteBody, readerVars
<1>2. m \in Message
  BY DEF FramingInv, Writing, WriteBody
<1>3. b \in Seq(Token) /\ Messages(b) = <<m>>
  BY <1>2, BodyFacts, MessageOfBody
<1> HIDE DEF b
<1>4. OnTheWay' = OnTheWay \o b
  BY <1>1, <1>3, WayTyped, JoinThree DEF OnTheWay
<1>5. InFlight' = InFlight \o <<m>>
  BY <1>3, <1>4, WayTyped, MessagesOfBoth, InFlightOf
<1>6. PICK q \in Seq(Message) : q = InFlight
  BY WayTyped, MessagesTyped, InFlightOf
<1> HIDE DEF m
<1>7. q \o <<m>> = Append(q, m)
  BY <1>2, <1>6
<1>8. InFlight' = Append(InFlight, m)
  BY <1>5, <1>6, <1>7
<1> QED BY <1>1, <1>2, <1>8 DEF Channel!Send, m

LEMMA PassingOnIsUnseen ==
    ASSUME FramingInv, LinePassesOn \/ \E t \in Thread : Flush(t)
    PROVE  UNCHANGED Channel!vars
<1>1. UNCHANGED <<delivered, daemon>>
  BY DEF LinePassesOn, Flush, readerVars
<1>2. \/ UNCHANGED <<stdout, pipe>>
      \/ stdout # <<>> /\ pipe' = Append(pipe, Head(stdout)) /\ stdout' = Tail(stdout)
  BY DEF LinePassesOn, Flush, Rest
<1>3. OnTheWay' = OnTheWay
  <2>1. CASE UNCHANGED <<stdout, pipe>>
    BY <2>1 DEF OnTheWay
  <2>2. CASE stdout # <<>> /\ pipe' = Append(pipe, Head(stdout)) /\ stdout' = Tail(stdout)
    BY <2>2, WayOfFlush
  <2> QED BY <1>2, <2>1, <2>2
<1> QED BY <1>1, <1>3, InFlightOf, Unseen

LEMMA DeathCloses ==
    ASSUME FramingInv, DaemonDies
    PROVE  Channel!Close
<1>1. stdout' = <<>> /\ pipe' = pipe /\ delivered' = delivered
      /\ daemon = "running" /\ daemon' = "dead"
  BY DEF DaemonDies, readerVars
<1>2. PICK a \in Seq(Message), c \in Seq(Message) :
        a = Messages(pipe) /\ c = Messages(stdout)
  BY WayTyped, MessagesTyped
<1>3. InFlight = a \o c
  BY <1>2, WayTyped, MessagesOfBoth, InFlightOf DEF OnTheWay
<1>4. InFlight' = a
  <2>1. OnTheWay' = pipe
    BY <1>1, WayTyped DEF OnTheWay
  <2> QED BY <1>2, <2>1, InFlightOf
<1>5. Len(a) \in 0 .. Len(a \o c) /\ a = SubSeq(a \o c, 1, Len(a))
  BY <1>2
<1>6. \E n \in 0 .. Len(InFlight) : InFlight' = SubSeq(InFlight, 1, n)
  BY <1>3, <1>4, <1>5
<1> QED BY <1>1, <1>6 DEF Channel!Close

\* What the reader takes is of the first message on its way, or of none.
LEMMA InFlightOfRead ==
    ASSUME FramingInv, pipe # <<>>, pipe' = Tail(pipe), stdout' = stdout
    PROVE  InFlight = With(<<>>, Head(pipe)) \o InFlight' /\ InFlight' \in Seq(Message)
<1>1. /\ OnTheWay \in Seq(Token) /\ OnTheWay # <<>> /\ OnTheWay[1] = Head(pipe)
      /\ OnTheWay' = Tail(OnTheWay) /\ OnTheWay' \in Seq(Token)
  BY WayOfRead, WayTyped
<1>2. Head(OnTheWay) = Head(pipe)
  BY <1>1
<1>3. Messages(OnTheWay) = With(<<>>, Head(OnTheWay)) \o Messages(Tail(OnTheWay))
  BY <1>1, MessagesOfFirst
<1> QED BY <1>1, <1>2, <1>3, InFlightOf, MessagesTyped

LEMMA ReadLengthIsUnseen ==
    ASSUME FramingInv, ReadLength
    PROVE  UNCHANGED Channel!vars
<1>1. /\ pipe # <<>> /\ pipe' = Tail(pipe) /\ stdout' = stdout /\ reader = "length"
      /\ UNCHANGED <<delivered, daemon>>
  BY DEF ReadLength, threadVars
<1>2. ~ IsLast(Head(pipe))
  BY <1>1, WayOfRead DEF Expected, IsLast
<1>3. InFlight = <<>> \o InFlight' /\ InFlight' \in Seq(Message)
  BY <1>1, <1>2, InFlightOfRead DEF With
<1>4. PICK q \in Seq(Message) : q = InFlight'
  BY <1>3
<1>5. <<>> \o q = q
  BY <1>4
<1> QED BY <1>1, <1>3, <1>4, <1>5, Unseen

LEMMA ReadBodyDelivers ==
    ASSUME FramingInv, ReadBody
    PROVE  Channel!Deliver \/ UNCHANGED Channel!vars
<1> DEFINE h == Head(pipe)
           b == Append(buf, h)
<1>1. /\ pipe # <<>> /\ pipe' = Tail(pipe) /\ stdout' = stdout /\ daemon' = daemon
  BY DEF ReadBody, threadVars
<1>2. /\ h.kind = "body" /\ h.of \in Message /\ h.of.size = wanted /\ Len(b) = h.at
      /\ b[1].of = h.of /\ (Len(b) = wanted => b = Body(h.of))
  BY NextOfBody
<1>3. IsLast(h) <=> Len(b) = wanted
  BY <1>2 DEF IsLast
<1>4. InFlight = With(<<>>, h) \o InFlight' /\ InFlight' \in Seq(Message)
  BY <1>1, InFlightOfRead
<1>5. PICK q \in Seq(Message) : q = InFlight'
  BY <1>4
<1>6. CASE Len(b) # wanted
  <2>1. delivered' = delivered
    BY <1>6, <1>1 DEF ReadBody, Complete
  <2>2. InFlight = <<>> \o q
    BY <1>3, <1>4, <1>5, <1>6 DEF With
  <2>3. <<>> \o q = q
    BY <1>5
  <2> QED BY <2>1, <2>2, <2>3, <1>1, <1>5, Unseen
<1>7. CASE Len(b) = wanted
  <2>1. Deserializes(b)
    BY <1>7, <1>2 DEF Deserializes
  <2>2. delivered' = Append(delivered, h.of)
    BY <1>7, <2>1, <1>2 DEF ReadBody, Complete
  <2>3. InFlight = Append(<<>>, h.of) \o q
    BY <1>3, <1>4, <1>5, <1>7 DEF With
  <2> HIDE DEF h
  <2> DEFINE f == Append(<<>>, h.of) \o q
  <2>4. f # <<>> /\ Head(f) = h.of /\ Tail(f) = q
    BY <1>2, <1>5
  <2> HIDE DEF f
  <2>5. InFlight = f
    BY <2>3 DEF f
  <2> QED BY <2>2, <2>4, <2>5, <1>1, <1>5 DEF Channel!Deliver
<1> QED BY <1>6, <1>7

LEMMA ChannelStep ==
    ASSUME FramingInv, [Next]_vars
    PROVE  [Channel!Next]_(Channel!vars)
<1>1. ASSUME NEW t \in Thread, Serialize(t) PROVE UNCHANGED Channel!vars
  <2>1. UNCHANGED <<OnTheWay, delivered, daemon>>
    BY <1>1 DEF Serialize, OnTheWay, readerVars
  <2> QED BY <2>1, InFlightOf, Unseen
<1>2. CASE ReadEnds \/ UNCHANGED vars
  <2>1. UNCHANGED <<OnTheWay, delivered, daemon>>
    BY <1>2 DEF ReadEnds, vars, OnTheWay, threadVars
  <2> QED BY <2>1, InFlightOf, Unseen
<1>3. ASSUME NEW t \in Thread, WriteBody(t) PROVE Channel!Next
  BY <1>3, WriteBodySends DEF Channel!Next
<1>4. DaemonDies => Channel!Next
  BY DeathCloses DEF Channel!Next
<1>5. ReadBody => Channel!Next \/ UNCHANGED Channel!vars
  BY ReadBodyDelivers DEF Channel!Next
<1> QED BY <1>1, <1>2, <1>3, <1>4, <1>5, WriteLengthIsUnseen, PassingOnIsUnseen,
           ReadLengthIsUnseen DEF Next, Write, Read

(* The frames implement the channel that HerderFacade uses its pipes as:      *)
(* write_msg puts a message in as a whole, and each is delivered once and in  *)
(* order, except for the last ones of a daemon that dies.                    *)
THEOREM FramesImplementChannel == ASSUME OneWriter PROVE Spec => ImplementsChannel
<1>1. Spec => []FramingInv
  BY FramingInvariant
<1>2. Init => Channel!Init
  BY ChannelInit
<1>3. FramingInv /\ [Next]_vars => [Channel!Next]_(Channel!vars)
  BY ChannelStep
<1> QED BY <1>1, <1>2, <1>3, PTL DEF Spec, ImplementsChannel, Channel!Spec

=============================================================================
