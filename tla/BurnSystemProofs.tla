--------------------------- MODULE BurnSystemProofs ---------------------------
(***************************************************************************)
(* Proofs about BurnSystem: what the words that a shell of root runs come     *)
(* from (the quoting of escalation/unix.rs is undone by any POSIX shell), and  *)
(* that the facade and its daemons are for the session one of the facades     *)
(* that BurnSession is about.                                               *)
(*                                                                          *)
(* The inductive invariant is that of the facade and that of the session, by  *)
(* instances of their proofs, with what relates them: which attempt is which  *)
(* call (Attempts), what a refusal says of the first herd (RefusalIsSaid), who *)
(* has the terminal (Screen) and what root was asked to run (Root).           *)
(***************************************************************************)
EXTENDS BurnSystem, TLAPS, WellFoundedInduction

\* The facade with its proofs; either daemon may go, as both do after the end.
FP == INSTANCE HerderFacadeProofs WITH Mortal <- {"std", "esc"}

SP == INSTANCE BurnSessionProofs
        WITH MaxInput <- 1, MaxHeard <- MaxEvents, heard <- Heard, handle <- HandleHeld

-----------------------------------------------------------------------------
(* Induction over the naturals, from the least element that a set of them has *)

LEMMA Least ==
    ASSUME NEW T, T \subseteq Nat, T # {}
    PROVE  \E x \in T : \A y \in T : x <= y
<1> DEFINE R == OpToRel(<, Nat)
<1>1. IsWellFoundedOn(R, Nat)
  BY NatLessThanWellFounded
<1> HIDE DEF R
<1>2. PICK x \in T : \A y \in T : ~ (<<y, x>> \in R)
  BY <1>1, WFMin
<1>3. \A y \in T : y < x => <<y, x>> \in R
  BY DEF R, OpToRel
<1>4. \A y \in T : ~ (y < x)
  BY <1>2, <1>3
<1>5. \A y \in T : x <= y
  BY <1>4
<1> QED BY <1>5

LEMMA Induction ==
    ASSUME NEW T, 0 \in T, \A n \in Nat : n \in T => n + 1 \in T
    PROVE  Nat \subseteq T
<1> SUFFICES ASSUME Nat \ T # {} PROVE FALSE
  OBVIOUS
<1>1. PICK x \in Nat \ T : \A y \in Nat \ T : x <= y
  BY Least
<1>2. x # 0 /\ x - 1 \in Nat /\ x - 1 \in T
  BY <1>1
<1>3. (x - 1) + 1 \in T
  BY <1>2
<1> QED BY <1>1, <1>2, <1>3

-----------------------------------------------------------------------------
(* How a shell reads a line, one character after the other                   *)

\* The function that Reading defines by recursion is there.
ReadsUpto(at, s, line, m) ==
    at = [n \in 0 .. m |-> IF n = 0 THEN s ELSE ShellStep(at[n - 1], line[n])]

LEMMA ReadingExists ==
    ASSUME NEW s, NEW line, NEW k \in Nat
    PROVE  \E at : ReadsUpto(at, s, line, k)
<1> DEFINE T == {m \in Nat : \E at : ReadsUpto(at, s, line, m)}
<1>1. 0 \in T
  <2> DEFINE f == [n \in 0 .. 0 |-> s]
  <2>1. ReadsUpto(f, s, line, 0)
    BY DEF ReadsUpto
  <2> QED BY <2>1
<1>2. ASSUME NEW m \in Nat, m \in T PROVE m + 1 \in T
  <2>1. PICK f : ReadsUpto(f, s, line, m)
    BY <1>2
  <2> DEFINE g == [n \in 0 .. m + 1 |->
                     IF n = m + 1 THEN ShellStep(f[m], line[n]) ELSE f[n]]
             h == [n \in 0 .. m + 1 |-> IF n = 0 THEN s ELSE ShellStep(g[n - 1], line[n])]
  <2>2. \A n \in 0 .. m + 1 : g[n] = h[n]
    <3> SUFFICES ASSUME NEW n \in 0 .. m + 1 PROVE g[n] = h[n]
      OBVIOUS
    <3>1. CASE n = m + 1
      <4>1. g[n - 1] = f[m] /\ n # 0
        BY <3>1
      <4> QED BY <3>1, <4>1
    <3>2. CASE n # m + 1
      <4>1. n \in 0 .. m /\ g[n] = f[n] /\ (n # 0 => g[n - 1] = f[n - 1])
        BY <3>2
      <4>2. f[n] = IF n = 0 THEN s ELSE ShellStep(f[n - 1], line[n])
        BY <2>1, <4>1 DEF ReadsUpto
      <4> QED BY <4>1, <4>2
    <3> QED BY <3>1, <3>2
  <2>3. g = h
    BY <2>2
  <2>4. ReadsUpto(g, s, line, m + 1)
    BY <2>3 DEF ReadsUpto
  <2> QED BY <2>4
<1>3. Nat \subseteq T
  <2> HIDE DEF T
  <2> QED BY <1>1, <1>2, Induction
<1> QED BY <1>3

LEMMA ReadingOf ==
    ASSUME NEW s, NEW line, Len(line) \in Nat
    PROVE  \E at : /\ Reading(s, line) = at[Len(line)]
                   /\ at[0] = s
                   /\ \A n \in 1 .. Len(line) : at[n] = ShellStep(at[n - 1], line[n])
<1> DEFINE at == CHOOSE f : ReadsUpto(f, s, line, Len(line))
<1>1. ReadsUpto(at, s, line, Len(line))
  BY ReadingExists
<1>2. Reading(s, line) = at[Len(line)]
  BY DEF Reading, ReadsUpto
<1> HIDE DEF at
<1>3. at[0] = s /\ \A n \in 1 .. Len(line) : at[n] = ShellStep(at[n - 1], line[n])
  BY <1>1 DEF ReadsUpto
<1> QED BY <1>2, <1>3

\* Induction over sequences, from their ends.
LEMMA Sequences ==
    ASSUME NEW Dom, NEW T, <<>> \in T,
           \A s \in Seq(Dom), e \in Dom : s \in T => Append(s, e) \in T
    PROVE  Seq(Dom) \subseteq T
<1> DEFINE U == {n \in Nat : \A s \in Seq(Dom) : Len(s) = n => s \in T}
<1>1. 0 \in U
  <2>1. \A s \in Seq(Dom) : Len(s) = 0 => s = <<>>
    OBVIOUS
  <2> QED BY <2>1
<1>2. ASSUME NEW n \in Nat, n \in U PROVE n + 1 \in U
  <2> SUFFICES ASSUME NEW s \in Seq(Dom), Len(s) = n + 1 PROVE s \in T
    OBVIOUS
  <2> DEFINE f == [i \in 1 .. n |-> s[i]]
  <2>1. f \in Seq(Dom) /\ Len(f) = n /\ s[n + 1] \in Dom
    OBVIOUS
  <2>2. Append(f, s[n + 1]) = s
    OBVIOUS
  <2>3. f \in T
    BY <1>2, <2>1
  <2> QED BY <2>1, <2>2, <2>3
<1>3. Nat \subseteq U
  <2> HIDE DEF U
  <2> QED BY <1>1, <1>2, Induction
<1> QED
  <2> SUFFICES ASSUME NEW s \in Seq(Dom) PROVE s \in T
    OBVIOUS
  <2>1. Len(s) \in U
    BY <1>3
  <2> QED BY <2>1

LEMMA ReadingNothing ==
    ASSUME NEW s
    PROVE  Reading(s, <<>>) = s
<1>1. Len(<<>>) = 0
  OBVIOUS
<1> QED BY <1>1, ReadingOf

LEMMA ReadingLonger ==
    ASSUME NEW s, NEW line \in Seq(Char), NEW more \in Seq(Char),
           Len(more) = Len(line) + 1, \A n \in 1 .. Len(line) : more[n] = line[n]
    PROVE  Reading(s, more) = ShellStep(Reading(s, line), more[Len(more)])
<1>1. Len(line) \in Nat /\ Len(more) \in Nat
  OBVIOUS
<1>2. PICK f : /\ Reading(s, line) = f[Len(line)] /\ f[0] = s
               /\ \A n \in 1 .. Len(line) : f[n] = ShellStep(f[n - 1], line[n])
  BY <1>1, ReadingOf
<1>3. PICK g : /\ Reading(s, more) = g[Len(more)] /\ g[0] = s
               /\ \A n \in 1 .. Len(more) : g[n] = ShellStep(g[n - 1], more[n])
  BY <1>1, ReadingOf
<1> DEFINE m == Len(line)
           T == {n \in Nat : n <= m => f[n] = g[n]}
<1>4. 0 \in T
  BY <1>2, <1>3
<1>5. ASSUME NEW n \in Nat, n \in T PROVE n + 1 \in T
  <2> SUFFICES ASSUME n + 1 <= m PROVE f[n + 1] = g[n + 1]
    OBVIOUS
  <2>1. n + 1 \in 1 .. m /\ n + 1 \in 1 .. Len(more) /\ (n + 1) - 1 = n /\ f[n] = g[n]
    BY <1>1, <1>5
  <2> QED BY <1>2, <1>3, <2>1
<1>6. Nat \subseteq T
  <2> HIDE DEF T
  <2> QED BY <1>4, <1>5, Induction
<1>7. f[m] = g[m]
  BY <1>1, <1>6
<1>8. g[m + 1] = ShellStep(g[m], more[m + 1])
  <2>1. m + 1 \in 1 .. Len(more) /\ (m + 1) - 1 = m
    BY <1>1
  <2> QED BY <1>3, <2>1
<1> QED BY <1>2, <1>3, <1>7, <1>8

LEMMA ReadingOne ==
    ASSUME NEW s, NEW line \in Seq(Char), NEW c \in Char
    PROVE  Reading(s, Append(line, c)) = ShellStep(Reading(s, line), c)
<1>1. /\ Append(line, c) \in Seq(Char) /\ Len(Append(line, c)) = Len(line) + 1
      /\ Append(line, c)[Len(Append(line, c))] = c
      /\ \A n \in 1 .. Len(line) : Append(line, c)[n] = line[n]
  OBVIOUS
<1> QED BY <1>1, ReadingLonger

LEMMA ReadingBoth ==
    ASSUME NEW s, NEW a \in Seq(Char)
    PROVE  \A b \in Seq(Char) : Reading(s, a \o b) = Reading(Reading(s, a), b)
<1> DEFINE T == {b \in Seq(Char) : Reading(s, a \o b) = Reading(Reading(s, a), b)}
<1>1. <<>> \in T
  <2>1. a \o <<>> = a
    OBVIOUS
  <2> QED BY <2>1, ReadingNothing
<1>2. ASSUME NEW b \in Seq(Char), NEW c \in Char, b \in T PROVE Append(b, c) \in T
  <2>1. a \o b \in Seq(Char) /\ a \o Append(b, c) = Append(a \o b, c) /\ Append(b, c) \in Seq(Char)
    OBVIOUS
  <2>2. Reading(s, Append(a \o b, c)) = ShellStep(Reading(s, a \o b), c)
    BY <2>1, ReadingOne
  <2>3. Reading(Reading(s, a), Append(b, c)) = ShellStep(Reading(Reading(s, a), b), c)
    BY ReadingOne
  <2> QED BY <1>2, <2>1, <2>2, <2>3
<1>3. Seq(Char) \subseteq T
  <2> HIDE DEF T
  <2> QED BY <1>1, <1>2, Sequences
<1> QED BY <1>3

\* The same for the function that FlattenSeq is defined by.
FlattensUpto(f, ss, m) ==
    f = [i \in 1 .. m |-> IF i = 1 THEN ss[i] ELSE f[i - 1] \o ss[i]]

LEMMA FlatteningExists ==
    ASSUME NEW ss, NEW k \in Nat
    PROVE  \E f : FlattensUpto(f, ss, k)
<1> DEFINE T == {m \in Nat : \E f : FlattensUpto(f, ss, m)}
<1>1. 0 \in T
  <2> DEFINE f == [i \in 1 .. 0 |-> ss]
  <2>1. FlattensUpto(f, ss, 0)
    BY DEF FlattensUpto
  <2> QED BY <2>1
<1>2. ASSUME NEW m \in Nat, m \in T PROVE m + 1 \in T
  <2>1. PICK f : FlattensUpto(f, ss, m)
    BY <1>2
  <2> DEFINE g == [i \in 1 .. m + 1 |->
                     IF i # m + 1 THEN f[i] ELSE IF i = 1 THEN ss[i] ELSE f[m] \o ss[i]]
             h == [i \in 1 .. m + 1 |-> IF i = 1 THEN ss[i] ELSE g[i - 1] \o ss[i]]
  <2>2. \A i \in 1 .. m + 1 : g[i] = h[i]
    <3> SUFFICES ASSUME NEW i \in 1 .. m + 1 PROVE g[i] = h[i]
      OBVIOUS
    <3>1. CASE i = m + 1
      <4>1. i # 1 => g[i - 1] = f[m]
        BY <3>1
      <4> QED BY <3>1, <4>1
    <3>2. CASE i # m + 1
      <4>1. i \in 1 .. m /\ g[i] = f[i] /\ (i # 1 => g[i - 1] = f[i - 1])
        BY <3>2
      <4>2. f[i] = IF i = 1 THEN ss[i] ELSE f[i - 1] \o ss[i]
        BY <2>1, <4>1 DEF FlattensUpto
      <4> QED BY <4>1, <4>2
    <3> QED BY <3>1, <3>2
  <2>3. g = h
    BY <2>2
  <2>4. FlattensUpto(g, ss, m + 1)
    BY <2>3 DEF FlattensUpto
  <2> QED BY <2>4
<1>3. Nat \subseteq T
  <2> HIDE DEF T
  <2> QED BY <1>1, <1>2, Induction
<1> QED BY <1>3

LEMMA FlatteningOf ==
    ASSUME NEW ss, Len(ss) \in Nat \ {0}
    PROVE  \E f : /\ FlattenSeq(ss) = f[Len(ss)]
                  /\ f[1] = ss[1]
                  /\ \A i \in 2 .. Len(ss) : f[i] = f[i - 1] \o ss[i]
<1> DEFINE f == CHOOSE g : FlattensUpto(g, ss, Len(ss))
<1>1. FlattensUpto(f, ss, Len(ss))
  BY FlatteningExists
<1>2. FlattenSeq(ss) = f[Len(ss)]
  BY DEF FlattenSeq, FlattensUpto
<1> HIDE DEF f
<1>3. ASSUME NEW i \in 1 .. Len(ss) PROVE f[i] = IF i = 1 THEN ss[i] ELSE f[i - 1] \o ss[i]
  BY <1>1 DEF FlattensUpto
<1>4. 1 \in 1 .. Len(ss) /\ \A i \in 2 .. Len(ss) : i \in 1 .. Len(ss) /\ i # 1
  OBVIOUS
<1>5. f[1] = ss[1]
  BY <1>3, <1>4
<1>6. \A i \in 2 .. Len(ss) : f[i] = f[i - 1] \o ss[i]
  BY <1>3, <1>4
<1> QED BY <1>2, <1>5, <1>6

LEMMA FlattenLonger ==
    ASSUME NEW Dom, NEW ss \in Seq(Dom), NEW more \in Seq(Dom), ss # <<>>,
           Len(more) = Len(ss) + 1, \A i \in 1 .. Len(ss) : more[i] = ss[i]
    PROVE  FlattenSeq(more) = FlattenSeq(ss) \o more[Len(more)]
<1>1. Len(ss) \in Nat \ {0} /\ Len(more) \in Nat \ {0}
  OBVIOUS
<1>2. PICK f : /\ FlattenSeq(ss) = f[Len(ss)] /\ f[1] = ss[1]
               /\ \A i \in 2 .. Len(ss) : f[i] = f[i - 1] \o ss[i]
  BY <1>1, FlatteningOf
<1>3. PICK g : /\ FlattenSeq(more) = g[Len(more)] /\ g[1] = more[1]
               /\ \A i \in 2 .. Len(more) : g[i] = g[i - 1] \o more[i]
  BY <1>1, FlatteningOf
<1> DEFINE m == Len(ss)
           T == {n \in Nat : n + 1 <= m => f[n + 1] = g[n + 1]}
<1>4. 0 \in T
  <2>1. 1 \in 1 .. m
    BY <1>1
  <2> QED BY <1>2, <1>3, <2>1
<1>5. ASSUME NEW n \in Nat, n \in T PROVE n + 1 \in T
  <2> SUFFICES ASSUME n + 2 <= m PROVE f[n + 2] = g[n + 2]
    OBVIOUS
  <2>1. n + 2 \in 2 .. m /\ n + 2 \in 2 .. Len(more) /\ n + 2 \in 1 .. m
        /\ (n + 2) - 1 = n + 1 /\ f[n + 1] = g[n + 1]
    BY <1>1, <1>5
  <2> QED BY <1>2, <1>3, <2>1
<1>6. Nat \subseteq T
  <2> HIDE DEF T
  <2> QED BY <1>4, <1>5, Induction
<1>7. f[m] = g[m]
  <2>1. PICK n \in Nat : m = n + 1
    BY <1>1
  <2>2. n \in T /\ n + 1 <= m
    BY <1>6, <2>1
  <2> QED BY <2>1, <2>2
<1>8. g[m + 1] = g[m] \o more[m + 1]
  <2>1. m + 1 \in 2 .. Len(more) /\ (m + 1) - 1 = m
    BY <1>1
  <2> QED BY <1>3, <2>1
<1> QED BY <1>2, <1>3, <1>7, <1>8

\* FlattenSeq puts one sequence behind the other.
LEMMA FlattenOne ==
    ASSUME NEW Dom, NEW ss \in Seq(Seq(Dom)), NEW w \in Seq(Dom)
    PROVE  FlattenSeq(Append(ss, w)) = FlattenSeq(ss) \o w
<1> DEFINE more == Append(ss, w)
<1>1. /\ more \in Seq(Seq(Dom)) /\ Len(more) = Len(ss) + 1 /\ more[Len(more)] = w
      /\ \A i \in 1 .. Len(ss) : more[i] = ss[i]
  OBVIOUS
<1>2. CASE ss # <<>>
  BY <1>1, <1>2, FlattenLonger
<1>3. CASE ss = <<>>
  <2>1. Len(<<w>>) \in Nat \ {0} /\ Len(<<w>>) = 1 /\ <<w>>[1] = w /\ Append(<<>>, w) = <<w>>
    OBVIOUS
  <2>2. FlattenSeq(<<w>>) = w
    BY <2>1, FlatteningOf
  <2>3. FlattenSeq(<<>>) = <<>> /\ <<>> \o w = w
    BY DEF FlattenSeq
  <2> QED BY <1>3, <2>1, <2>2, <2>3
<1> QED BY <1>2, <1>3

LEMMA FlattenType ==
    ASSUME NEW Dom
    PROVE  \A ss \in Seq(Seq(Dom)) : FlattenSeq(ss) \in Seq(Dom)
<1> DEFINE T == {ss \in Seq(Seq(Dom)) : FlattenSeq(ss) \in Seq(Dom)}
<1>1. <<>> \in T
  BY DEF FlattenSeq
<1>2. ASSUME NEW ss \in Seq(Seq(Dom)), NEW w \in Seq(Dom), ss \in T PROVE Append(ss, w) \in T
  <2>1. Append(ss, w) \in Seq(Seq(Dom)) /\ FlattenSeq(ss) \o w \in Seq(Dom)
    BY <1>2
  <2> QED BY <2>1, FlattenOne
<1>3. Seq(Seq(Dom)) \subseteq T
  <2> HIDE DEF T
  <2> QED BY <1>1, <1>2, Sequences
<1> QED BY <1>3

-----------------------------------------------------------------------------
(* What a shell makes of a command line                                      *)

\* The shell is in a word.
Within(words, word, mode) == [words |-> words, open |-> TRUE, word |-> word, mode |-> mode]

LEMMA ShellSteps ==
    ASSUME NEW ws, NEW w
    PROVE  /\ ShellStep(Between(ws), "'") = Within(ws, <<>>, "quoted")
           /\ ShellStep(Between(ws), "x") = Within(ws, <<"x">>, "bare")
           /\ ShellStep(Within(ws, w, "bare"), "x") = Within(ws, Append(w, "x"), "bare")
           /\ ShellStep(Within(ws, w, "bare"), " ") = Between(Append(ws, w))
           /\ ShellStep(Within(ws, w, "bare"), "'") = Within(ws, w, "quoted")
           /\ ShellStep(Within(ws, w, "bare"), "\\") = Within(ws, w, "escaped")
           /\ ShellStep(Within(ws, w, "quoted"), "'") = Within(ws, w, "bare")
<1>1. Append(<<>>, "x") = <<"x">>
  OBVIOUS
<1> QED BY <1>1 DEF ShellStep, Take, Close, Between, Within

LEMMA ShellTakes ==
    ASSUME NEW ws, NEW w, NEW c
    PROVE  /\ ShellStep(Within(ws, w, "escaped"), c) = Within(ws, Append(w, c), "bare")
           /\ c # "'" => ShellStep(Within(ws, w, "quoted"), c)
                            = Within(ws, Append(w, c), "quoted")
BY DEF ShellStep, Take, Within

LEMMA ReadingChar ==
    ASSUME NEW s, NEW c \in Char
    PROVE  Reading(s, <<c>>) = ShellStep(s, c)
<1>1. Append(<<>>, c) = <<c>> /\ <<>> \in Seq(Char)
  OBVIOUS
<1> QED BY <1>1, ReadingOne, ReadingNothing

LEMMA EscapeRead ==
    ASSUME NEW ws, NEW w, NEW c \in Char
    PROVE  /\ Escape(c) \in Seq(Char)
           /\ Reading(Within(ws, w, "quoted"), Escape(c)) = Within(ws, Append(w, c), "quoted")
<1>1. "'" \in Char /\ "\\" \in Char
  BY DEF Char
<1>2. CASE c # "'"
  <2>1. Escape(c) = <<c>>
    BY <1>2 DEF Escape
  <2>2. Reading(Within(ws, w, "quoted"), <<c>>) = ShellStep(Within(ws, w, "quoted"), c)
    BY ReadingChar
  <2>3. ShellStep(Within(ws, w, "quoted"), c) = Within(ws, Append(w, c), "quoted")
    BY <1>2, ShellTakes
  <2>4. <<c>> \in Seq(Char)
    OBVIOUS
  <2> QED BY <2>1, <2>2, <2>3, <2>4
<1>3. CASE c = "'"
  <2> DEFINE a == <<"'">>
             b == <<"'", "\\">>
             d == <<"'", "\\", "'">>
  <2>1. /\ a \in Seq(Char) /\ b \in Seq(Char) /\ d \in Seq(Char) /\ Escape(c) \in Seq(Char)
        /\ b = Append(a, "\\") /\ d = Append(b, "'") /\ Escape(c) = Append(d, "'")
    BY <1>1, <1>3 DEF Escape
  <2> HIDE DEF a, b, d
  <2> DEFINE start == Within(ws, w, "quoted")
  <2>2. Reading(start, a) = Within(ws, w, "bare")
    BY <1>1, ReadingChar, ShellSteps DEF a
  <2>3. /\ Reading(start, b) = ShellStep(Reading(start, a), "\\")
        /\ Reading(start, d) = ShellStep(Reading(start, b), "'")
        /\ Reading(start, Escape(c)) = ShellStep(Reading(start, d), "'")
    <3>1. \A line \in Seq(Char), e \in Char :
             Reading(start, Append(line, e)) = ShellStep(Reading(start, line), e)
      BY ReadingOne
    <3> QED BY <1>1, <2>1, <3>1
  <2>4. /\ ShellStep(Within(ws, w, "bare"), "\\") = Within(ws, w, "escaped")
        /\ ShellStep(Within(ws, w, "escaped"), "'") = Within(ws, Append(w, c), "bare")
        /\ ShellStep(Within(ws, Append(w, c), "bare"), "'") = Within(ws, Append(w, c), "quoted")
    <3>1. ShellStep(Within(ws, w, "bare"), "\\") = Within(ws, w, "escaped")
      BY ShellSteps
    <3>2. ShellStep(Within(ws, w, "escaped"), "'") = Within(ws, Append(w, c), "bare")
      BY <1>3, ShellTakes
    <3>3. ShellStep(Within(ws, Append(w, c), "bare"), "'") = Within(ws, Append(w, c), "quoted")
      BY ShellSteps
    <3> QED BY <3>1, <3>2, <3>3
  <2> QED BY <2>1, <2>2, <2>3, <2>4
<1> QED BY <1>2, <1>3

LEMMA WiderSeq ==
    ASSUME NEW Dom, NEW U, Dom \subseteq U, NEW s \in Seq(Dom)
    PROVE  s \in Seq(U)
OBVIOUS

LEMMA PlainRead ==
    ASSUME NEW ws
    PROVE  \A word \in Seq({"x"}) :
              word # <<>> => Reading(Between(ws), word) = Within(ws, word, "bare")
<1> DEFINE start == Between(ws)
           T == {word \in Seq({"x"}) :
                   word = <<>> \/ Reading(start, word) = Within(ws, word, "bare")}
<1>1. <<>> \in T
  OBVIOUS
<1>2. ASSUME NEW word \in Seq({"x"}), NEW c \in {"x"}, word \in T PROVE Append(word, c) \in T
  <2>1. word \in Seq(Char) /\ c \in Char /\ c = "x" /\ Append(word, c) \in Seq({"x"})
    <3>1. {"x"} \subseteq Char
      BY DEF Char
    <3>2. word \in Seq(Char)
      BY <3>1, WiderSeq
    <3> QED BY <3>1, <3>2
  <2>2. Reading(start, Append(word, c)) = ShellStep(Reading(start, word), "x")
    BY <2>1, ReadingOne
  <2>3. CASE word = <<>>
    <3>1. Reading(start, word) = start
      BY <2>3, ReadingNothing
    <3>2. ShellStep(start, "x") = Within(ws, <<"x">>, "bare")
      BY ShellSteps
    <3>3. Append(word, c) = <<"x">>
      BY <2>1, <2>3
    <3> QED BY <2>1, <2>2, <3>1, <3>2, <3>3
  <2>4. CASE Reading(start, word) = Within(ws, word, "bare")
    <3>1. ShellStep(Within(ws, word, "bare"), "x") = Within(ws, Append(word, "x"), "bare")
      BY ShellSteps
    <3> QED BY <2>1, <2>2, <2>4, <3>1
  <2> QED BY <1>2, <2>3, <2>4
<1>3. Seq({"x"}) \subseteq T
  <2> HIDE DEF T
  <2> QED BY <1>1, <1>2, Sequences
<1> QED BY <1>3

Escapes(word) == [i \in DOMAIN word |-> Escape(word[i])]

LEMMA EscapesType ==
    ASSUME NEW word \in Seq(Char)
    PROVE  Escapes(word) \in Seq(Seq(Char))
<1> DEFINE n == Len(word)
           Dom == Seq(Char)
<1>1. n \in Nat /\ DOMAIN word = 1 .. n /\ \A i \in 1 .. n : word[i] \in Char
  OBVIOUS
<1>2. \A i \in 1 .. n : Escape(word[i]) \in Dom
  BY <1>1, EscapeRead
<1> HIDE DEF n, Dom
<1>3. Escapes(word) \in [1 .. n -> Dom]
  BY <1>1, <1>2 DEF Escapes
<1>4. Escapes(word) \in Seq(Dom)
  BY <1>1, <1>3
<1> QED BY <1>4 DEF Dom

LEMMA EscapesOne ==
    ASSUME NEW word \in Seq(Char), NEW c \in Char
    PROVE  /\ Escapes(word) \in Seq(Seq(Char)) /\ Escape(c) \in Seq(Char)
           /\ Escapes(Append(word, c)) = Append(Escapes(word), Escape(c))
<1>1. \A e \in Char : Escape(e) \in Seq(Char)
  BY EscapeRead
<1>2. Escapes(word) \in Seq(Seq(Char))
  BY EscapesType
<1>3. Escapes(Append(word, c)) = Append(Escapes(word), Escape(c))
  BY <1>1, <1>2 DEF Escapes
<1> QED BY <1>1, <1>2, <1>3

LEMMA EscapesRead ==
    ASSUME NEW ws
    PROVE  \A word \in Seq(Char) :
              /\ FlattenSeq(Escapes(word)) \in Seq(Char)
              /\ Reading(Within(ws, <<>>, "quoted"), FlattenSeq(Escapes(word)))
                   = Within(ws, word, "quoted")
<1> DEFINE start == Within(ws, <<>>, "quoted")
           Flat(word) == FlattenSeq(Escapes(word))
           T == {word \in Seq(Char) : Reading(start, Flat(word)) = Within(ws, word, "quoted")}
<1>1. <<>> \in T
  <2>1. Escapes(<<>>) = <<>> /\ FlattenSeq(<<>>) = <<>>
    BY DEF Escapes, FlattenSeq
  <2>2. Reading(start, <<>>) = start
    BY ReadingNothing
  <2> QED BY <2>1, <2>2
<1>2. \A word \in Seq(Char) : Flat(word) \in Seq(Char)
  <2> SUFFICES ASSUME NEW word \in Seq(Char) PROVE Flat(word) \in Seq(Char)
    OBVIOUS
  <2>1. Escapes(word) \in Seq(Seq(Char))
    BY EscapesType
  <2> QED BY <2>1, FlattenType
<1>3. ASSUME NEW word \in Seq(Char), NEW c \in Char, word \in T PROVE Append(word, c) \in T
  <2>1. Flat(Append(word, c)) = Flat(word) \o Escape(c)
    BY EscapesOne, FlattenOne
  <2>2. Flat(word) \in Seq(Char) /\ Escape(c) \in Seq(Char)
    BY <1>2, EscapesOne
  <2>3. Reading(start, Flat(word) \o Escape(c)) = Reading(Reading(start, Flat(word)), Escape(c))
    BY <2>2, ReadingBoth
  <2>4. Reading(start, Flat(word)) = Within(ws, word, "quoted")
    BY <1>3
  <2>5. Reading(Within(ws, word, "quoted"), Escape(c)) = Within(ws, Append(word, c), "quoted")
    BY EscapeRead
  <2>6. Append(word, c) \in Seq(Char)
    OBVIOUS
  <2> HIDE DEF Flat, start
  <2>7. Reading(start, Flat(Append(word, c))) = Within(ws, Append(word, c), "quoted")
    BY <2>1, <2>3, <2>4, <2>5
  <2> QED BY <2>6, <2>7
<1>4. Seq(Char) \subseteq T
  <2> HIDE DEF T
  <2> QED BY <1>1, <1>3, Sequences
<1> QED BY <1>2, <1>4

\* From between two words, a quoted word is read as that word.
LEMMA QuoteRead ==
    ASSUME NEW ws, NEW word \in Seq(Char)
    PROVE  /\ Quote(word) \in Seq(Char)
           /\ Reading(Between(ws), Quote(word)) = Within(ws, word, "bare")
<1>1. CASE IsPlain(word)
  <2>1. Quote(word) = word /\ word \in Seq({"x"}) /\ word # <<>>
    BY <1>1 DEF Quote, IsPlain
  <2> QED BY <2>1, PlainRead
<1>2. CASE ~ IsPlain(word)
  <2> DEFINE flat == FlattenSeq(Escapes(word))
             q == <<"'">>
  <2>1. Quote(word) = (q \o flat) \o q
    BY <1>2 DEF Quote, Escapes
  <2>2. flat \in Seq(Char) /\ q \in Seq(Char) /\ "'" \in Char
    <3>1. "'" \in Char
      BY DEF Char
    <3>2. flat \in Seq(Char)
      BY EscapesRead
    <3> QED BY <3>1, <3>2
  <2>3. Reading(Between(ws), q) = Within(ws, <<>>, "quoted")
    BY <2>2, ReadingChar, ShellSteps
  <2>4. Reading(Within(ws, <<>>, "quoted"), flat) = Within(ws, word, "quoted")
    BY EscapesRead
  <2>5. Reading(Within(ws, word, "quoted"), q) = Within(ws, word, "bare")
    <3>1. ShellStep(Within(ws, word, "quoted"), "'") = Within(ws, word, "bare")
      BY ShellSteps
    <3> QED BY <2>2, <3>1, ReadingChar
  <2> HIDE DEF flat, q
  <2>6. q \o flat \in Seq(Char) /\ (q \o flat) \o q \in Seq(Char)
    BY <2>2
  <2>7. Reading(Between(ws), q \o flat) = Reading(Reading(Between(ws), q), flat)
    BY <2>2, ReadingBoth
  <2>8. Reading(Between(ws), (q \o flat) \o q) = Reading(Reading(Between(ws), q \o flat), q)
    BY <2>2, <2>6, ReadingBoth
  <2> QED BY <2>1, <2>3, <2>4, <2>5, <2>6, <2>7, <2>8
<1> QED BY <1>1, <1>2

LEMMA Lines ==
    /\ \A a, b \in Seq(Char) : a \o b \in Seq(Char)
    /\ " " \in Char /\ <<" ">> \in Seq(Char) /\ <<"x">> \in Seq(Char)
<1>1. \A c \in Char : <<c>> \in Seq(Char)
  OBVIOUS
<1>2. " " \in Char /\ "x" \in Char
  BY DEF Char
<1>3. \A a, b \in Seq(Char) : a \o b \in Seq(Char)
  OBVIOUS
<1>4. <<" ">> \in Seq(Char)
  BY <1>1, <1>2
<1>5. <<"x">> \in Seq(Char)
  BY <1>1, <1>2
<1> QED BY <1>2, <1>3, <1>4, <1>5

Parts(cmd) ==
    [i \in DOMAIN cmd |-> IF i = 1 THEN Quote(cmd[i]) ELSE <<" ">> \o Quote(cmd[i])]

LEMMA PartsType ==
    ASSUME NEW cmd \in Seq(Seq(Char))
    PROVE  Parts(cmd) \in Seq(Seq(Char)) /\ CommandLine(cmd) \in Seq(Char)
<1> DEFINE n == Len(cmd)
           Dom == Seq(Char)
<1>1. n \in Nat /\ DOMAIN cmd = 1 .. n /\ \A i \in 1 .. n : cmd[i] \in Dom
  OBVIOUS
<1>2. \A w \in Dom : Quote(w) \in Dom
  BY QuoteRead
<1>4. \A w \in Dom : <<" ">> \o Quote(w) \in Dom
  BY <1>2, Lines
<1> HIDE DEF n, Dom
<1>5. Parts(cmd) \in [1 .. n -> Dom]
  BY <1>1, <1>2, <1>4 DEF Parts
<1>6. Parts(cmd) \in Seq(Dom)
  BY <1>1, <1>5
<1>7. Parts(cmd) \in Seq(Seq(Char))
  BY <1>6 DEF Dom
<1>8. CommandLine(cmd) = FlattenSeq(Parts(cmd))
  BY DEF CommandLine, Parts
<1> QED BY <1>7, <1>8, FlattenType

LEMMA PartsOne ==
    ASSUME NEW cmd \in Seq(Seq(Char)), NEW w \in Seq(Char)
    PROVE  CommandLine(Append(cmd, w)) =
              CommandLine(cmd) \o (IF cmd = <<>> THEN Quote(w) ELSE <<" ">> \o Quote(w))
<1> DEFINE more == Append(cmd, w)
           n == Len(cmd)
           part == IF cmd = <<>> THEN Quote(w) ELSE <<" ">> \o Quote(w)
<1>1. /\ n \in Nat /\ DOMAIN cmd = 1 .. n /\ DOMAIN more = 1 .. n + 1
      /\ more \in Seq(Seq(Char)) /\ more[n + 1] = w
      /\ \A i \in 1 .. n : more[i] = cmd[i]
      /\ n = 0 <=> cmd = <<>>
  OBVIOUS
<1>2. Parts(cmd) \in Seq(Seq(Char)) /\ Parts(more) \in Seq(Seq(Char))
  BY <1>1, PartsType
<1>3. /\ DOMAIN Parts(cmd) = 1 .. n /\ DOMAIN Parts(more) = 1 .. n + 1
      /\ \A i \in 1 .. n : Parts(more)[i] = Parts(cmd)[i]
      /\ Parts(more)[n + 1] = part
  <2> HIDE DEF n, more
  <2>1. n + 1 \in 1 .. n + 1 /\ (n + 1 = 1 <=> cmd = <<>>)
    BY <1>1
  <2>2. \A i \in 1 .. n : i \in 1 .. n + 1
    BY <1>1
  <2> QED BY <1>1, <2>1, <2>2 DEF Parts
<1>4. part \in Seq(Char)
  <2>1. Quote(w) \in Seq(Char)
    BY QuoteRead
  <2>2. <<" ">> \o Quote(w) \in Seq(Char)
    BY <2>1, Lines
  <2> QED BY <2>1, <2>2
<1> HIDE DEF n, more, part
<1>5. Parts(more) = Append(Parts(cmd), part)
  <2> DEFINE Dom == Seq(Char)
  <2>1. Parts(cmd) \in Seq(Dom) /\ Parts(more) \in Seq(Dom) /\ part \in Dom
    BY <1>2, <1>4
  <2> HIDE DEF Dom
  <2>2. Len(Parts(cmd)) = n /\ Len(Parts(more)) = n + 1
    BY <1>1, <1>3, <2>1
  <2> QED BY <1>1, <1>3, <2>1, <2>2
<1>6. FlattenSeq(Parts(more)) = FlattenSeq(Parts(cmd)) \o part
  BY <1>2, <1>4, <1>5, FlattenOne
<1>7. CommandLine(cmd) = FlattenSeq(Parts(cmd)) /\ CommandLine(more) = FlattenSeq(Parts(more))
  BY DEF CommandLine, Parts
<1> QED BY <1>6, <1>7 DEF more, part

LEMMA CommandRead ==
    \A cmd \in Seq(Seq(Char)) :
        cmd # <<>> => \E ws, w : /\ cmd = Append(ws, w)
                                 /\ Reading(Between(<<>>), CommandLine(cmd))
                                      = Within(ws, w, "bare")
<1> DEFINE IsRead(cmd) ==
              \E ws, w : /\ cmd = Append(ws, w)
                         /\ Reading(Between(<<>>), CommandLine(cmd)) = Within(ws, w, "bare")
           T == {cmd \in Seq(Seq(Char)) : cmd = <<>> \/ IsRead(cmd)}
<1>1. <<>> \in T
  OBVIOUS
<1>2. ASSUME NEW cmd \in Seq(Seq(Char)), NEW w \in Seq(Char), cmd \in T
      PROVE  Append(cmd, w) \in T
  <2>1. Append(cmd, w) \in Seq(Seq(Char)) /\ CommandLine(cmd) \in Seq(Char)
    BY PartsType
  <2>2. Reading(Between(<<>>), CommandLine(Append(cmd, w))) = Within(cmd, w, "bare")
    <3>1. CASE cmd = <<>>
      <4>1. CommandLine(<<>>) = <<>>
        BY DEF CommandLine, FlattenSeq
      <4>2. <<>> \o Quote(w) = Quote(w)
        BY QuoteRead
      <4>3. CommandLine(Append(cmd, w)) = Quote(w)
        BY <3>1, <4>1, <4>2, PartsOne
      <4>4. Reading(Between(<<>>), Quote(w)) = Within(<<>>, w, "bare")
        BY QuoteRead
      <4> QED BY <3>1, <4>3, <4>4
    <3>2. CASE cmd # <<>>
      <4> DEFINE line == CommandLine(cmd)
                 q == Quote(w)
                 b == <<" ">>
                 start == Between(<<>>)
      <4>1. PICK ws, v : cmd = Append(ws, v) /\ Reading(start, line) = Within(ws, v, "bare")
        BY <1>2, <3>2
      <4>2. line \in Seq(Char) /\ q \in Seq(Char) /\ b \in Seq(Char) /\ " " \in Char
        BY <2>1, QuoteRead, Lines
      <4>3. Reading(Within(ws, v, "bare"), b) = Between(Append(ws, v))
        <5>1. ShellStep(Within(ws, v, "bare"), " ") = Between(Append(ws, v))
          BY ShellSteps
        <5> QED BY <4>2, <5>1, ReadingChar
      <4>4. Reading(Between(cmd), q) = Within(cmd, w, "bare")
        BY QuoteRead
      <4>5. CommandLine(Append(cmd, w)) = line \o (b \o q)
        BY <3>2, PartsOne
      <4> HIDE DEF line, q, b, start
      <4>6. b \o q \in Seq(Char)
        BY <4>2, Lines
      <4>7. Reading(start, line \o (b \o q)) = Reading(Reading(start, line), b \o q)
        BY <4>2, <4>6, ReadingBoth
      <4>8. Reading(Within(ws, v, "bare"), b \o q) = Reading(Between(cmd), q)
        <5>1. Reading(Within(ws, v, "bare"), b \o q)
                = Reading(Reading(Within(ws, v, "bare"), b), q)
          BY <4>2, ReadingBoth
        <5> QED BY <4>1, <4>3, <5>1
      <4>9. Reading(start, CommandLine(Append(cmd, w))) = Within(cmd, w, "bare")
        BY <4>1, <4>4, <4>5, <4>7, <4>8
      <4> QED BY <4>9 DEF start
    <3> QED BY <3>1, <3>2
  <2> QED BY <2>1, <2>2
<1>3. Seq(Seq(Char)) \subseteq T
  <2> HIDE DEF T
  <2> QED BY <1>1, <1>2, Sequences
<1> QED BY <1>3

(* A shell takes the words of any command, whatever characters they are of,  *)
(* from the line that CommandLine makes of it (shell_words::quote and join): *)
(* none is split, dropped or expanded.                                       *)
THEOREM QuotingIsUndone ==
    \A cmd \in Seq(Seq(Char)) : cmd # <<>> => ShellWords(CommandLine(cmd)) = cmd
<1> SUFFICES ASSUME NEW cmd \in Seq(Seq(Char)), cmd # <<>>
             PROVE  ShellWords(CommandLine(cmd)) = cmd
  OBVIOUS
<1>1. PICK ws, w : /\ cmd = Append(ws, w)
                   /\ Reading(Between(<<>>), CommandLine(cmd)) = Within(ws, w, "bare")
  BY CommandRead
<1>2. Close(Within(ws, w, "bare")).words = Append(ws, w)
  BY DEF Close, Within, Between
<1> QED BY <1>1, <1>2 DEF ShellWords

\* So that nothing else than the daemon is run as root.
LEMMA EscalatesTheDaemon == Escalations \subseteq {HerderCommand(self) : self \in SelfPaths}
<1> SUFFICES ASSUME NEW installed, NEW self \in SelfPaths
             PROVE  RunAsRoot(installed, HerderCommand(self)) = HerderCommand(self)
  BY DEF Escalations
<1> DEFINE cmd == HerderCommand(self)
<1>1. cmd \in Seq(Seq(Char)) /\ cmd # <<>>
  <2>1. self \in Seq(Char) /\ <<"x">> \in Seq(Char) /\ LogPath \in Seq(Char)
    BY SystemAssumption, Lines
  <2> QED BY <2>1 DEF HerderCommand
<1> HIDE DEF cmd
<1>2. ShellWords(CommandLine(cmd)) = cmd
  BY <1>1, QuotingIsUndone
<1>3. ASSUME NEW tool PROVE Last(Wrap(tool, cmd).args) = "-c" /\ Wrap(tool, cmd).line = CommandLine(cmd)
  <2>1. CASE tool = "su"
    BY <2>1 DEF Wrap, Last
  <2>2. CASE tool # "su"
    BY <2>2 DEF Wrap, Last
  <2> QED BY <2>1, <2>2
<1>4. RunAsRoot(installed, cmd) = cmd
  BY <1>2, <1>3 DEF RunAsRoot
<1> QED BY <1>4 DEF cmd

-----------------------------------------------------------------------------
(* The names of the two instances of each module                             *)

LEMMA SameNames ==
    /\ F!Id = FP!Id /\ F!Id = {0, 1} /\ F!Daemon = FP!Daemon /\ F!Daemon = {"std", "esc"}
    /\ FP!Event = Event /\ SP!Event = Event /\ FP!Failure = Failure /\ SP!Failure = Failure
    /\ FP!InitSuccess = InitSuccess /\ SP!InitSuccess = InitSuccess
    /\ FP!Success = Success /\ SP!Success = Success
    /\ \A e : FP!Error(e) = Error(e) /\ SP!Error(e) = Error(e)
    /\ \A v : FP!FinishedWriting(v) = FinishedWriting(v)
              /\ SP!FinishedWriting(v) = FinishedWriting(v)
    /\ \A e : (FP!IsFinal(e) <=> IsFinal(e)) /\ (SP!IsFinal(e) <=> IsFinal(e))
<1>1. F!Id = FP!Id /\ F!Id = {0, 1}
  BY SystemAssumption DEF F!Id, FP!Id
<1>2. F!Daemon = FP!Daemon /\ F!Daemon = {"std", "esc"}
  BY DEF F!Daemon, FP!Daemon
<1>3. /\ FP!Event = Event /\ SP!Event = Event /\ FP!Failure = Failure /\ SP!Failure = Failure
      /\ FP!InitSuccess = InitSuccess /\ SP!InitSuccess = InitSuccess
      /\ FP!Success = Success /\ SP!Success = Success
  BY DEF Event, FP!Event, SP!Event, Failure, FP!Failure, SP!Failure, IoError, FP!IoError,
         SP!IoError, InitSuccess, FP!InitSuccess, SP!InitSuccess, Success, FP!Success,
         SP!Success
<1>4. /\ \A e : FP!Error(e) = Error(e) /\ SP!Error(e) = Error(e)
      /\ \A v : FP!FinishedWriting(v) = FinishedWriting(v)
                /\ SP!FinishedWriting(v) = FinishedWriting(v)
      /\ \A e : (FP!IsFinal(e) <=> IsFinal(e)) /\ (SP!IsFinal(e) <=> IsFinal(e))
  BY DEF Error, FP!Error, SP!Error, FinishedWriting, FP!FinishedWriting, SP!FinishedWriting,
         IsFinal, FP!IsFinal, SP!IsFinal
<1> QED BY <1>1, <1>2, <1>3, <1>4

LEMMA SameWellFormed ==
    \A s : (F!WellFormed(s) <=> FP!WellFormed(s)) /\ (SP!WellFormed(s) <=> FP!WellFormed(s))
BY DEF F!WellFormed, FP!WellFormed, SP!WellFormed, F!Finishes, FP!Finishes, SP!Finishes,
       F!IsFinal, FP!IsFinal, SP!IsFinal, F!FinishedWriting, FP!FinishedWriting,
       SP!FinishedWriting, F!Success, FP!Success, SP!Success

\* What the facade's actions are in terms of the instance with the proofs.
LEMMA SameFacade ==
    /\ F!Init => FP!Init
    /\ \A k \in F!Daemon :
          /\ F!StartHerd(k) => FP!StartHerd(k)
          /\ F!ReaderDelivers(k) => FP!ReaderDelivers(k)
          /\ F!ReaderDies(k) => FP!ReaderDies(k)
          /\ F!DaemonSpawnsWriter(k) => FP!DaemonSpawnsWriter(k)
          /\ F!DaemonGoes(k) => FP!DaemonDies(k)
          /\ F!DaemonDies(k) => FP!DaemonDies(k)
    /\ F!SpawnDaemon => FP!SpawnDaemon
    /\ F!SpawnFails => FP!SpawnFails
    /\ F!SendRequest => FP!SendRequest
    /\ F!TakeReceiver => FP!TakeReceiver
    /\ F!FirstEvent => FP!FirstEvent
    /\ \A i \in F!Id :
          /\ F!Consume(i) => FP!Consume(i)
          /\ F!WriterSends(i) => FP!WriterSends(i)
          /\ F!WriterPanics(i) => FP!WriterPanics(i)
<1> USE DEF F!callVars, FP!callVars, F!clientVars, FP!clientVars, F!herdVars, FP!herdVars,
            F!demuxVars, FP!demuxVars, F!Return, FP!Return, F!Idle, FP!Idle,
            F!HandleEvent, FP!HandleEvent
<1>1. F!Init => FP!Init
  BY SameNames DEF F!Init, FP!Init
<1>2. ASSUME NEW k \in F!Daemon
      PROVE  /\ F!StartHerd(k) => FP!StartHerd(k)
             /\ F!ReaderDelivers(k) => FP!ReaderDelivers(k)
             /\ F!ReaderDies(k) => FP!ReaderDies(k)
             /\ F!DaemonSpawnsWriter(k) => FP!DaemonSpawnsWriter(k)
  BY SameNames DEF F!StartHerd, FP!StartHerd, F!MayCall, FP!MayCall, F!ReaderDelivers, FP!ReaderDelivers,
     F!ReaderDies, FP!ReaderDies, F!DaemonSpawnsWriter, FP!DaemonSpawnsWriter
<1>3. ASSUME NEW k \in F!Daemon
      PROVE  /\ F!DaemonGoes(k) => FP!DaemonDies(k)
             /\ F!DaemonDies(k) => FP!DaemonDies(k)
  BY SameNames DEF F!DaemonGoes, FP!DaemonGoes, F!DaemonDies, FP!DaemonDies
<1>4. /\ F!SpawnDaemon => FP!SpawnDaemon
      /\ F!SpawnFails => FP!SpawnFails
      /\ F!SendRequest => FP!SendRequest
      /\ F!TakeReceiver => FP!TakeReceiver
  BY DEF F!SpawnDaemon, FP!SpawnDaemon, F!SpawnFails, FP!SpawnFails,
         F!SendRequest, FP!SendRequest, F!RequestFails, FP!RequestFails, F!TakeReceiver, FP!TakeReceiver
<1>5. F!FirstEvent => FP!FirstEvent
  BY DEF F!FirstEvent, FP!FirstEvent
<1>6. ASSUME NEW i \in F!Id
      PROVE  /\ F!Consume(i) => FP!Consume(i)
             /\ F!WriterPanics(i) => FP!WriterPanics(i)
  <2>1. \A e : F!EndsStream(e) <=> FP!EndsStream(e)
    BY DEF F!EndsStream, FP!EndsStream, F!IsFinal, FP!IsFinal, F!FinishedWriting,
           FP!FinishedWriting
  <2>2. F!Consume(i) => FP!Consume(i)
    BY <2>1 DEF F!Consume, FP!Consume
  <2>3. F!WriterPanics(i) => FP!WriterPanics(i)
    BY SystemAssumption, SameNames DEF F!WriterPanics, FP!WriterPanics
  <2> QED BY <2>2, <2>3
<1>7. ASSUME NEW i \in F!Id PROVE F!WriterSends(i) => FP!WriterSends(i)
  <2>1. F!Event = FP!Event
    BY DEF F!Event, FP!Event, F!Failure, FP!Failure, F!IoError, FP!IoError
  <2>2. \A e : F!IsFinal(e) <=> FP!IsFinal(e)
    BY DEF F!IsFinal, FP!IsFinal
  <2> QED BY <2>1, <2>2, SameWellFormed DEF F!WriterSends, FP!WriterSends
<1> QED BY <1>1, <1>2, <1>3, <1>4, <1>5, <1>6, <1>7

\* What the two modules assume of their constants is so here.
LEMMA AssumptionsHold == FP!FacadeAssumption /\ SP!SessionAssumption
BY SystemAssumption, SameNames DEF FP!FacadeAssumption, SP!SessionAssumption, FP!Daemon

\* The same of the session's actions.
LEMMA SameSession ==
    /\ S!Init => SP!Init
    /\ S!UiOpens => SP!UiOpens
    /\ \A e : S!FirstRefused(e) => SP!FirstRefused(e)
    /\ S!SecondRefused => SP!SecondRefused
    /\ S!Confirm => SP!Confirm
    /\ \A e, src : S!Reacts(e, src) => SP!Reacts(e, src)
    /\ \A k \in S!Key : k \in SP!Key /\ (S!KeyDown(k) => SP!KeyDown(k))
    /\ S!TerminalFails => SP!TerminalFails
    /\ \A signal : S!Killed(signal) => SP!Killed(signal)
<1> USE DEF S!Running, SP!Running, S!startVars, SP!startVars, S!Initial, SP!Initial,
            S!Finished, SP!Finished, S!Draw, SP!Draw, S!IsNumber, SP!IsNumber,
            S!Ratio, SP!Ratio
<1>1. S!Init => SP!Init
  BY DEF S!Init, SP!Init, S!Args, SP!Args
<1>2. S!UiOpens => SP!UiOpens
  BY DEF S!UiOpens, SP!UiOpens
<1>3. /\ \A e : S!FirstRefused(e) => SP!FirstRefused(e)
      /\ S!SecondRefused => SP!SecondRefused
  BY DEF S!FirstRefused, SP!FirstRefused, S!AfterRefusal, SP!AfterRefusal,
     S!SecondRefused, SP!SecondRefused
<1>4. S!Confirm => SP!Confirm
  BY DEF S!Confirm, SP!Confirm
<1>5. \A e, src : S!Reacts(e, src) => SP!Reacts(e, src)
  BY DEF S!Reacts, SP!Reacts, S!Unexpected, SP!Unexpected, S!OnStatus, SP!OnStatus,
     S!OnTotalBytes, SP!OnTotalBytes, S!OnFinishedWriting, SP!OnFinishedWriting,
     S!IntoFinished, SP!IntoFinished, S!IntoVerifying, SP!IntoVerifying,
     S!StreamEnded, SP!StreamEnded, S!FancyReacts, SP!FancyReacts,
     S!SimpleReacts, SP!SimpleReacts
<1>6. \A k \in S!Key : k \in SP!Key /\ (S!KeyDown(k) => SP!KeyDown(k))
  BY DEF S!Key, SP!Key, S!KeyDown, SP!KeyDown, S!KeyInModal, SP!KeyInModal,
     S!QuitsAtOnce, SP!QuitsAtOnce, S!OpensModal, SP!OpensModal
<1>7. /\ S!TerminalFails => SP!TerminalFails
      /\ \A signal : S!Killed(signal) => SP!Killed(signal)
  BY DEF S!TerminalFails, SP!TerminalFails, S!Killed, SP!Killed
<1> QED BY <1>1, <1>2, <1>3, <1>4, <1>5, <1>6, <1>7

-----------------------------------------------------------------------------
(* Every step is a step of the facade, or none                               *)

LEMMA FacadeStep == [Next]_vars => [FP!Next]_(FP!vars)
<1> SUFFICES ASSUME [Next]_vars PROVE FP!Next \/ UNCHANGED FP!vars
  OBVIOUS
<1>1. UNCHANGED facadeVars => UNCHANGED FP!vars
  BY DEF facadeVars, FP!vars
<1>2. F!Id = FP!Id /\ F!Daemon = FP!Daemon /\ "std" \in F!Daemon /\ "esc" \in F!Daemon
  BY SameNames
<1>3. ASSUME NEW k \in F!Daemon,
             \/ F!StartHerd(k) \/ F!ReaderDelivers(k) \/ F!ReaderDies(k)
             \/ F!DaemonSpawnsWriter(k) \/ F!DaemonGoes(k) \/ F!DaemonDies(k)
      PROVE  FP!Next
  BY <1>2, <1>3, SameFacade DEF FP!Next
<1>4. F!SpawnDaemon \/ F!SpawnFails \/ F!SendRequest \/ F!TakeReceiver \/ F!FirstEvent
        => FP!Next
  BY SameFacade DEF FP!Next, FP!CallStep
<1>5. ASSUME NEW i \in F!Id, F!Consume(i) \/ F!WriterSends(i) \/ F!WriterPanics(i)
      PROVE  FP!Next
  BY <1>2, <1>5, SameFacade DEF FP!Next
<1>a. CASE Asks
  BY <1>a, <1>2, <1>3 DEF Asks
<1>b. CASE Spawns \/ SendsRequest \/ TakesReceiver \/ IsAnswered \/ SpawnFails
  BY <1>b, <1>4 DEF Spawns, SendsRequest, TakesReceiver, IsAnswered, SpawnFails
<1>c. CASE Hears \/ \E i \in F!Id : WriterSends(i)
  BY <1>c, <1>5 DEF Hears, WriterSends
<1>d. CASE \E k \in F!Daemon :
              ReaderDelivers(k) \/ DaemonSpawnsWriter(k) \/ DaemonQuits(k) \/ ReaderDies(k)
  BY <1>d, <1>3 DEF ReaderDelivers, DaemonSpawnsWriter, DaemonQuits, ReaderDies
<1>e. CASE Breaks
  BY <1>e, <1>3, <1>5 DEF Breaks
<1>f. CASE UserActs \/ CtrlC \/ IsKilled \/ UNCHANGED vars
  BY <1>f, <1>1 DEF UserActs, CtrlC, IsKilled, vars
<1> QED
  BY <1>a, <1>b, <1>c, <1>d, <1>e, <1>f DEF Next, SystemStep, CallStep

\* So whatever holds of the facade by itself holds of it here.
LEMMA FacadeHolds == Spec => []FP!ConversationInv
<1>1. Init => FP!ConversationInv
  BY SameFacade, FP!ConversationInit, AssumptionsHold DEF Init
<1>2. FP!ConversationInv /\ [Next]_vars => FP!ConversationInv'
  BY FacadeStep, FP!ConversationStep, AssumptionsHold
<1> QED BY <1>1, <1>2, PTL DEF Spec

-----------------------------------------------------------------------------
(* The inductive invariant: that of the facade, that of the session, and what *)
(* the system adds to them.                                                  *)

\* Where a burn is, as the facade and the session see it.
Attempts ==
    /\ pc = "first_try" =>
          \/ nextId = 0 /\ call.pc = "idle"
          \/ nextId = 1 /\ call.pc # "idle" /\ call.id = 0 /\ call.on = "std"
    /\ pc = "prompt" => nextId = 1 /\ call.pc = "idle"
    /\ pc = "second_try" =>
          \/ nextId = 1 /\ call.pc = "idle"
          \/ nextId = 2 /\ call.pc # "idle" /\ call.id = 1 /\ call.on = "esc"
    /\ pc \in {"failed", "fancy", "simple"} => call.pc = "idle"
    /\ pc \in {"first_try", "prompt", "second_try"} => Started = {}
    /\ pc \in {"fancy", "simple"} => nextId # 0 /\ Started = {nextId - 1}
    /\ nextId = 2 \/ pc = "second_try" => escalated
    /\ escalated => pc \notin {"first_try", "prompt"}
    /\ pc = "failed" => ~ Running

\* A refusal for lack of permission is the only thing the first herd said.
RefusalIsSaid == refusal = "PermissionDenied" => sent[0] = <<Error("PermissionDenied")>>

\* The terminal is captured for as long as the fancy UI is there, as far as a
\* panic has not put raw mode back; the prompt has it in raw mode, or does not.
Screen ==
    /\ tty \in Terminal
    /\ Running /\ pc \notin {"prompt", "fancy"} => tty = Cooked
    /\ Running /\ pc = "prompt" => ~ tty.alt
    /\ Running /\ pc = "fancy" =>
          tty.alt /\ (tty.raw \/ \E k \in F!Daemon : reader[k] = "dead")
    /\ TerminalIsRestored

\* A second daemon is there only when it came to that.
Root ==
    proc["esc"] # "absent" \/ ran # <<>> =>
        escalated /\ ran \in {HerderCommand(self) : self \in SelfPaths}

AlwaysVerifies ==
    /\ args.input = 1
    /\ \A i \in F!Id : \A x \in DOMAIN sent[i] : sent[i][x] # FinishedWriting(FALSE)

SystemInv ==
    /\ FP!ConversationInv
    /\ SP!SessionInv
    /\ Attempts
    /\ RefusalIsSaid
    /\ Screen
    /\ Root
    /\ AlwaysVerifies

LEMMA Types ==
    ASSUME FP!ConversationInv
    PROVE  /\ nextId \in 0 .. 2
           /\ call.pc # "idle" => call.id \in F!Id /\ call.id < nextId
           /\ call.pc \in {"idle", "ensure", "send", "take", "await"}
           /\ sent \in [F!Id -> Seq(Event)] /\ queue \in [F!Id -> Seq(Event)]
           /\ received \in [F!Id -> Seq(Event)]
           /\ receiver \in [F!Id -> {"none", "map", "call", "handle", "dropped"}]
           /\ outcome \in [F!Id -> {"none", "spawn_failure", "transport_failure", "started",
                                    "failed", "unexpected_first_status", "panicked"}]
           /\ reader \in [F!Daemon -> {"none", "reading", "dead"}]
           /\ proc \in [F!Daemon -> {"absent", "running", "dead"}]
           /\ herd \in [F!Id -> {"none", "running", "gone"}]
           /\ entry \in [F!Id -> BOOLEAN]
<1>1. FP!TypeOK
  BY DEF FP!ConversationInv, FP!FacadeInv
<1>2. call.pc # "idle" => call.id \in F!Id
  BY <1>1, SystemAssumption, SameNames DEF FP!TypeOK
<1> QED BY <1>1, <1>2, SystemAssumption, SameNames DEF FP!TypeOK

\* Who holds a handle was started; who was started holds it or gave it up.
LEMMA Handles ==
    ASSUME FP!ConversationInv, NEW i \in F!Id
    PROVE  /\ receiver[i] = "handle" => i \in Started /\ entry[i]
           /\ i \in Started => receiver[i] \in {"handle", "dropped"}
           /\ receiver[i] \in {"none", "map", "call"} => received[i] = <<>>
           /\ call.pc = "await" /\ call.id = i => receiver[i] = "call"
           /\ call.pc = "take" /\ call.id = i => receiver[i] \in {"none", "map"}
<1>1. FP!TalksOf(i) /\ FP!CallsOf(i) /\ receiver[i] \in {"none", "map", "call", "handle", "dropped"}
  BY SameNames, Types DEF FP!ConversationInv, FP!Talks, FP!FacadeInv, FP!Calls
<1> QED BY <1>1 DEF FP!TalksOf, FP!CallsOf, Started

-----------------------------------------------------------------------------
(* What the session sees of a step of the facade                             *)

LEMMA Unheard ==
    ASSUME Started' = Started,
           \A i \in Started : received'[i] = received[i],
           \A i \in F!Id : receiver'[i] = "handle" <=> receiver[i] = "handle"
    PROVE  Heard' = Heard /\ HandleHeld' = HandleHeld
<1>1. Heard' = Heard
  <2>1. CASE Started = {}
    BY <2>1 DEF Heard
  <2>2. CASE Started # {}
    <3>1. (CHOOSE i \in Started : TRUE) \in Started
      BY <2>2
    <3> QED BY <2>2, <3>1 DEF Heard
  <2> QED BY <2>1, <2>2
<1>2. HandleHeld' = HandleHeld
  <2>1. F!Id' = F!Id
    BY DEF F!Id
  <2> QED BY <2>1 DEF HandleHeld
<1> QED BY <1>1, <1>2

LEMMA SameStarted ==
    ASSUME UNCHANGED outcome
    PROVE  Started' = Started
BY DEF Started, F!Id

LEMMA Quiet ==
    ASSUME UNCHANGED sessionVars, Heard' = Heard, HandleHeld' = HandleHeld
    PROVE  UNCHANGED SP!vars
BY DEF sessionVars, SP!vars

\* The tasks, the daemons, the writers, and a call on its way.
LEMMA QuietSteps ==
    ASSUME FP!ConversationInv,
           \/ Asks \/ Spawns \/ (SendsRequest /\ call'.pc # "idle") \/ TakesReceiver \/ Breaks
           \/ \E k \in F!Daemon :
                 ReaderDelivers(k) \/ DaemonSpawnsWriter(k) \/ DaemonQuits(k) \/ ReaderDies(k)
           \/ \E i \in F!Id : WriterSends(i)
    PROVE  UNCHANGED SP!vars
<1> USE DEF FP!callVars, FP!clientVars, FP!herdVars, FP!demuxVars
<1>1. ASSUME UNCHANGED <<outcome, received, sessionVars>>,
             \A i \in F!Id : receiver'[i] = "handle" <=> receiver[i] = "handle"
      PROVE  UNCHANGED SP!vars
  BY <1>1, SameStarted, Unheard, Quiet
<1>2. ASSUME UNCHANGED <<outcome, received, receiver, sessionVars>> PROVE UNCHANGED SP!vars
  BY <1>1, <1>2
<1>3. "std" \in F!Daemon /\ "esc" \in F!Daemon /\ F!Id = FP!Id
  BY SameNames
<1>a. CASE Asks
  <2>1. FP!StartHerd("std") \/ FP!StartHerd("esc")
    BY <1>a, <1>3, SameFacade DEF Asks
  <2> QED BY <1>2, <1>a, <2>1 DEF Asks, FP!StartHerd
<1>b. CASE Spawns
  <2>1. FP!SpawnDaemon /\ UNCHANGED sessionVars
    BY <1>b, SameFacade DEF Spawns
  <2> QED BY <1>2, <2>1 DEF FP!SpawnDaemon
<1>c. CASE SendsRequest /\ call'.pc # "idle"
  <2>1. FP!SendRequest /\ UNCHANGED sessionVars
    BY <1>c, SameFacade DEF SendsRequest
  <2> QED BY <1>2, <1>c, <2>1 DEF FP!SendRequest, FP!RequestFails, FP!Return, FP!Idle
<1>d. CASE TakesReceiver
  <2>1. FP!TakeReceiver /\ UNCHANGED sessionVars
    BY <1>d, SameFacade DEF TakesReceiver
  <2>2. call.id \in F!Id /\ call.pc = "take"
    BY <2>1, Types DEF FP!TakeReceiver
  <2>3. receiver[call.id] \in {"none", "map"}
    BY <2>2, Handles
  <2>4. \A i \in F!Id : receiver'[i] = "handle" <=> receiver[i] = "handle"
    BY <2>1, <2>2, <2>3, Types DEF FP!TakeReceiver
  <2> QED BY <1>1, <2>1, <2>4 DEF FP!TakeReceiver
<1>e. CASE Breaks
  <2>1. \/ \E i \in F!Id : FP!WriterPanics(i)
        \/ \E k \in F!Daemon : FP!DaemonDies(k)
    BY <1>e, SameFacade DEF Breaks
  <2> QED BY <1>2, <1>e, <2>1 DEF Breaks, FP!WriterPanics, FP!DaemonDies, FP!DaemonGoes
<1>f. ASSUME NEW k \in F!Daemon, ReaderDelivers(k) PROVE UNCHANGED SP!vars
  <2>1. FP!ReaderDelivers(k) /\ UNCHANGED sessionVars
    BY <1>f, SameFacade DEF ReaderDelivers
  <2>2. \A i \in F!Id : receiver'[i] = "handle" <=> receiver[i] = "handle"
    BY <2>1, Types, Handles DEF FP!ReaderDelivers, FP!HandleEvent
  <2> QED BY <1>1, <2>1, <2>2 DEF FP!ReaderDelivers
<1>g. ASSUME NEW k \in F!Daemon, DaemonSpawnsWriter(k) \/ DaemonQuits(k) \/ ReaderDies(k)
      PROVE  UNCHANGED SP!vars
  <2>1. /\ FP!DaemonSpawnsWriter(k) \/ FP!DaemonDies(k) \/ FP!ReaderDies(k)
        /\ UNCHANGED sessionVars
    BY <1>g, SameFacade DEF DaemonSpawnsWriter, DaemonQuits, ReaderDies
  <2> QED BY <1>2, <2>1
          DEF FP!DaemonSpawnsWriter, FP!DaemonDies, FP!DaemonGoes, FP!ReaderDies
<1>h. ASSUME NEW i \in F!Id, WriterSends(i) PROVE UNCHANGED SP!vars
  <2>1. FP!WriterSends(i) /\ UNCHANGED sessionVars
    BY <1>h, SameFacade DEF WriterSends
  <2> QED BY <1>2, <2>1 DEF FP!WriterSends
<1> QED BY <1>a, <1>b, <1>c, <1>d, <1>e, <1>f, <1>g, <1>h

\* A call of start_herd that comes to nothing.
LEMMA CallFails ==
    ASSUME SystemInv, Running, call.pc # "idle", NEW e \in Failure \cup {"DaemonError"},
           Refused(e), NEW result, result # "started",
           outcome' = [outcome EXCEPT ![call.id] = result],
           \A i \in F!Id : receiver'[i] = "handle" <=> receiver[i] = "handle"
    PROVE  (SP!FirstTryFails \/ SP!SecondTryFails) /\ Started' = {} /\ Heard' = Heard
<1>1. pc \in {"first_try", "second_try"} /\ Started = {}
  BY DEF SystemInv, Attempts, Refused
<1>2. call.id \in F!Id /\ outcome \in [F!Id -> {"none", "spawn_failure", "transport_failure",
                                    "started", "failed", "unexpected_first_status", "panicked"}]
  BY Types DEF SystemInv
<1>3. Started' = {}
  <2> SUFFICES ASSUME NEW i \in F!Id, outcome'[i] = "started" PROVE FALSE
    BY DEF Started, F!Id
  <2>1. i # call.id /\ outcome[i] = "started"
    BY <1>2
  <2> QED BY <1>1, <2>1 DEF Started
<1>4. Heard' = Heard /\ HandleHeld' = HandleHeld
  BY <1>1, <1>3, Unheard
<1>5. SP!Running /\ e \in SP!Failure \cup {"DaemonError"}
  BY SameNames DEF Running, SP!Running
<1>6. CASE pc = "first_try"
  <2>1. SP!FirstRefused(e) /\ UNCHANGED <<args, modal>>
    BY <1>6, SameSession DEF Refused
  <2> QED BY <1>3, <1>4, <1>5, <1>6, <2>1 DEF SP!FirstTryFails
<1>7. CASE pc = "second_try"
  <2>1. SP!SecondRefused /\ UNCHANGED <<args, modal>>
    BY <1>7, SameSession DEF Refused
  <2> QED BY <1>3, <1>4, <1>5, <1>7, <2>1 DEF SP!SecondTryFails
<1> QED BY <1>1, <1>6, <1>7

\* No daemon came up, or it does not read.
LEMMA NoDaemon ==
    ASSUME SystemInv, SpawnFails \/ (SendsRequest /\ call'.pc = "idle")
    PROVE  /\ SP!FirstTryFails \/ SP!SecondTryFails
           /\ Started' = {} /\ Heard' = Heard
           /\ Refused("DaemonError") /\ call.pc # "idle" /\ Running
           /\ call'.pc = "idle" /\ UNCHANGED <<nextId, proc, reader, sent, herd>>
<1> USE DEF FP!callVars, FP!clientVars, FP!herdVars, FP!demuxVars
<1>1. Running /\ (FP!SpawnFails \/ FP!SendRequest) /\ Refused("DaemonError")
  BY SameFacade DEF SpawnFails, SendsRequest
<1>2. call.pc \in {"ensure", "send"} /\ call.id \in F!Id
  BY <1>1, Types DEF FP!SpawnFails, FP!SendRequest, SystemInv
<1>3. SpawnFails => FP!Return("spawn_failure") \/ FP!Return("panicked")
  BY SameFacade DEF SpawnFails, FP!SpawnFails
<1>4. SendsRequest /\ call'.pc = "idle" => FP!RequestFails
  <2> SUFFICES ASSUME SendsRequest, call'.pc = "idle" PROVE FP!RequestFails
    OBVIOUS
  <2>1. FP!SendRequest
    BY SameFacade DEF SendsRequest
  <2>2. FP!RequestFails \/ call' = [call EXCEPT !.pc = "take"]
    BY <2>1 DEF FP!SendRequest
  <2>3. FP!TypeOK
    BY DEF SystemInv, FP!ConversationInv, FP!FacadeInv
  <2>4. [call EXCEPT !.pc = "take"].pc = "take"
    BY <2>3 DEF FP!TypeOK
  <2> QED BY <2>2, <2>4
<1>5. PICK result \in {"spawn_failure", "transport_failure", "panicked"} : FP!Return(result)
  BY <1>3, <1>4 DEF FP!RequestFails
<1>6. outcome' = [outcome EXCEPT ![call.id] = result] /\ call'.pc = "idle"
  BY <1>5 DEF FP!Return, FP!Idle
<1>7. UNCHANGED <<receiver, nextId, proc, reader, sent, herd>>
  BY <1>1 DEF FP!SpawnFails, FP!SendRequest
<1> QED BY <1>1, <1>2, <1>6, <1>7, CallFails

\* What the first event of a herd is, and what is known of the herd then.
LEMMA FirstSaid ==
    ASSUME SystemInv, IsAnswered
    PROVE  LET e == Head(queue[call.id])
               result == CASE e.type = "InitSuccess" -> "started"
                           [] e.type = "Error" -> "failed"
                           [] OTHER -> "unexpected_first_status"
           IN  /\ e \in Event /\ call.id \in F!Id /\ call.pc = "await"
               /\ pc \in {"first_try", "second_try"}
               /\ receiver[call.id] = "call" /\ received[call.id] = <<>>
               /\ sent[call.id] # <<>> /\ sent[call.id][1] = e
               /\ IsFinal(e) => sent[call.id] = <<e>>
               /\ outcome' = [outcome EXCEPT ![call.id] = result]
               /\ received' = [received EXCEPT ![call.id] = <<e>>]
               /\ receiver' = [receiver EXCEPT ![call.id] =
                                 IF result = "started" THEN "handle" ELSE "dropped"]
               /\ call'.pc = "idle" /\ UNCHANGED <<nextId, proc, reader, sent, herd>>
<1> DEFINE e == Head(queue[call.id])
           i == call.id
           result == CASE e.type = "InitSuccess" -> "started"
                       [] e.type = "Error" -> "failed"
                       [] OTHER -> "unexpected_first_status"
<1>1. FP!FirstEvent /\ Running
  BY SameFacade DEF IsAnswered
<1>2. call.pc = "await" /\ i \in F!Id /\ queue[i] # <<>>
  BY <1>1, Types DEF FP!FirstEvent, SystemInv
<1>3. receiver[i] = "call" /\ received[i] = <<>>
  BY <1>2, Handles DEF SystemInv
<1>4. /\ e \in FP!Event /\ 1 \in DOMAIN sent[i] /\ sent[i][1] = e
  <2>1. /\ FP!FacadeInv /\ FP!NothingLostOrReordered /\ FP!Talks /\ i \in FP!Id
        /\ receiver[i] # "dropped" /\ queue[i] # <<>>
    BY <1>2, <1>3, SameNames DEF SystemInv, FP!ConversationInv
  <2>2. /\ e \in FP!Event /\ Len(received[i]) + 1 \in DOMAIN sent[i]
        /\ sent[i][Len(received[i]) + 1] = e
    BY <2>1, AssumptionsHold, FP!NextInChannel
  <2>3. Len(received[i]) + 1 = 1
    BY <1>3
  <2> QED BY <2>2, <2>3
<1>5. e \in Event /\ sent[i] \in Seq(Event)
  BY <1>2, <1>4, SameNames, Types DEF SystemInv
<1>6. IsFinal(e) => sent[i] = <<e>>
  <2>1. FP!WellFormed(sent[i])
    BY <1>2, SameNames DEF SystemInv, FP!ConversationInv, FP!Talks, FP!TalksOf
  <2> HIDE DEF e, i
  <2>a. FP!IsFinal(sent[i][1]) => 1 = Len(sent[i])
    BY <1>4, <2>1 DEF FP!WellFormed
  <2>2. IsFinal(e) => 1 = Len(sent[i])
    BY <1>4, <2>a, SameNames
  <2>3. 1 = Len(sent[i]) => sent[i] = <<e>>
    BY <1>4, <1>5
  <2> QED BY <2>2, <2>3
<1>7. /\ outcome' = [outcome EXCEPT ![i] = result] /\ call'.pc = "idle"
      /\ receiver' = [receiver EXCEPT ![i] =
                        IF result = "started" THEN "handle" ELSE "dropped"]
      /\ UNCHANGED <<nextId, proc, reader, sent, herd>>
  BY <1>1 DEF FP!FirstEvent, FP!Return, FP!Idle, FP!clientVars, FP!herdVars
<1>8. received' = [received EXCEPT ![i] = <<e>>]
  <2>1. received' = [received EXCEPT ![i] = Append(received[i], e)]
    BY <1>1 DEF FP!FirstEvent
  <2>2. Append(received[i], e) = <<e>>
    BY <1>3
  <2> QED BY <2>1, <2>2
<1>9. pc \in {"first_try", "second_try"}
  <2>1. pc \in {"first_try", "prompt", "second_try", "failed", "fancy", "simple"}
    BY DEF SystemInv, SP!SessionInv, SP!TypeOK
  <2> QED BY <1>2, <2>1 DEF SystemInv, Attempts
<1> QED BY <1>2, <1>3, <1>4, <1>5, <1>6, <1>7, <1>8, <1>9

\* The first event of a herd either opens the UI or ends the attempt.
LEMMA Answered ==
    ASSUME SystemInv, IsAnswered
    PROVE  \/ OpensUi /\ SP!HerdStarts /\ Started' = {call.id} /\ Heard' = <<InitSuccess>>
           \/ \E error \in Failure \cup {"DaemonError"} :
                 /\ Refused(error) /\ (SP!FirstTryFails \/ SP!SecondTryFails)
                 /\ Started' = {} /\ Heard' = Heard
                 /\ error = "PermissionDenied" => sent[call.id] = <<Error("PermissionDenied")>>
<1> DEFINE e == Head(queue[call.id])
           i == call.id
           result == CASE e.type = "InitSuccess" -> "started"
                       [] e.type = "Error" -> "failed"
                       [] OTHER -> "unexpected_first_status"
<1>1. /\ e \in Event /\ i \in F!Id /\ call.pc = "await"
      /\ pc \in {"first_try", "second_try"}
      /\ receiver[i] = "call" /\ received[i] = <<>>
      /\ IsFinal(e) => sent[i] = <<e>>
      /\ outcome' = [outcome EXCEPT ![i] = result]
      /\ received' = [received EXCEPT ![i] = <<e>>]
      /\ receiver' = [receiver EXCEPT ![i] =
                        IF result = "started" THEN "handle" ELSE "dropped"]
  BY FirstSaid
<1>2. /\ e.type = "InitSuccess" => OpensUi
      /\ e.type = "Error" => Refused(e.error)
      /\ e.type \notin {"InitSuccess", "Error"} => Refused("DaemonError")
  BY DEF IsAnswered
<1>3. Started = {} /\ Running /\ call.pc # "idle"
  BY <1>1 DEF SystemInv, Attempts, IsAnswered
<1>4. /\ e = InitSuccess \/ e.type # "InitSuccess"
      /\ e.type = "Error" => e.error \in Failure /\ e = Error(e.error)
  BY <1>1 DEF Event, InitSuccess, Error
<1>5. /\ outcome \in [F!Id -> {"none", "spawn_failure", "transport_failure", "started",
                              "failed", "unexpected_first_status", "panicked"}]
      /\ received \in [F!Id -> Seq(Event)]
      /\ receiver \in [F!Id -> {"none", "map", "call", "handle", "dropped"}]
  BY Types DEF SystemInv
<1> HIDE DEF e, i
<1>6. CASE e.type = "InitSuccess"
  <2>1. result = "started" /\ OpensUi /\ e = InitSuccess
    BY <1>2, <1>4, <1>6
  <2>2. Started' = {i}
    <3>1. \A j \in F!Id : outcome'[j] = "started" <=> j = i
      <4> SUFFICES ASSUME NEW j \in F!Id PROVE outcome'[j] = "started" <=> j = i
        OBVIOUS
      <4>1. outcome[j] # "started"
        BY <1>3 DEF Started
      <4> QED BY <1>1, <1>5, <2>1, <4>1
    <3> QED BY <1>1, <3>1 DEF Started, F!Id
  <2>3. Heard' = <<InitSuccess>>
    <3>1. (CHOOSE j \in Started' : TRUE) = i /\ Started' # {}
      BY <2>2
    <3>2. received'[i] = <<InitSuccess>>
      BY <1>1, <1>5, <2>1
    <3> QED BY <3>1, <3>2 DEF Heard
  <2>4. HandleHeld' = TRUE
    <3>1. receiver'[i] = "handle" /\ i \in F!Id'
      BY <1>1, <1>5, <2>1 DEF F!Id
    <3> QED BY <3>1 DEF HandleHeld
  <2>5. SP!HerdStarts
    <3>1. SP!UiOpens /\ UNCHANGED <<args, refusal, consent, escalated, modal>>
      BY <2>1, SameSession DEF OpensUi
    <3>2. SP!Running /\ pc \in {"first_try", "second_try"}
      BY <1>1, <1>3 DEF Running, SP!Running
    <3> QED BY <2>3, <2>4, <3>1, <3>2, SameNames DEF SP!HerdStarts, SP!startVars
  <2> QED BY <2>1, <2>2, <2>3, <2>5 DEF i
<1>7. CASE e.type # "InitSuccess"
  <2>1. PICK error \in Failure \cup {"DaemonError"} :
           /\ Refused(error)
           /\ error = "PermissionDenied" => sent[i] = <<Error("PermissionDenied")>>
    <3>1. CASE e.type = "Error"
      <4>1. Refused(e.error) /\ IsFinal(e)
        BY <1>2, <3>1 DEF IsFinal
      <4> QED BY <1>1, <1>4, <3>1, <4>1
    <3>2. CASE e.type # "Error"
      <4>1. Refused("DaemonError")
        BY <1>2, <1>7, <3>2
      <4> QED BY <4>1
    <3> QED BY <3>1, <3>2
  <2>2. result # "started"
    BY <1>7
  <2>3. \A j \in F!Id : receiver'[j] = "handle" <=> receiver[j] = "handle"
    BY <1>1, <1>5, <2>2
  <2> HIDE DEF result
  <2>4. (SP!FirstTryFails \/ SP!SecondTryFails) /\ Started' = {} /\ Heard' = Heard
    BY <1>1, <1>3, <2>1, <2>2, <2>3, CallFails DEF i
  <2> QED BY <2>1, <2>4 DEF i
<1> QED BY <1>6, <1>7

\* The UI takes the next event of its herd, and keeps the handle exactly while the
\* burn is not finished for it.
LEMMA HeardNext ==
    ASSUME SystemInv, Hears
    PROVE  /\ \E e \in Event : SP!Hears(e, 1)
           /\ Len(Heard') = Len(Heard) + 1 /\ Heard # <<>>
           /\ Started' = Started /\ Started # {}
           /\ \E i \in F!Id : FP!Consume(i)
<1>1. PICK i \in F!Id : F!Consume(i) /\ S!Reacts(Head(queue[i]), args.input)
  BY DEF Hears
<1> DEFINE e == Head(queue[i])
<1>2. FP!Consume(i) /\ SP!Reacts(e, args.input) /\ args.input = 1 /\ Running
  BY <1>1, SameFacade, SameSession DEF SystemInv, AlwaysVerifies, Hears
<1>3. receiver[i] = "handle" /\ queue[i] # <<>> /\ i \in Started
  BY <1>2, Handles DEF FP!Consume, SystemInv
<1>4. Started = {i} /\ pc \in {"fancy", "simple"}
  <2>1. pc \in {"first_try", "prompt", "second_try", "failed", "fancy", "simple"}
    BY DEF SystemInv, SP!SessionInv, SP!TypeOK
  <2> QED BY <1>2, <1>3, <2>1 DEF SystemInv, Attempts
<1>5. Heard = received[i] /\ HandleHeld
  BY <1>3, <1>4 DEF Heard, HandleHeld
<1>6. /\ e \in Event /\ FP!WellFormed(Append(received[i], e))
      /\ Len(received[i]) + 1 < MaxEvents \/ IsFinal(e)
  <2>1. FP!FacadeInv /\ FP!NothingLostOrReordered /\ FP!Talks /\ i \in FP!Id
        /\ receiver[i] # "dropped" /\ queue[i] # <<>>
    BY <1>3, SameNames DEF SystemInv, FP!ConversationInv
  <2>2. /\ e \in FP!Event /\ FP!WellFormed(Append(received[i], e))
        /\ Len(received[i]) + 1 < MaxEvents \/ FP!IsFinal(e)
    BY <2>1, AssumptionsHold, FP!NextInChannel
  <2> QED BY <2>2, SameNames
<1>7. /\ received' = [received EXCEPT ![i] = Append(received[i], e)]
      /\ receiver' = IF FP!EndsStream(e) THEN [receiver EXCEPT ![i] = "dropped"] ELSE receiver
      /\ UNCHANGED outcome
  BY <1>2 DEF FP!Consume, FP!callVars
<1>8. /\ received \in [F!Id -> Seq(Event)]
      /\ receiver \in [F!Id -> {"none", "map", "call", "handle", "dropped"}]
  BY Types DEF SystemInv
<1> HIDE DEF e
<1>9. Started' = Started /\ Heard' = Append(Heard, e)
  <2>1. Started' = Started
    BY <1>7, SameStarted
  <2>2. received'[i] = Append(received[i], e)
    BY <1>7, <1>8
  <2>3. (CHOOSE j \in {i} : TRUE) = i
    OBVIOUS
  <2> QED BY <1>4, <1>5, <2>1, <2>2, <2>3 DEF Heard
<1>10. Heard \in Seq(Event) /\ Heard # <<>> /\ ~ SP!Finished(child) /\ child \in SP!WriterState
       /\ (child.phase = "Verifying" => SP!Finishes(Heard) # {})
  BY <1>5, SameNames DEF SystemInv, SP!SessionInv, SP!Tracking, SP!Unsettled, SP!TypeOK
<1>11. ~ SP!Unexpected(e)
  <2>1. \A n \in DOMAIN Append(Heard, e) : Append(Heard, e)[n].type = "InitSuccess" => n = 1
    BY <1>5, <1>6 DEF FP!WellFormed
  <2>2. Len(Heard) + 1 \in DOMAIN Append(Heard, e) /\ Append(Heard, e)[Len(Heard) + 1] = e
        /\ Len(Heard) + 1 # 1
    BY <1>6, <1>10
  <2> QED BY <2>1, <2>2 DEF SP!Unexpected
<1>12. child' = SP!OnStatus(child, e, 1)
  BY <1>2, <1>11 DEF SP!Reacts
<1>13. child.phase = "Verifying" => e.type # "FinishedWriting"
  <2>1. SP!WellFormed(Append(Heard, e)) /\ e \in SP!Event /\ Heard \in Seq(SP!Event)
    BY <1>5, <1>6, <1>10, SameWellFormed, SameNames
  <2> QED BY <1>10, <2>1, SP!FinishedOnce, AssumptionsHold
<1>14. SP!Finished(child') <=> FP!EndsStream(e)
  <2>1. IF SP!Finished(child')
        THEN e.type = "Error" \/ e = SP!Success \/ e = SP!FinishedWriting(FALSE)
        ELSE e.type \notin {"Error", "Success"} /\ e # SP!FinishedWriting(FALSE)
    <3> DEFINE d == SP!OnStatus(child, e, 1)
    <3>1. child \in SP!WriterState /\ e \in SP!Event /\ 1 \in 0 .. 1
          /\ ~ SP!Unexpected(e) /\ ~ SP!Finished(child)
          /\ (child.phase = "Verifying" => e.type # "FinishedWriting")
      BY <1>6, <1>10, <1>11, <1>13, SameNames
    <3>2. IF SP!Finished(d)
          THEN \/ e.type = "Error" /\ d.error = e.error
               \/ e = SP!Success /\ d.error = "none"
               \/ e = SP!FinishedWriting(FALSE) /\ d.error = "none"
          ELSE /\ e.type \notin {"Error", "Success"}
               /\ e # SP!FinishedWriting(FALSE)
               /\ d.phase = "Verifying" =>
                     child.phase = "Verifying" \/ e.type = "FinishedWriting"
      BY <3>1, SP!OnStatusResult, AssumptionsHold
    <3> HIDE DEF d
    <3>3. child' = d
      BY <1>12 DEF d
    <3> QED BY <3>2, <3>3
  <2> QED BY <2>1, SameNames DEF FP!EndsStream, IsFinal, Success
<1>15. HandleHeld' <=> ~ SP!Finished(child')
  <2>1. F!Id' = F!Id
    BY DEF F!Id
  <2>2. \A j \in F!Id : receiver[j] = "handle" => j = i
    BY <1>4, Handles DEF SystemInv
  <2>3. (\E j \in F!Id : receiver'[j] = "handle") <=> ~ FP!EndsStream(e)
    BY <1>3, <1>7, <1>8, <2>2
  <2> QED BY <1>14, <2>1, <2>3 DEF HandleHeld
<1>16. SP!Hears(e, 1)
  <2>1. SP!MayHear(e)
    BY <1>2, <1>5, <1>6, SameNames, SameWellFormed DEF SP!MayHear
  <2>2. e # SP!StreamEnded
    BY <1>6 DEF SP!StreamEnded, Event
  <2>3. UNCHANGED <<args, pc, refusal, consent, escalated, modal>>
    BY DEF Hears
  <2>4. HandleHeld' = SP!KeepsHandle(child')
    BY <1>15 DEF SP!KeepsHandle, HandleHeld
  <2> QED BY <1>2, <1>5, <1>9, <2>1, <2>2, <2>3, <2>4
          DEF SP!Hears, Running, SP!Running, SP!startVars
<1>17. Len(Heard') = Len(Heard) + 1
  BY <1>6, <1>9, <1>10
<1> QED BY <1>2, <1>3, <1>6, <1>9, <1>10, <1>16, <1>17

-----------------------------------------------------------------------------
(* Every step is a step of the session, or none                              *)

LEMMA UserSteps ==
    /\ UserActs => SP!Confirm \/ (\E k \in SP!Key : SP!KeyDown(k)) \/ SP!TerminalFails
    /\ CtrlC \/ IsKilled => \E signal \in SP!Signal : SP!Killed(signal)
BY SameSession DEF UserActs, CtrlC, IsKilled, SP!Signal

LEMMA SessionMoves ==
    ASSUME SystemInv, [Next]_vars
    PROVE  [SP!Next]_(SP!vars)
<1>1. SP!HerdStarts \/ SP!FirstTryFails \/ SP!SecondTryFails => SP!Next
  BY DEF SP!Next
<1>a. CASE Asks \/ Spawns \/ TakesReceiver \/ Breaks
  BY <1>a, QuietSteps DEF SystemInv
<1>b. CASE SendsRequest
  <2>1. CASE call'.pc # "idle"
    BY <1>b, <2>1, QuietSteps DEF SystemInv
  <2>2. CASE call'.pc = "idle"
    BY <1>1, <1>b, <2>2, NoDaemon
  <2> QED BY <2>1, <2>2
<1>c. CASE SpawnFails
  BY <1>1, <1>c, NoDaemon
<1>d. CASE IsAnswered
  BY <1>1, <1>d, Answered
<1>e. CASE Hears
  <2>1. PICK e \in Event : SP!Hears(e, 1)
    BY <1>e, HeardNext
  <2>2. e \in SP!Event /\ 1 \in 0 .. args.input
    BY SameNames DEF SystemInv, AlwaysVerifies
  <2> QED BY <2>1, <2>2 DEF SP!Next
<1>f. CASE \/ \E k \in F!Daemon : ReaderDelivers(k) \/ DaemonSpawnsWriter(k)
                                  \/ DaemonQuits(k) \/ ReaderDies(k)
           \/ \E i \in F!Id : WriterSends(i)
  BY <1>f, QuietSteps DEF SystemInv
<1>g. CASE UserActs \/ CtrlC \/ IsKilled
  BY <1>g, UserSteps DEF SP!Next
<1>h. CASE UNCHANGED vars
  <2>1. UNCHANGED <<outcome, received, receiver, sessionVars>>
    BY <1>h DEF vars, facadeVars
  <2> QED BY <2>1, SameStarted, Unheard, Quiet
<1> QED BY <1>a, <1>b, <1>c, <1>d, <1>e, <1>f, <1>g, <1>h DEF Next, SystemStep, CallStep

-----------------------------------------------------------------------------
(* What the system adds to its two parts is kept                             *)

\* Only a writer that runs says anything, and never that nothing is to be verified.
LEMMA SentMoves ==
    ASSUME [Next]_vars
    PROVE  UNCHANGED sent \/ \E i \in F!Id : WriterSends(i)
<1> USE DEF FP!herdVars
<1>1. CASE Asks
  <2>1. FP!StartHerd("std") \/ FP!StartHerd("esc")
    BY <1>1, SameNames, SameFacade DEF Asks
  <2> QED BY <2>1 DEF FP!StartHerd
<1>2. CASE Spawns \/ SendsRequest \/ TakesReceiver \/ SpawnFails \/ IsAnswered
  <2>1. FP!SpawnDaemon \/ FP!SendRequest \/ FP!TakeReceiver \/ FP!SpawnFails \/ FP!FirstEvent
    BY <1>2, SameFacade DEF Spawns, SendsRequest, TakesReceiver, SpawnFails, IsAnswered
  <2> QED BY <2>1 DEF FP!SpawnDaemon, FP!SendRequest, FP!TakeReceiver, FP!SpawnFails,
          FP!FirstEvent
<1>3. CASE Hears \/ Breaks
  <2>1. \/ \E i \in F!Id : FP!Consume(i) \/ FP!WriterPanics(i)
        \/ \E k \in F!Daemon : FP!DaemonDies(k)
    BY <1>3, SameFacade DEF Hears, Breaks
  <2> QED BY <2>1 DEF FP!Consume, FP!WriterPanics, FP!DaemonDies, FP!DaemonGoes
<1>4. CASE \E k \in F!Daemon :
              ReaderDelivers(k) \/ DaemonSpawnsWriter(k) \/ DaemonQuits(k) \/ ReaderDies(k)
  <2>1. \E k \in F!Daemon : FP!ReaderDelivers(k) \/ FP!DaemonSpawnsWriter(k)
                            \/ FP!DaemonDies(k) \/ FP!ReaderDies(k)
    BY <1>4, SameFacade DEF ReaderDelivers, DaemonSpawnsWriter, DaemonQuits, ReaderDies
  <2> QED BY <2>1 DEF FP!ReaderDelivers, FP!DaemonSpawnsWriter, FP!DaemonDies,
          FP!DaemonGoes, FP!ReaderDies
<1>5. CASE UserActs \/ CtrlC \/ IsKilled \/ UNCHANGED vars
  BY <1>5 DEF UserActs, CtrlC, IsKilled, vars, facadeVars
<1> QED BY <1>1, <1>2, <1>3, <1>4, <1>5 DEF Next, SystemStep, CallStep

\* A herd that said its last word says no more.
LEMMA LastWord ==
    ASSUME FP!ConversationInv, [Next]_vars, NEW i \in F!Id, NEW e,
           sent[i] = <<e>>, IsFinal(e)
    PROVE  sent'[i] = <<e>> /\ herd[i] # "running"
<1>1. herd[i] # "running"
  <2>1. FP!TalksOf(i)
    BY SameNames DEF FP!ConversationInv, FP!Talks
  <2>2. 1 \in DOMAIN sent[i] /\ sent[i][1] = e
    OBVIOUS
  <2> QED BY <2>1, <2>2, SameNames DEF FP!TalksOf
<1>2. ASSUME NEW j \in F!Id, WriterSends(j) PROVE sent'[i] = sent[i]
  <2>1. herd[j] = "running" /\ \E f : sent' = [sent EXCEPT ![j] = f]
    BY <1>2 DEF WriterSends, F!WriterSends
  <2> QED BY <1>1, <2>1, Types
<1> QED BY <1>1, <1>2, SentMoves

LEMMA AlwaysVerifiesStep ==
    ASSUME SystemInv, [Next]_vars
    PROVE  AlwaysVerifies'
<1>1. args' = args
  <2>1. SP!Next \/ UNCHANGED SP!vars
    BY SessionMoves
  <2> QED BY <2>1 DEF SP!Next, SP!vars, SP!HerdStarts, SP!FirstTryFails, SP!Confirm,
          SP!SecondTryFails, SP!Hears, SP!SleepTimeout, SP!TerminalFails, SP!Killed,
          SP!KeyDown
<1>2. CASE UNCHANGED sent
  BY <1>1, <1>2 DEF SystemInv, AlwaysVerifies, F!Id
<1>3. ASSUME NEW i \in F!Id, WriterSends(i) PROVE AlwaysVerifies'
  <2>1. PICK e : sent' = [sent EXCEPT ![i] = Append(sent[i], e)]
    BY <1>3 DEF WriterSends, F!WriterSends
  <2>2. sent \in [F!Id -> Seq(Event)]
    BY Types DEF SystemInv
  <2>3. sent'[i] = Append(sent[i], e) /\ \A j \in F!Id : j # i => sent'[j] = sent[j]
    BY <2>1, <2>2
  <2> DEFINE n == Len(sent[i])
  <2>4. /\ n \in Nat /\ DOMAIN sent[i] = 1 .. n /\ DOMAIN sent'[i] = 1 .. n + 1
        /\ Len(sent'[i]) = n + 1
        /\ \A x \in DOMAIN sent[i] : sent'[i][x] = sent[i][x]
    BY <2>2, <2>3
  <2>5. sent'[i][n + 1] # FinishedWriting(FALSE)
    BY <1>3, <2>4 DEF WriterSends, Last
  <2> HIDE DEF n
  <2>6. \A x \in DOMAIN sent'[i] : sent'[i][x] # FinishedWriting(FALSE)
    <3> SUFFICES ASSUME NEW x \in DOMAIN sent'[i] PROVE sent'[i][x] # FinishedWriting(FALSE)
      OBVIOUS
    <3>1. x = n + 1 \/ x \in DOMAIN sent[i]
      BY <2>4
    <3> QED BY <2>4, <2>5, <3>1 DEF SystemInv, AlwaysVerifies
  <2> QED BY <1>1, <2>3, <2>6 DEF SystemInv, AlwaysVerifies, F!Id
<1> QED BY <1>2, <1>3, SentMoves

\* What is the same for the session as long as it is not asked.
LEMMA Frame ==
    ASSUME UNCHANGED SP!vars
    PROVE  UNCHANGED <<sessionVars, Heard>> /\ (Running' <=> Running)
BY DEF SP!vars, sessionVars, Running

LEMMA AttemptsStep ==
    ASSUME SystemInv, [Next]_vars
    PROVE  Attempts'
<1> USE DEF FP!callVars, FP!clientVars, FP!herdVars, FP!demuxVars
<1>1. /\ nextId \in 0 .. 2 /\ Attempts /\ SP!TypeOK
      /\ call \in [pc : {"idle", "ensure", "send", "take", "await"},
                   id : {0, 1}, on : {"std", "esc"}]
      /\ call.pc # "idle" => call.id < nextId
  <2>1. FP!TypeOK
    BY DEF SystemInv, FP!ConversationInv, FP!FacadeInv
  <2>2. FP!Id \cup {0} = {0, 1}
    BY SameNames
  <2> QED BY <2>1, <2>2, SameNames, SystemAssumption
          DEF SystemInv, FP!TypeOK, SP!SessionInv
\* The call is where it was, or one step on.
<1>2. ASSUME UNCHANGED <<sessionVars, outcome, nextId>>, call'.pc = "idle" <=> call.pc = "idle",
             call'.id = call.id, call'.on = call.on
      PROVE  Attempts'
  <2>1. Started' = Started
    BY <1>2, SameStarted
  <2> QED BY <1>1, <1>2, <2>1 DEF Attempts, sessionVars, Running
<1>3. ASSUME NEW error \in Failure \cup {"DaemonError"}, Refused(error), Started' = {}, call.pc # "idle",
             call'.pc = "idle", nextId' = nextId
      PROVE  Attempts'
  <2>1. CASE pc = "first_try"
    <3>1. SP!FirstRefused(error) /\ nextId = 1 /\ ~ escalated
      BY <1>1, <1>3, <2>1, SameSession DEF Refused, Attempts
    <3>2. /\ pc' \in {"prompt", "second_try", "failed"}
          /\ escalated' <=> pc' = "second_try"
          /\ pc' = "failed" => exit' = "error"
      BY <3>1 DEF SP!FirstRefused, SP!AfterRefusal
    <3> QED BY <1>3, <3>1, <3>2 DEF Attempts, Running
  <2>2. CASE pc = "second_try"
    <3>1. SP!SecondRefused /\ escalated
      BY <1>1, <1>3, <2>2, SameSession DEF Refused, Attempts
    <3> QED BY <1>3, <2>2, <3>1 DEF Attempts, Running, SP!SecondRefused, SP!startVars
  <2> QED BY <1>3, <2>1, <2>2 DEF Refused
<1>a. CASE Asks
  <2>1. UNCHANGED <<sessionVars, outcome>>
        /\ \/ pc = "first_try" /\ nextId = 0 /\ FP!StartHerd("std")
           \/ pc = "second_try" /\ nextId = 1 /\ FP!StartHerd("esc")
    BY <1>a, SameNames, SameFacade DEF Asks, FP!StartHerd
  <2>2. Started' = Started
    BY <2>1, SameStarted
  <2> QED BY <1>1, <2>1, <2>2 DEF FP!StartHerd, Attempts, sessionVars, Running
<1>b. CASE Spawns \/ TakesReceiver
  <2>1. FP!SpawnDaemon \/ FP!TakeReceiver
    BY <1>b, SameFacade DEF Spawns, TakesReceiver
  <2>2. UNCHANGED <<sessionVars, outcome, nextId>>
    BY <1>b, <2>1 DEF Spawns, TakesReceiver, FP!SpawnDaemon, FP!TakeReceiver
  <2>3. call.pc # "idle" /\ call'.pc # "idle" /\ call'.id = call.id /\ call'.on = call.on
    BY <1>1, <2>1 DEF FP!SpawnDaemon, FP!TakeReceiver
  <2> QED BY <1>2, <2>2, <2>3
<1>c. CASE SendsRequest /\ call'.pc # "idle"
  <2>1. FP!SendRequest /\ UNCHANGED sessionVars
    BY <1>c, SameFacade DEF SendsRequest
  <2>2. call' = [call EXCEPT !.pc = "take"] /\ UNCHANGED <<outcome, nextId>> /\ call.pc = "send"
    BY <1>c, <2>1 DEF FP!SendRequest, FP!RequestFails, FP!Return, FP!Idle
  <2> QED BY <1>1, <1>2, <2>1, <2>2
<1>d. CASE SpawnFails \/ (SendsRequest /\ call'.pc = "idle")
  BY <1>3, <1>d, NoDaemon
<1>e. CASE IsAnswered
  <2>1. call.pc = "await" /\ call'.pc = "idle" /\ nextId' = nextId
    BY <1>e, FirstSaid
  <2>2. CASE OpensUi /\ Started' = {call.id}
    <3>1. SP!UiOpens /\ escalated' = escalated
      BY <2>2, SameSession DEF OpensUi
    <3>2. pc' \in {"fancy", "simple"} /\ pc \in {"first_try", "second_try"}
      BY <1>e, <3>1, FirstSaid DEF SP!UiOpens
    <3>3. nextId # 0 /\ call.id = nextId - 1 /\ (nextId = 2 => escalated)
      BY <1>1, <2>1, <3>2 DEF Attempts
    <3> QED BY <2>1, <2>2, <3>1, <3>2, <3>3 DEF Attempts
  <2>3. CASE \E error \in Failure \cup {"DaemonError"} : Refused(error) /\ Started' = {}
    BY <1>3, <2>1, <2>3
  <2> QED BY <1>e, <2>2, <2>3, Answered
<1>f. CASE Hears
  <2>1. /\ \E i \in F!Id : FP!Consume(i)
        /\ Started' = Started /\ UNCHANGED <<pc, escalated>> /\ Running
    BY <1>f, HeardNext DEF Hears
  <2> QED BY <1>1, <2>1 DEF FP!Consume, Attempts, Running
<1>g. CASE UserActs \/ CtrlC \/ IsKilled
  <2>1. UNCHANGED facadeVars
    BY <1>g DEF UserActs, CtrlC, IsKilled
  <2>2. Started' = Started /\ UNCHANGED <<call, nextId>>
    BY <2>1, SameStarted DEF facadeVars
  <2>3. CASE SP!Confirm
    <3>1. pc = "prompt" /\ nextId = 1 /\ call.pc = "idle" /\ Started = {}
      BY <1>1, <2>3 DEF SP!Confirm, Attempts
    <3> QED BY <1>1, <2>2, <2>3, <3>1 DEF SP!Confirm, Attempts, Running
  <2>4. CASE \/ (\E k \in SP!Key : SP!KeyDown(k)) \/ SP!TerminalFails
             \/ \E signal \in SP!Signal : SP!Killed(signal)
    <3>1. UNCHANGED <<pc, escalated>> /\ Running
      BY <2>4 DEF SP!KeyDown, SP!TerminalFails, SP!Killed, SP!startVars, SP!Running, Running
    <3> QED BY <1>1, <2>2, <3>1 DEF Attempts, Running
  <2> QED BY <1>g, <2>3, <2>4, UserSteps
<1>h. CASE UNCHANGED vars
  BY <1>2, <1>h DEF vars, facadeVars
<1>i. CASE Breaks
  <2>1. \/ \E i \in F!Id : FP!WriterPanics(i)
        \/ \E k \in F!Daemon : FP!DaemonDies(k)
    BY <1>i, SameFacade DEF Breaks
  <2>2. UNCHANGED <<call, nextId, outcome, sessionVars>>
    BY <1>i, <2>1 DEF Breaks, FP!WriterPanics, FP!DaemonDies, FP!DaemonGoes
  <2> QED BY <1>2, <2>2
<1>j. CASE \E k \in F!Daemon :
              ReaderDelivers(k) \/ DaemonSpawnsWriter(k) \/ DaemonQuits(k) \/ ReaderDies(k)
  <2>1. /\ \E k \in F!Daemon : FP!ReaderDelivers(k) \/ FP!DaemonSpawnsWriter(k)
                               \/ FP!DaemonDies(k) \/ FP!ReaderDies(k)
        /\ UNCHANGED sessionVars
    BY <1>j, SameFacade DEF ReaderDelivers, DaemonSpawnsWriter, DaemonQuits, ReaderDies
  <2>2. UNCHANGED <<call, nextId, outcome>>
    BY <2>1 DEF FP!ReaderDelivers, FP!DaemonSpawnsWriter, FP!DaemonDies, FP!DaemonGoes,
       FP!ReaderDies
  <2> QED BY <1>2, <2>1, <2>2
<1>k. CASE \E i \in F!Id : WriterSends(i)
  <2>1. (\E i \in F!Id : FP!WriterSends(i)) /\ UNCHANGED sessionVars
    BY <1>k, SameFacade DEF WriterSends
  <2> QED BY <1>2, <2>1 DEF FP!WriterSends
<1> QED BY <1>a, <1>b, <1>c, <1>d, <1>e, <1>f, <1>g, <1>h, <1>i, <1>j, <1>k
        DEF Next, SystemStep, CallStep

LEMMA RefusalIsSaidStep ==
    ASSUME SystemInv, [Next]_vars
    PROVE  RefusalIsSaid'
<1>1. 0 \in F!Id /\ sent \in [F!Id -> Seq(Event)]
  BY SameNames, Types DEF SystemInv
<1>2. CASE refusal' = refusal
  <2>1. IsFinal(Error("PermissionDenied"))
    BY DEF IsFinal, Error
  <2> QED BY <1>1, <1>2, <2>1, LastWord DEF SystemInv, RefusalIsSaid
<1>3. ASSUME NEW error \in Failure \cup {"DaemonError"}, Refused(error), call.pc # "idle", sent' = sent,
             error = "PermissionDenied" => sent[call.id] = <<Error("PermissionDenied")>>
      PROVE  RefusalIsSaid'
  <2>1. CASE pc = "first_try"
    <3>1. refusal' = error /\ call.id = 0
      BY <1>3, <2>1, SameSession DEF Refused, SP!FirstRefused, SystemInv, Attempts
    <3> QED BY <1>3, <3>1 DEF RefusalIsSaid
  <2>2. CASE pc = "second_try"
    <3>1. refusal' = refusal
      BY <1>3, <2>2, SameSession DEF Refused, SP!SecondRefused, SP!startVars
    <3> QED BY <1>2, <3>1
  <2> QED BY <1>3, <2>1, <2>2 DEF Refused
<1>a. CASE SpawnFails \/ (SendsRequest /\ call'.pc = "idle")
  <2>1. Refused("DaemonError") /\ call.pc # "idle" /\ sent' = sent
    BY <1>a, NoDaemon
  <2> QED BY <1>3, <2>1
<1>b. CASE IsAnswered
  <2>1. call.pc # "idle" /\ sent' = sent
    BY <1>b, FirstSaid
  <2>2. CASE OpensUi
    BY <1>2, <2>2 DEF OpensUi
  <2>3. CASE \E error \in Failure \cup {"DaemonError"} :
               /\ Refused(error)
               /\ error = "PermissionDenied" => sent[call.id] = <<Error("PermissionDenied")>>
    BY <1>3, <2>1, <2>3
  <2> QED BY <1>b, <2>2, <2>3, Answered
<1>c. CASE \/ Asks \/ Spawns \/ (SendsRequest /\ call'.pc # "idle") \/ TakesReceiver \/ Breaks
           \/ \E k \in F!Daemon :
                 ReaderDelivers(k) \/ DaemonSpawnsWriter(k) \/ DaemonQuits(k) \/ ReaderDies(k)
           \/ \E i \in F!Id : WriterSends(i)
  <2>1. UNCHANGED sessionVars
    BY <1>c, QuietSteps, Frame DEF SystemInv
  <2> QED BY <1>2, <2>1 DEF sessionVars
<1>d. CASE Hears \/ UNCHANGED vars
  BY <1>2, <1>d DEF Hears, vars, sessionVars
<1>e. CASE UserActs \/ CtrlC \/ IsKilled
  <2>1. refusal' = refusal
    BY <1>e, UserSteps DEF SP!Confirm, SP!KeyDown, SP!TerminalFails, SP!Killed, SP!startVars
  <2> QED BY <1>2, <2>1
<1> QED BY <1>a, <1>b, <1>c, <1>d, <1>e DEF Next, SystemStep, CallStep

\* What the drops and the panic hook make of a terminal.
LEMMA Modes ==
    ASSUME NEW t \in Terminal
    PROVE  /\ Dropped(t) = Cooked
           /\ PanicHook(t) \in Terminal /\ ~ PanicHook(t).raw /\ PanicHook(t).alt = t.alt
           /\ \A r \in Restored(t) : r \in Terminal /\ (~ t.raw => ~ r.raw)
           /\ Restored(Cooked) = {Cooked}
<1>0. Cooked \in Terminal /\ ~ Cooked.raw /\ ~ Cooked.alt
  BY DEF Cooked, Terminal
<1>1. Dropped(t) = Cooked
  <2>1. Dropped(t) \in Terminal /\ ~ Dropped(t).raw /\ ~ Dropped(t).alt
    BY DEF Dropped, Terminal
  <2>2. \A a, b \in Terminal : (a.raw <=> b.raw) /\ (a.alt <=> b.alt) => a = b
    BY DEF Terminal
  <2> QED BY <1>0, <2>1, <2>2
<1>2. PanicHook(t) \in Terminal /\ ~ PanicHook(t).raw /\ PanicHook(t).alt = t.alt
  BY DEF PanicHook, Terminal
<1>3. [t EXCEPT !.raw = FALSE] \in Terminal /\ ~ [t EXCEPT !.raw = FALSE].raw
  BY DEF Terminal
<1>4. [Cooked EXCEPT !.raw = FALSE] = Cooked
  BY <1>0 DEF Cooked, Terminal
<1>5. \A r \in Restored(t) : r \in Terminal /\ (~ t.raw => ~ r.raw)
  BY <1>3 DEF Restored
<1>6. Restored(Cooked) = {Cooked}
  BY <1>4 DEF Restored
<1> QED BY <1>1, <1>2, <1>5, <1>6

LEMMA ScreenStep ==
    ASSUME SystemInv, [Next]_vars
    PROVE  Screen'
<1> USE DEF FP!callVars, FP!clientVars, FP!herdVars, FP!demuxVars
<1>1. Screen /\ Cooked \in Terminal /\ Captured \in Terminal /\ Captured.alt /\ Captured.raw
      /\ Raw \in Terminal /\ ~ Raw.alt
      /\ tty \in Terminal /\ [tty EXCEPT !.raw = FALSE] \in Terminal
      /\ F!Daemon' = F!Daemon
  BY DEF SystemInv, Screen, Terminal, Cooked, Captured, Raw, F!Daemon
<1>2. ~ Cooked.raw /\ ~ Cooked.alt /\ [Cooked EXCEPT !.raw = FALSE] = Cooked
      /\ [tty EXCEPT !.raw = FALSE].alt = tty.alt /\ ~ [tty EXCEPT !.raw = FALSE].raw
  BY <1>1 DEF Cooked, Terminal
<1>3. pc \in {"first_try", "prompt", "second_try", "failed", "fancy", "simple"}
  BY DEF SystemInv, SP!SessionInv, SP!TypeOK
\* A terminal that is not captured.
<1>4. ASSUME tty' = Cooked, pc' # "fancy" PROVE Screen'
  BY <1>1, <1>2, <1>4 DEF Screen, TerminalIsRestored
<1>5. ASSUME UNCHANGED <<sessionVars, Heard, tty, reader>> PROVE Screen'
  BY <1>1, <1>5 DEF Screen, TerminalIsRestored, sessionVars, Running
\* While the UI is there, and when it ends in order.
<1>6. ASSUME Running, UNCHANGED <<pc, reader>>, TerminalFollows PROVE Screen'
  <2>1. CASE exit' = "none"
    <3>1. tty' = tty
      BY <1>6, <2>1 DEF TerminalFollows
    <3> QED BY <1>1, <1>6, <2>1, <3>1 DEF Screen, TerminalIsRestored, Running
  <2>2. CASE exit' # "none"
    <3>1. tty' = Cooked
      BY <1>1, <1>6, <2>2, Modes DEF TerminalFollows
    <3> QED BY <1>1, <1>2, <2>2, <3>1 DEF Screen, TerminalIsRestored, Running
  <2> QED BY <2>1, <2>2
\* A refusal, about which the user may be asked.
<1>7. ASSUME NEW error, Refused(error), Running, tty = Cooked PROVE Screen'
  <2>1. pc' # "fancy" /\ (pc' = "prompt" => Running')
    BY <1>7, SameSession DEF Refused, SP!FirstRefused, SP!AfterRefusal, SP!SecondRefused,
       Running
  <2>2. CASE pc' = "prompt"
    <3>1. tty' = Raw
      BY <1>7, <2>2 DEF Refused
    <3> QED BY <1>1, <2>1, <2>2, <3>1 DEF Screen, TerminalIsRestored, Running
  <2>3. CASE pc' # "prompt"
    <3>1. tty' = Cooked
      BY <1>7, <2>3 DEF Refused
    <3> QED BY <1>4, <2>1, <3>1
  <2> QED BY <2>2, <2>3
<1>a. CASE Asks \/ Spawns \/ TakesReceiver \/ (SendsRequest /\ call'.pc # "idle")
  <2>1. UNCHANGED <<tty, pc>> /\ pc \in {"first_try", "second_try"} /\ Running
    <3>1. UNCHANGED <<tty, pc>> /\ Running
      BY <1>a DEF Asks, Spawns, TakesReceiver, SendsRequest, sessionVars
    <3>2. CASE Asks
      BY <3>1, <3>2 DEF Asks
    <3>3. CASE ~ Asks
      <4>1. call.pc # "idle"
        BY <1>a, <3>3, SameFacade DEF Spawns, TakesReceiver, SendsRequest, FP!SpawnDaemon,
           FP!TakeReceiver, FP!SendRequest
      <4> QED BY <1>3, <3>1, <4>1 DEF SystemInv, Attempts
    <3> QED BY <3>1, <3>2, <3>3
  <2> QED BY <1>1, <1>4, <2>1 DEF Screen
<1>b. CASE SpawnFails \/ (SendsRequest /\ call'.pc = "idle")
  <2>1. Refused("DaemonError") /\ pc \in {"first_try", "second_try"} /\ Running
    BY <1>b, NoDaemon DEF SpawnFails, SendsRequest, Refused
  <2> QED BY <1>1, <1>7, <2>1 DEF Screen
<1>c. CASE IsAnswered
  <2>1. pc \in {"first_try", "second_try"} /\ tty = Cooked /\ Running
    BY <1>1, <1>c, FirstSaid DEF Screen, IsAnswered
  <2>2. CASE OpensUi
    <3>1. SP!UiOpens
      BY <2>2, SameSession DEF OpensUi
    <3>2. CASE ~ args.interactive
      <4>1. tty' = tty
        BY <2>2, <3>2 DEF OpensUi
      <4>2. pc' # "fancy"
        BY <3>1, <3>2 DEF SP!UiOpens
      <4> QED BY <1>4, <2>1, <4>1, <4>2
    <3>3. CASE args.interactive /\ exit' = "none"
      <4>1. tty' = Captured
        BY <2>2, <3>3 DEF OpensUi
      <4> QED BY <1>1, <3>1, <3>3, <4>1 DEF Screen, TerminalIsRestored, Running, SP!UiOpens
    <3>4. CASE args.interactive /\ exit' # "none"
      <4>1. tty' \in HalfCaptured
        BY <2>2, <3>4 DEF OpensUi
      <4>2. exit' = "error" /\ pc' = "fancy"
        BY <3>1, <3>4 DEF SP!UiOpens
      <4>3. PICK s \in {Cooked, Raw, Captured} : \E t \in Restored(s) : tty' = PanicHook(t)
        BY <4>1 DEF HalfCaptured
      <4>4. PICK t \in Restored(s) : tty' = PanicHook(t)
        BY <4>3
      <4>5. t \in Terminal
        BY <1>1, <4>3, <4>4, Modes
      <4>6. tty' \in Terminal /\ ~ tty'.raw
        BY <4>4, <4>5, Modes
      <4> QED BY <4>2, <4>6 DEF Screen, TerminalIsRestored, Running
    <3> QED BY <3>2, <3>3, <3>4
  <2>3. ASSUME NEW error, Refused(error) PROVE Screen'
    BY <1>7, <2>1, <2>3
  <2> QED BY <1>c, <2>2, <2>3, Answered
<1>d. CASE Hears
  <2>1. (\E i \in F!Id : FP!Consume(i)) /\ Running /\ TerminalFollows /\ pc' = pc
    BY <1>d, HeardNext DEF Hears
  <2> QED BY <1>6, <2>1 DEF FP!Consume
<1>e. CASE UserActs
  <2>1. UNCHANGED reader
    BY <1>e DEF UserActs, facadeVars
  <2>2. CASE S!Confirm /\ tty' = Cooked
    <3>1. pc' # "fancy"
      BY <2>2, SameSession DEF SP!Confirm
    <3> QED BY <1>4, <2>2, <3>1
  <2>3. ASSUME NEW k \in S!Key, S!KeyDown(k), TerminalFollows PROVE Screen'
    <3>1. pc' = pc /\ Running
      BY <2>3, SameSession DEF SP!KeyDown, SP!Running, Running
    <3> QED BY <1>6, <2>1, <2>3, <3>1
  <2>4. CASE S!TerminalFails /\ TerminalGoes
    <3>1. pc' = "fancy" /\ exit' = "error"
      BY <2>4, SameSession DEF SP!TerminalFails
    <3>2. PICK t \in {Dropped(tty), PanicHook(tty)} : tty' \in Restored(t)
      BY <2>4 DEF TerminalGoes
    <3>3. t \in Terminal /\ ~ t.raw
      BY <1>1, <1>2, <3>2, Modes
    <3>4. tty' \in Terminal /\ ~ tty'.raw
      BY <3>2, <3>3, Modes
    <3> QED BY <3>1, <3>4 DEF Screen, TerminalIsRestored, Running
  <2> QED BY <1>e, <2>2, <2>3, <2>4 DEF UserActs
<1>f. CASE CtrlC
  <2>1. UNCHANGED <<reader, tty, pc>> /\ ~ tty.raw /\ Running /\ exit' = "interrupted"
    BY <1>f, SameSession DEF CtrlC, facadeVars, SP!Killed, SP!Running, Running
  <2>2. tty.alt => pc = "fancy" /\ \E k \in F!Daemon : reader[k] = "dead"
    BY <1>1, <1>2, <2>1 DEF Screen
  <2> QED BY <1>1, <2>1, <2>2 DEF Screen, TerminalIsRestored, Running
<1>j. CASE IsKilled
  <2>1. tty' = tty /\ exit' = "killed"
    BY <1>j, SameSession DEF IsKilled, SP!Killed
  <2> QED BY <1>1, <2>1 DEF Screen, TerminalIsRestored, Running
<1>g. ASSUME NEW k \in F!Daemon, ReaderDies(k) PROVE Screen'
  <2>1. UNCHANGED sessionVars /\ Running /\ tty' = [tty EXCEPT !.raw = FALSE]
        /\ reader' = [reader EXCEPT ![k] = "dead"]
    BY <1>g DEF ReaderDies, F!ReaderDies
  <2>2. reader'[k] = "dead"
    BY <2>1, Types DEF SystemInv
  <2> QED BY <1>1, <1>2, <2>1, <2>2 DEF Screen, TerminalIsRestored, sessionVars, Running
<1>h. CASE \/ Breaks \/ \E i \in F!Id : WriterSends(i)
           \/ \E k \in F!Daemon : ReaderDelivers(k) \/ DaemonSpawnsWriter(k) \/ DaemonQuits(k)
  <2>1. UNCHANGED <<sessionVars, Heard>>
    BY <1>h, QuietSteps, Frame DEF SystemInv
  <2>2. UNCHANGED tty
    BY <1>h DEF Breaks, WriterSends, ReaderDelivers, DaemonSpawnsWriter, DaemonQuits
  <2>3. \/ \E i \in F!Id : FP!WriterPanics(i) \/ FP!WriterSends(i)
        \/ \E k \in F!Daemon : FP!DaemonDies(k) \/ FP!ReaderDelivers(k)
                               \/ FP!DaemonSpawnsWriter(k)
    BY <1>h, SameFacade DEF Breaks, WriterSends, ReaderDelivers, DaemonSpawnsWriter,
       DaemonQuits
  <2>4. UNCHANGED reader
    BY <2>3 DEF FP!WriterPanics, FP!WriterSends, FP!DaemonDies, FP!DaemonGoes,
       FP!ReaderDelivers, FP!DaemonSpawnsWriter
  <2> QED BY <1>5, <2>1, <2>2, <2>4
<1>i. CASE UNCHANGED vars
  <2>1. UNCHANGED SP!vars
    BY <1>i, SameStarted, Unheard, Quiet DEF vars, facadeVars
  <2> QED BY <1>5, <1>i, <2>1, Frame DEF vars, facadeVars
<1> QED BY <1>a, <1>b, <1>c, <1>d, <1>e, <1>f, <1>g, <1>h, <1>i, <1>j
        DEF Next, SystemStep, CallStep

LEMMA RootStep ==
    ASSUME SystemInv, [Next]_vars
    PROVE  Root'
<1> USE DEF FP!callVars, FP!clientVars, FP!herdVars, FP!demuxVars
<1>1. Root /\ Attempts /\ proc \in [F!Daemon -> {"absent", "running", "dead"}]
      /\ "esc" \in F!Daemon /\ "std" \in F!Daemon
  BY Types, SameNames DEF SystemInv
<1>2. ASSUME UNCHANGED <<escalated, ran>>, proc'["esc"] = "absent" <=> proc["esc"] = "absent"
      PROVE  Root'
  BY <1>1, <1>2 DEF Root
<1>3. ASSUME UNCHANGED <<ran, proc>>, ~ escalated PROVE Root'
  BY <1>1, <1>3 DEF Root
<1>a. CASE Spawns
  <2>1. /\ FP!SpawnDaemon /\ escalated' = escalated
        /\ IF call.on = "std" THEN ran' = ran ELSE ran' \in Escalations
    BY <1>a, SameFacade DEF Spawns, sessionVars
  <2>2. call.pc = "ensure" /\ proc' = [proc EXCEPT ![call.on] = "running"]
    BY <2>1 DEF FP!SpawnDaemon
  <2>3. CASE call.on = "std"
    BY <1>1, <1>2, <2>1, <2>2, <2>3
  <2>4. CASE call.on # "std"
    <3>1. pc \in {"first_try", "prompt", "second_try", "failed", "fancy", "simple"}
      BY DEF SystemInv, SP!SessionInv, SP!TypeOK
    <3>2. escalated
      BY <1>1, <2>2, <2>4, <3>1 DEF Attempts
    <3> QED BY <2>1, <2>4, <3>2, EscalatesTheDaemon DEF Root
  <2> QED BY <2>3, <2>4
\* The answers to the two calls.
<1>4. ASSUME NEW error \in Failure \cup {"DaemonError"}, Refused(error), UNCHANGED <<ran, proc>>
      PROVE  Root'
  <2>1. CASE pc = "first_try"
    BY <1>1, <1>3, <1>4, <2>1 DEF Attempts
  <2>2. CASE pc = "second_try"
    <3>1. escalated' = escalated
      BY <1>4, <2>2, SameSession DEF Refused, SP!SecondRefused, SP!startVars
    <3> QED BY <1>2, <1>4, <3>1
  <2> QED BY <1>4, <2>1, <2>2 DEF Refused
<1>b. CASE SpawnFails \/ (SendsRequest /\ call'.pc = "idle")
  <2>1. Refused("DaemonError") /\ proc' = proc
    BY <1>b, NoDaemon
  <2>2. ran' = ran
    BY <2>1 DEF Refused
  <2> QED BY <1>4, <2>1, <2>2
<1>c. CASE IsAnswered
  <2>1. proc' = proc
    BY <1>c, FirstSaid
  <2>2. CASE OpensUi
    BY <1>2, <2>1, <2>2 DEF OpensUi
  <2>3. ASSUME NEW error \in Failure \cup {"DaemonError"}, Refused(error) PROVE Root'
    BY <1>4, <2>1, <2>3 DEF Refused
  <2> QED BY <1>c, <2>2, <2>3, Answered
<1>d. CASE Asks \/ TakesReceiver \/ Hears \/ (SendsRequest /\ call'.pc # "idle")
  <2>1. UNCHANGED <<ran, escalated>>
    BY <1>d DEF Asks, TakesReceiver, Hears, SendsRequest, sessionVars
  <2>2. \/ FP!StartHerd("std") \/ FP!StartHerd("esc") \/ FP!TakeReceiver \/ FP!SendRequest
        \/ \E i \in F!Id : FP!Consume(i)
    BY <1>d, <1>1, SameFacade DEF Asks, TakesReceiver, Hears, SendsRequest
  <2>3. proc' = proc
    BY <2>2 DEF FP!StartHerd, FP!TakeReceiver, FP!SendRequest, FP!Consume
  <2> QED BY <1>2, <2>1, <2>3
<1>e. CASE UserActs \/ CtrlC \/ IsKilled
  <2>1. UNCHANGED <<ran, proc>>
    BY <1>e DEF UserActs, CtrlC, IsKilled, facadeVars
  <2>2. CASE SP!Confirm
    <3>1. pc = "prompt"
      BY <2>2 DEF SP!Confirm
    <3> QED BY <1>1, <1>3, <2>1, <3>1 DEF Attempts
  <2>3. CASE \/ (\E k \in SP!Key : SP!KeyDown(k)) \/ SP!TerminalFails
             \/ \E signal \in SP!Signal : SP!Killed(signal)
    <3>1. escalated' = escalated
      BY <2>3 DEF SP!KeyDown, SP!TerminalFails, SP!Killed, SP!startVars
    <3> QED BY <1>2, <2>1, <3>1
  <2> QED BY <1>e, <2>2, <2>3, UserSteps
<1>f. CASE \/ Breaks \/ \E i \in F!Id : WriterSends(i)
           \/ \E k \in F!Daemon :
                 ReaderDelivers(k) \/ DaemonSpawnsWriter(k) \/ DaemonQuits(k) \/ ReaderDies(k)
  <2>1. UNCHANGED <<ran, escalated>>
    BY <1>f DEF Breaks, WriterSends, ReaderDelivers, DaemonSpawnsWriter, DaemonQuits,
       ReaderDies, sessionVars
  <2>2. \/ \E i \in F!Id : FP!WriterPanics(i) \/ FP!WriterSends(i)
        \/ \E k \in F!Daemon : FP!DaemonDies(k) \/ FP!ReaderDelivers(k)
                               \/ FP!DaemonSpawnsWriter(k) \/ FP!ReaderDies(k)
    BY <1>f, SameFacade DEF Breaks, WriterSends, ReaderDelivers, DaemonSpawnsWriter,
       DaemonQuits, ReaderDies
  <2>3. \/ proc' = proc
        \/ \E k \in F!Daemon : proc[k] = "running" /\ proc' = [proc EXCEPT ![k] = "dead"]
    BY <2>2 DEF FP!WriterPanics, FP!WriterSends, FP!DaemonDies, FP!DaemonGoes,
       FP!ReaderDelivers, FP!DaemonSpawnsWriter, FP!ReaderDies
  <2>4. proc'["esc"] = "absent" <=> proc["esc"] = "absent"
    BY <1>1, <2>3
  <2> QED BY <1>2, <2>1, <2>4
<1>g. CASE UNCHANGED vars
  BY <1>2, <1>g DEF vars, facadeVars, sessionVars
<1> QED BY <1>a, <1>b, <1>c, <1>d, <1>e, <1>f, <1>g DEF Next, SystemStep, CallStep

LEMMA SystemInit == Init => SystemInv
<1> SUFFICES ASSUME Init PROVE SystemInv
  OBVIOUS
<1>1. F!Init /\ FP!Init /\ S!Init /\ SP!Init /\ args.input = 1 /\ tty = Cooked /\ ran = <<>>
  BY SameFacade, SameSession DEF Init
<1>2. FP!ConversationInv /\ SP!SessionInv
  BY <1>1, FP!ConversationInit, SP!SessionInit, AssumptionsHold
<1>3. pc = "first_try" /\ ~ escalated /\ refusal = "none" /\ exit = "none"
  BY <1>1 DEF SP!Init
<1>4. /\ nextId = 0 /\ call.pc = "idle" /\ Started = {}
      /\ \A i \in F!Id : sent[i] = <<>>
      /\ proc["esc"] = "absent"
  BY <1>1, SameNames DEF FP!Init, FP!Idle, Started
<1>5. Attempts /\ RefusalIsSaid /\ Root
  BY <1>1, <1>3, <1>4 DEF Attempts, RefusalIsSaid, Root
<1>6. Screen
  BY <1>1, <1>3 DEF Screen, TerminalIsRestored, Running, Terminal, Cooked
<1>7. AlwaysVerifies
  <2>1. DOMAIN <<>> = {}
    OBVIOUS
  <2> QED BY <1>1, <1>4, <2>1 DEF AlwaysVerifies
<1> QED BY <1>2, <1>5, <1>6, <1>7 DEF SystemInv

LEMMA SystemInvStep == SystemInv /\ [Next]_vars => SystemInv'
<1> SUFFICES ASSUME SystemInv, [Next]_vars PROVE SystemInv'
  OBVIOUS
<1>1. FP!ConversationInv'
  BY FacadeStep, FP!ConversationStep, AssumptionsHold DEF SystemInv
<1>2. SP!SessionInv'
  BY SessionMoves, SP!SessionStep, AssumptionsHold DEF SystemInv
<1>3. Attempts' /\ RefusalIsSaid' /\ Screen' /\ Root' /\ AlwaysVerifies'
  BY AttemptsStep, RefusalIsSaidStep, ScreenStep, RootStep, AlwaysVerifiesStep
<1> QED BY <1>1, <1>2, <1>3 DEF SystemInv

-----------------------------------------------------------------------------

(* The inductive invariant: that of the facade, that of the session, and how *)
(* the two go together in try_start_burn, begin_writing and TUICapture.       *)
THEOREM SystemInvariant == Spec => []SystemInv
BY SystemInit, SystemInvStep, PTL DEF Spec

(* Type correctness of the system: neither the facade nor the user interface *)
(* gets to one of its panics (facade.rs:98, ui/writer_tracking.rs:62), for    *)
(* conversations and byte counts of any size.                                 *)
THEOREM SystemTypeCorrect == Spec => []TypeOK
<1>1. SystemInv => TypeOK
  <2> SUFFICES ASSUME SystemInv PROVE TypeOK
    OBVIOUS
  <2>1. FP!TypeOK /\ SP!TypeOK /\ tty \in Terminal /\ Root
    BY DEF SystemInv, FP!ConversationInv, FP!FacadeInv, SP!SessionInv, Screen
  <2>2. F!Event = FP!Event
    BY DEF F!Event, FP!Event, F!Failure, FP!Failure, F!IoError, FP!IoError
  <2>3. F!TypeOK
    BY <2>1, <2>2, SameNames DEF F!TypeOK, FP!TypeOK
  <2>4. S!TypeOK
    BY <2>1 DEF S!TypeOK, SP!TypeOK, S!Args, SP!Args, S!WriterState, SP!WriterState, S!Event,
       SP!Event, S!Failure, SP!Failure, S!IoError, SP!IoError, S!Signal, SP!Signal
  <2>5. ran \in Seq(Seq(Char))
    <3>1. CASE ran = <<>>
      BY <3>1
    <3>2. CASE ran # <<>>
      <4>1. PICK self \in SelfPaths : ran = HerderCommand(self)
        BY <2>1, <3>2 DEF Root
      <4>2. self \in Seq(Char) /\ <<"x">> \in Seq(Char) /\ LogPath \in Seq(Char)
        BY SystemAssumption, Lines
      <4> QED BY <4>1, <4>2 DEF HerderCommand
    <3> QED BY <3>1, <3>2
  <2> QED BY <2>1, <2>3, <2>4, <2>5 DEF TypeOK
<1> QED BY SystemInvariant, <1>1, PTL

(* Whatever the program ended in by itself, or was interrupted in by Ctrl-C,  *)
(* the terminal it leaves behind is out of raw mode, and off the alternate    *)
(* screen but for the two ways out that TerminalIsRestored names (TUICapture   *)
(* and its Drop, the panic hook, TermiosRestore).  Nothing is said of a        *)
(* program that was killed, as IsKilled leaves any terminal behind.            *)
THEOREM TerminalRestored == Spec => []TerminalIsRestored
<1>1. SystemInv => TerminalIsRestored
  BY DEF SystemInv, Screen
<1> QED BY SystemInvariant, <1>1, PTL

(* What a shell is made to run as root is the daemon, for every name the      *)
(* program and its log file may have, and only of a burn whose target was     *)
(* refused, by a user who asked for it or agreed (start.rs, escalation).       *)
THEOREM OnlyTheDaemonIsRoot == Spec => []RootRunsOnlyTheDaemon
<1>1. SystemInv => RootRunsOnlyTheDaemon
  <2> SUFFICES ASSUME SystemInv, proc["esc"] # "absent" \/ ran # <<>>
               PROVE  /\ ran \in {HerderCommand(self) : self \in SelfPaths}
                      /\ sent[0] = <<Error("PermissionDenied")>>
                      /\ args.root = "always" \/ consent
    BY DEF RootRunsOnlyTheDaemon
  <2>1. escalated /\ ran \in {HerderCommand(self) : self \in SelfPaths}
    BY DEF SystemInv, Root
  <2>2. refusal = "PermissionDenied" /\ (args.root = "always" \/ consent)
    BY <2>1 DEF SystemInv, SP!SessionInv, SP!Asking, SP!EscalationIsConsented
  <2> QED BY <2>1, <2>2 DEF SystemInv, RefusalIsSaid
<1> QED BY SystemInvariant, <1>1, PTL

\* A finished burn has no writer left: the one that was started said its last
\* word, the one before it was refused, and no other was asked for.
LEMMA FinishedIsOver ==
    ASSUME SystemInv, pc = "fancy", SP!Finished(child)
    PROVE  ~ WriterRuns
<1> SUFFICES ASSUME NEW i \in F!Id, herd[i] = "running" PROVE FALSE
  BY DEF WriterRuns
<1>1. /\ FP!TalksOf(i) /\ FP!CallsOf(i) /\ FP!StreamsOf(i) /\ FP!Hosts
      /\ i \in FP!Id
  BY SameNames DEF SystemInv, FP!ConversationInv, FP!FacadeInv, FP!Talks, FP!Calls, FP!Streams
<1>2. nextId # 0 /\ Started = {nextId - 1} /\ (nextId = 2 => escalated) /\ nextId \in 0 .. 2
      /\ i \in {0, 1}
  BY Types, SameNames DEF SystemInv, Attempts
<1>3. ~ HandleHeld
  BY DEF SystemInv, SP!SessionInv, SP!Tracking
<1>4. \A x \in DOMAIN sent[i] : ~ IsFinal(sent[i][x])
  BY <1>1, SameNames DEF FP!TalksOf
<1>5. CASE i = nextId - 1
  <2>1. receiver[i] = "dropped"
    BY <1>2, <1>3, <1>5, Handles DEF HandleHeld, SystemInv
  <2>2. PICK x \in DOMAIN sent[i] : FP!EndsStream(sent[i][x])
    BY <1>1, <2>1 DEF FP!StreamsOf, FP!Settled
  <2>3. sent[i][x] # FinishedWriting(FALSE)
    BY DEF SystemInv, AlwaysVerifies
  <2> QED BY <1>4, <2>2, <2>3, SameNames DEF FP!EndsStream
<1>6. CASE i >= nextId
  <2>1. receiver[i] = "none" /\ call.pc = "idle"
    BY <1>1, <1>6 DEF FP!CallsOf, SystemInv, Attempts
  <2>2. host[i] = "none"
    BY <1>1, <2>1 DEF FP!CallsOf, FP!Silent
  <2> QED BY <1>1, <2>2 DEF FP!Hosts
<1>7. CASE i = 0 /\ nextId = 2
  <2>1. sent[0] = <<Error("PermissionDenied")>>
    BY <1>2, <1>7 DEF SystemInv, SP!SessionInv, SP!Asking, SP!EscalationIsConsented,
       RefusalIsSaid
  <2>2. 1 \in DOMAIN sent[i] /\ sent[i][1] = Error("PermissionDenied")
    BY <1>7, <2>1
  <2> QED BY <1>4, <2>2 DEF IsFinal, Error
<1> QED BY <1>2, <1>5, <1>6, <1>7

(* No key alone, in whatever order keys and events come, ends the fancy UI    *)
(* over a running writer; Ctrl-C does, once a reader task has panicked        *)
(* (ui/fancy_ui/state.rs, the quit prompt).                                   *)
THEOREM NoKeyInterrupts == Spec => QuitIsSafe
<1> DEFINE Safe == (pc = "fancy" /\ ~ modal /\ exit' \in {"quit", "interrupted"} /\ exit # exit') =>
                      \/ ~ WriterRuns
                      \/ exit' = "interrupted" /\ \E k \in F!Daemon : reader[k] = "dead"
<1>1. SystemInv /\ [Next]_vars => [Safe]_vars
  <2> SUFFICES ASSUME SystemInv, [Next]_vars, pc = "fancy", ~ modal,
                      exit' \in {"quit", "interrupted"}, exit # exit'
               PROVE  \/ ~ WriterRuns
                      \/ exit' = "interrupted" /\ \E k \in F!Daemon : reader[k] = "dead"
    OBVIOUS
  <2>1. SP!Finished(child) => ~ WriterRuns
    BY FinishedIsOver
  <2>2. CASE CtrlC
    <3>1. ~ tty.raw /\ Running /\ exit' = "interrupted"
      BY <2>2, SameSession DEF CtrlC, SP!Killed, SP!Running, Running
    <3> QED BY <3>1 DEF SystemInv, Screen
  <2>3. ASSUME NEW k \in SP!Key, SP!KeyDown(k) PROVE ~ WriterRuns
    <3>1. exit' = "quit" => SP!QuitsAtOnce(k)
      BY <2>3 DEF SP!KeyDown, SP!Draw
    <3>2. exit' # "interrupted"
      BY <2>3 DEF SP!KeyDown, SP!Draw
    <3> QED BY <2>1, <3>1, <3>2 DEF SP!QuitsAtOnce
  <2>4. CASE SP!Confirm \/ SP!TerminalFails
    BY <2>4 DEF SP!Confirm, SP!TerminalFails
  <2>5. CASE Hears
    <3>1. PICK e \in Event : SP!Hears(e, 1)
      BY <2>5, HeardNext
    <3>2. exit' \in {exit, "bad_status", "bad_ratio", "done", "division_by_zero"}
      BY <3>1 DEF SP!Hears, SP!Reacts, SP!FancyReacts, SP!SimpleReacts, SP!Draw
    <3> QED BY <3>2
  <2>6. CASE IsAnswered \/ SpawnFails \/ (SendsRequest /\ call'.pc = "idle")
    <3>1. pc \in {"first_try", "second_try"}
      <4>1. IsAnswered => pc \in {"first_try", "second_try"}
        BY FirstSaid
      <4>2. SpawnFails \/ (SendsRequest /\ call'.pc = "idle") => pc \in {"first_try", "second_try"}
        BY NoDaemon DEF SP!FirstTryFails, SP!SecondTryFails
      <4> QED BY <2>6, <4>1, <4>2
    <3> QED BY <3>1
  <2>7. CASE \/ Asks \/ Spawns \/ (SendsRequest /\ call'.pc # "idle") \/ TakesReceiver \/ Breaks
             \/ \E k \in F!Daemon :
                   ReaderDelivers(k) \/ DaemonSpawnsWriter(k) \/ DaemonQuits(k) \/ ReaderDies(k)
             \/ \E i \in F!Id : WriterSends(i)
    BY <2>7, QuietSteps, Frame DEF SystemInv, sessionVars
  <2>8. CASE UNCHANGED vars
    BY <2>8 DEF vars, sessionVars
  <2>9. CASE IsKilled
    BY <2>9, SameSession DEF IsKilled, SP!Killed
  <2> QED
    BY <2>2, <2>3, <2>4, <2>5, <2>6, <2>7, <2>8, <2>9, UserSteps DEF Next, SystemStep, CallStep
<1> QED BY SystemInvariant, <1>1, PTL DEF Spec, QuitIsSafe

\* The session with its theorems is the session that is the specification.
LEMMA SameSteps == SP!Next => S!Next
<1> USE DEF S!Running, SP!Running, S!startVars, SP!startVars, S!Initial, SP!Initial,
            S!Finished, SP!Finished, S!Draw, SP!Draw, S!IsNumber, SP!IsNumber,
            S!Ratio, SP!Ratio, S!StreamEnded, SP!StreamEnded
<1>1. S!Event = SP!Event /\ S!Failure = SP!Failure /\ S!InitSuccess = SP!InitSuccess
      /\ S!Key = SP!Key /\ S!Signal = SP!Signal
  BY DEF S!Event, SP!Event, S!Failure, SP!Failure, S!IoError, SP!IoError, S!InitSuccess,
     SP!InitSuccess, S!Key, SP!Key, S!Signal, SP!Signal
<1>2. SP!HerdStarts => S!HerdStarts
  BY <1>1 DEF S!HerdStarts, SP!HerdStarts, S!UiOpens, SP!UiOpens
<1>3. SP!FirstTryFails => S!FirstTryFails
  BY <1>1 DEF S!FirstTryFails, SP!FirstTryFails, S!FirstRefused, SP!FirstRefused,
     S!AfterRefusal, SP!AfterRefusal
<1>4. (SP!Confirm => S!Confirm) /\ (SP!SecondTryFails => S!SecondTryFails)
  BY DEF S!Confirm, SP!Confirm, S!SecondTryFails, SP!SecondTryFails, S!SecondRefused,
     SP!SecondRefused
<1>5. ASSUME NEW e, NEW src, SP!Hears(e, src) PROVE S!Hears(e, src)
  <2>1. \A s : SP!WellFormed(s) => S!WellFormed(s)
    BY DEF S!WellFormed, SP!WellFormed, S!Finishes, SP!Finishes, S!IsFinal, SP!IsFinal,
       S!FinishedWriting, SP!FinishedWriting, S!Success, SP!Success
  <2>2. SP!MayHear(e) => S!MayHear(e)
    BY <1>1, <2>1 DEF S!MayHear, SP!MayHear, S!IsFinal, SP!IsFinal
  <2>3. SP!Reacts(e, src) => S!Reacts(e, src)
    BY DEF S!Reacts, SP!Reacts, S!Unexpected, SP!Unexpected, S!OnStatus, SP!OnStatus,
       S!OnTotalBytes, SP!OnTotalBytes, S!OnFinishedWriting, SP!OnFinishedWriting,
       S!IntoFinished, SP!IntoFinished, S!IntoVerifying, SP!IntoVerifying,
       S!FancyReacts, SP!FancyReacts, S!SimpleReacts, SP!SimpleReacts
  <2> QED BY <1>5, <2>2, <2>3 DEF S!Hears, SP!Hears, S!KeepsHandle, SP!KeepsHandle
<1>6. /\ SP!SleepTimeout => S!SleepTimeout
      /\ SP!TerminalFails => S!TerminalFails
      /\ \A signal : SP!Killed(signal) => S!Killed(signal)
  BY DEF S!SleepTimeout, SP!SleepTimeout, S!TerminalFails, SP!TerminalFails, S!Killed,
     SP!Killed
<1>7. ASSUME NEW k, SP!KeyDown(k) PROVE S!KeyDown(k)
  BY <1>7 DEF S!KeyDown, SP!KeyDown, S!KeyInModal, SP!KeyInModal, S!QuitsAtOnce,
     SP!QuitsAtOnce, S!OpensModal, SP!OpensModal
<1> QED BY <1>1, <1>2, <1>3, <1>4, <1>5, <1>6, <1>7 DEF S!Next, SP!Next

(* The system implements the session: with the facade, the daemons and their *)
(* writers hidden, every step is one of BurnSession, or none.                *)
THEOREM SystemImplementsSession == Spec => ImplementsSession
<1>1. Init => S!Init
  BY DEF Init
<1>2. SystemInv /\ [Next]_vars => [S!Next]_(S!vars)
  BY SessionMoves, SameSteps DEF S!vars, SP!vars
<1> QED BY SystemInvariant, <1>1, <1>2, PTL DEF Spec, S!Spec, ImplementsSession

=============================================================================
