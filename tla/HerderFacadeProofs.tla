-------------------------- MODULE HerderFacadeProofs --------------------------
(***************************************************************************)
(* Proofs about HerderFacade, for every number of herds, length of their     *)
(* conversations and choice of the daemons that may die.  FacadeInv is the   *)
(* inductive invariant: types, who may hold a channel at which point of the  *)
(* call (Calls), where a herd is requested and hosted (Hosts), and in which  *)
(* order its events are on their way (Streams).                              *)
(***************************************************************************)
EXTENDS HerderFacade, TLAPS, FiniteSetTheorems, SequenceTheorems

Message == [id : Id, event : Event]

\* Nothing has been asked of any daemon for this id.
Silent(i) ==
    /\ host[i] = "none"
    /\ \A k \in Daemon : \A p \in DOMAIN stdin[k] : stdin[k][p] # i

CallsOf(i) ==
    /\ receiver[i] = "none" =>
          /\ ~ entry[i] /\ queue[i] = <<>>
          /\ Silent(i) \/ (call.id = i /\ call.pc = "take")
    /\ receiver[i] = "map" => call.id = i /\ call.pc = "take"
    /\ receiver[i] = "call" => call.id = i /\ call.pc = "await"
    /\ receiver[i] \in {"map", "call", "handle"} => entry[i]
    /\ i >= nextId => receiver[i] = "none"
    /\ call.id = i /\ call.pc \in {"ensure", "send"} => receiver[i] = "none"
    /\ call.id = i /\ call.pc = "take" => receiver[i] \in {"none", "map"}
    /\ call.id = i /\ call.pc = "await" => receiver[i] = "call"

Calls == \A i \in Id : CallsOf(i)

\* A herd is requested once, before it has a host.
Requests ==
    /\ \A k \in Daemon : \A p \in DOMAIN stdin[k] : host[stdin[k][p]] = "none"
    /\ \A k, l \in Daemon : \A p \in DOMAIN stdin[k], q \in DOMAIN stdin[l] :
          stdin[k][p] = stdin[l][q] => k = l /\ p = q

\* A herd without a host has said nothing; the others speak through their host.
Hosts ==
    /\ \A i \in Id : host[i] = "none" => sent[i] = <<>> /\ herd[i] = "none"
    /\ \A k \in Daemon : \A p \in DOMAIN stdout[k] : host[stdout[k][p].id] = k

\* What may come after an event of a herd, as far as a handle is concerned.
Follows(e, f) == ~ IsFinal(e) /\ (e = FinishedWriting(FALSE) => IsFinal(f))

\* The events of herd i, first those in its channel q, then those in a pipe s.
Ordered(i, s, q) ==
    /\ \A m, n \in DOMAIN q : m < n => Follows(q[m], q[n])
    /\ \A n \in DOMAIN q, p \in DOMAIN s : s[p].id = i => Follows(q[n], s[p].event)
    /\ \A o, p \in DOMAIN s :
          o < p /\ s[o].id = i /\ s[p].id = i => Follows(s[o].event, s[p].event)

\* All of them were sent ...
Carries(i, s, q, t) ==
    /\ \A n \in DOMAIN q : \E x \in DOMAIN t : t[x] = q[n]
    /\ \A p \in DOMAIN s : s[p].id = i => \E x \in DOMAIN t : t[x] = s[p].event

\* ... and the first of them was sent first.
Begins(i, s, q, t) ==
    IF q # <<>> THEN q[1] = t[1]
    ELSE \E p \in DOMAIN s : /\ s[p].id = i /\ s[p].event = t[1]
                             /\ \A o \in DOMAIN s : o < p => s[o].id # i

\* Of a herd nobody listens to, at most a final event is still to come.
Settled(i) ==
    /\ queue[i] = <<>>
    /\ \E x \in DOMAIN sent[i] : EndsStream(sent[i][x])
    /\ \A k \in Daemon : \A p \in DOMAIN stdout[k] :
          stdout[k][p].id = i => entry[i] /\ IsFinal(stdout[k][p].event)
    /\ ~ entry[i] => \E x \in DOMAIN sent[i] : IsFinal(sent[i][x])

StreamsOf(i) ==
    /\ sent[i] # <<>> => sent[i][1].type \in {"InitSuccess", "Error"}
    /\ \A k \in Daemon : /\ Carries(i, stdout[k], queue[i], sent[i])
                         /\ Ordered(i, stdout[k], queue[i])
    /\ receiver[i] \in {"none", "map", "call"} /\ sent[i] # <<>> =>
          Begins(i, stdout[host[i]], queue[i], sent[i])
    /\ receiver[i] = "dropped" => Settled(i)

Streams == \A i \in Id : StreamsOf(i)

FacadeInv == TypeOK /\ Calls /\ Requests /\ Hosts /\ Streams

-----------------------------------------------------------------------------
(* Sequences of events and messages                                          *)

LEMMA TailFacts ==
    ASSUME NEW S, NEW s \in Seq(S), s # <<>>
    PROVE  /\ Tail(s) \in Seq(S) /\ Head(s) = s[1] /\ Head(s) \in S /\ 1 \in DOMAIN s
           /\ \A p \in DOMAIN Tail(s) :
                 p \in Nat /\ p + 1 \in DOMAIN s /\ Tail(s)[p] = s[p + 1]
           /\ \A p \in DOMAIN s : p # 1 => p - 1 \in DOMAIN Tail(s) /\ Tail(s)[p - 1] = s[p]
OBVIOUS

LEMMA AppendFacts ==
    ASSUME NEW S, NEW s \in Seq(S), NEW e \in S
    PROVE  /\ Append(s, e) \in Seq(S) /\ Append(s, e) # <<>>
           /\ Len(s) + 1 \in DOMAIN Append(s, e) /\ Append(s, e)[Len(s) + 1] = e
           /\ \A p \in DOMAIN s : p \in DOMAIN Append(s, e) /\ Append(s, e)[p] = s[p]
                                  /\ p < Len(s) + 1
           /\ \A p \in DOMAIN Append(s, e) : p \in Nat /\ (p \in DOMAIN s \/ p = Len(s) + 1)
OBVIOUS

\* What has been taken from the front of a pipe takes nothing from the rest.
LEMMA TailKeeps ==
    ASSUME NEW i, NEW s \in Seq(Message), NEW q \in Seq(Event), NEW t \in Seq(Event),
           s # <<>>, Carries(i, s, q, t), Ordered(i, s, q)
    PROVE  Carries(i, Tail(s), q, t) /\ Ordered(i, Tail(s), q)
<1>1. \A p \in DOMAIN Tail(s) : p \in Nat /\ p + 1 \in DOMAIN s /\ Tail(s)[p] = s[p + 1]
  BY TailFacts
<1>2. Carries(i, Tail(s), q, t)
  BY <1>1 DEF Carries
<1>3. \A o, p \in DOMAIN Tail(s) : o < p => o + 1 < p + 1
  BY <1>1
<1>4. Ordered(i, Tail(s), q)
  BY <1>1, <1>3 DEF Ordered
<1> QED BY <1>2, <1>4

LEMMA TailOfOther ==
    ASSUME NEW i, NEW s \in Seq(Message), NEW q \in Seq(Event), NEW t \in Seq(Event),
           s # <<>>, s[1].id # i, Begins(i, s, q, t)
    PROVE  Begins(i, Tail(s), q, t)
<1>1. \A p \in DOMAIN Tail(s) : p \in Nat /\ p + 1 \in DOMAIN s /\ Tail(s)[p] = s[p + 1]
  BY TailFacts
<1>2. \A p \in DOMAIN s : p # 1 => p - 1 \in DOMAIN Tail(s) /\ Tail(s)[p - 1] = s[p]
  BY TailFacts
<1>3. CASE q # <<>>
  BY <1>3 DEF Begins
<1>4. CASE q = <<>>
  <2>1. PICK p \in DOMAIN s : /\ s[p].id = i /\ s[p].event = t[1]
                              /\ \A o \in DOMAIN s : o < p => s[o].id # i
    BY <1>4 DEF Begins
  <2>2. p - 1 \in DOMAIN Tail(s) /\ Tail(s)[p - 1] = s[p] /\ p \in Nat
    BY <1>2, <2>1
  <2>3. \A o \in DOMAIN Tail(s) : o < p - 1 => Tail(s)[o].id # i
    BY <1>1, <2>1, <2>2
  <2> QED BY <1>4, <2>1, <2>2, <2>3 DEF Begins
<1> QED BY <1>3, <1>4

\* The event at the front of the pipe goes to the end of the channel.
LEMMA Delivered ==
    ASSUME NEW i, NEW s \in Seq(Message), NEW q \in Seq(Event), NEW t \in Seq(Event),
           s # <<>>, s[1].id = i, Carries(i, s, q, t), Ordered(i, s, q)
    PROVE  LET r == Append(q, s[1].event)
           IN  /\ r \in Seq(Event)
               /\ Carries(i, Tail(s), r, t) /\ Ordered(i, Tail(s), r)
               /\ Begins(i, s, q, t) => Begins(i, Tail(s), r, t)
<1> DEFINE r == Append(q, s[1].event)
<1>1. \A p \in DOMAIN Tail(s) : p \in Nat /\ p + 1 \in DOMAIN s /\ Tail(s)[p] = s[p + 1]
  BY TailFacts
<1>2. 1 \in DOMAIN s /\ s[1].event \in Event
  <2>1. 1 \in DOMAIN s /\ s[1] \in Message
    BY TailFacts
  <2> QED BY <2>1 DEF Message
<1>3. /\ r \in Seq(Event) /\ r # <<>> /\ r[Len(q) + 1] = s[1].event
      /\ \A n \in DOMAIN q : r[n] = q[n] /\ n < Len(q) + 1
      /\ \A n \in DOMAIN r : n \in Nat /\ (n \in DOMAIN q \/ n = Len(q) + 1)
  BY <1>2, AppendFacts
<1> HIDE DEF r
<1>4. Carries(i, Tail(s), r, t)
  <2>1. \A n \in DOMAIN r : \E x \in DOMAIN t : t[x] = r[n]
    BY <1>2, <1>3 DEF Carries
  <2> QED BY <1>1, <2>1 DEF Carries
<1>5. Ordered(i, Tail(s), r)
  <2>1. ASSUME NEW m \in DOMAIN r, NEW n \in DOMAIN r, m < n PROVE Follows(r[m], r[n])
    <3>1. m \in DOMAIN q
      BY <1>3, <2>1
    <3>2. CASE n \in DOMAIN q
      BY <1>3, <2>1, <3>1, <3>2 DEF Ordered
    <3>3. CASE n = Len(q) + 1
      BY <1>2, <1>3, <3>1, <3>3 DEF Ordered
    <3> QED BY <1>3, <3>2, <3>3
  <2>2. ASSUME NEW n \in DOMAIN r, NEW p \in DOMAIN Tail(s), Tail(s)[p].id = i
        PROVE  Follows(r[n], Tail(s)[p].event)
    <3>1. p + 1 \in DOMAIN s /\ Tail(s)[p] = s[p + 1] /\ 1 < p + 1
      <4>1. p \in Nat /\ p >= 1
        OBVIOUS
      <4> QED BY <1>1, <4>1
    <3>2. CASE n \in DOMAIN q
      BY <1>3, <2>2, <3>1, <3>2 DEF Ordered
    <3>3. CASE n = Len(q) + 1
      BY <1>2, <1>3, <2>2, <3>1, <3>3 DEF Ordered
    <3> QED BY <1>3, <3>2, <3>3
  <2>3. \A o, p \in DOMAIN Tail(s) :
          o < p /\ Tail(s)[o].id = i /\ Tail(s)[p].id = i
             => Follows(Tail(s)[o].event, Tail(s)[p].event)
    BY TailKeeps DEF Ordered
  <2> QED BY <2>1, <2>2, <2>3 DEF Ordered
<1>6. ASSUME Begins(i, s, q, t) PROVE Begins(i, Tail(s), r, t)
  <2>1. CASE q # <<>>
    BY <1>3, <1>6, <2>1 DEF Begins
  <2>2. CASE q = <<>>
    <3>1. s[1].event = t[1]
      BY <1>2, <1>6, <2>2 DEF Begins
    <3> QED BY <1>3, <2>2, <3>1 DEF Begins
  <2> QED BY <2>1, <2>2
<1> QED BY <1>3, <1>4, <1>5, <1>6 DEF r

\* A message at the end of the pipe is nothing to the other herds ...
LEMMA SentByOther ==
    ASSUME NEW i, NEW s \in Seq(Message), NEW q \in Seq(Event), NEW t \in Seq(Event),
           NEW m \in Message, m.id # i
    PROVE  /\ Carries(i, s, q, t) => Carries(i, Append(s, m), q, t)
           /\ Ordered(i, s, q) => Ordered(i, Append(s, m), q)
           /\ Begins(i, s, q, t) => Begins(i, Append(s, m), q, t)
<1> DEFINE u == Append(s, m)
<1>1. /\ u[Len(s) + 1] = m
      /\ \A p \in DOMAIN s : p \in DOMAIN u /\ u[p] = s[p] /\ p < Len(s) + 1
      /\ \A p \in DOMAIN u : p \in Nat /\ (p \in DOMAIN s \/ p = Len(s) + 1)
  BY AppendFacts
<1> HIDE DEF u
<1>2. Carries(i, s, q, t) => Carries(i, u, q, t)
  BY <1>1 DEF Carries
<1>3. Ordered(i, s, q) => Ordered(i, u, q)
  BY <1>1 DEF Ordered
<1>4. Begins(i, s, q, t) => Begins(i, u, q, t)
  BY <1>1 DEF Begins
<1> QED BY <1>2, <1>3, <1>4 DEF u

\* ... and the last of its own to the herd that sent it.
LEMMA SentByOne ==
    ASSUME NEW i, NEW s \in Seq(Message), NEW q \in Seq(Event), NEW t \in Seq(Event),
           NEW e \in Event, [id |-> i, event |-> e] \in Message,
           \A x \in DOMAIN t : Follows(t[x], e),
           Carries(i, s, q, t), Ordered(i, s, q)
    PROVE  LET u == Append(s, [id |-> i, event |-> e])
           IN  /\ Carries(i, u, q, Append(t, e)) /\ Ordered(i, u, q)
               /\ (t # <<>> => Begins(i, s, q, t)) => Begins(i, u, q, Append(t, e))
<1> DEFINE m == [id |-> i, event |-> e]
           u == Append(s, m)
           v == Append(t, e)
<1>1. /\ Len(s) + 1 \in DOMAIN u /\ u[Len(s) + 1] = m
      /\ \A p \in DOMAIN s : p \in DOMAIN u /\ u[p] = s[p] /\ p < Len(s) + 1
      /\ \A p \in DOMAIN u : p \in Nat /\ (p \in DOMAIN s \/ p = Len(s) + 1)
  BY AppendFacts
<1>2. /\ Len(t) + 1 \in DOMAIN v /\ v[Len(t) + 1] = e
      /\ \A x \in DOMAIN t : x \in DOMAIN v /\ v[x] = t[x]
  BY AppendFacts
<1>3. m.id = i /\ m.event = e
  OBVIOUS
<1>4. t # <<>> => v[1] = t[1]
  BY <1>2
<1>5. t = <<>> => v[1] = e
  BY <1>2
<1> HIDE DEF m, u, v
<1>6. Carries(i, u, q, v)
  BY <1>1, <1>2, <1>3 DEF Carries
<1>7. Ordered(i, u, q)
  <2>1. \A n \in DOMAIN q : Follows(q[n], e)
    BY DEF Carries
  <2>2. \A p \in DOMAIN s : s[p].id = i => Follows(s[p].event, e)
    BY DEF Carries
  <2>3. \A n \in DOMAIN q, p \in DOMAIN u : u[p].id = i => Follows(q[n], u[p].event)
    BY <1>1, <1>3, <2>1 DEF Ordered
  <2>4. ASSUME NEW o \in DOMAIN u, NEW p \in DOMAIN u, o < p, u[o].id = i, u[p].id = i
        PROVE  Follows(u[o].event, u[p].event)
    <3>1. o \in DOMAIN s
      BY <1>1, <2>4
    <3>2. CASE p \in DOMAIN s
      BY <1>1, <2>4, <3>1, <3>2 DEF Ordered
    <3>3. CASE p = Len(s) + 1
      BY <1>1, <1>3, <2>2, <2>4, <3>1, <3>3
    <3> QED BY <1>1, <3>2, <3>3
  <2> QED BY <2>3, <2>4 DEF Ordered
<1>8. ASSUME t # <<>> => Begins(i, s, q, t) PROVE Begins(i, u, q, v)
  <2>1. CASE t # <<>>
    BY <1>1, <1>4, <1>8, <2>1 DEF Begins
  <2>2. CASE t = <<>>
    <3>1. q = <<>> /\ \A p \in DOMAIN s : s[p].id # i
      <4>1. DOMAIN t = {}
        BY <2>2
      <4>2. DOMAIN q = {} /\ \A p \in DOMAIN s : s[p].id # i
        BY <4>1 DEF Carries
      <4> QED BY <4>2
    <3>2. \A o \in DOMAIN u : o < Len(s) + 1 => u[o].id # i
      BY <1>1, <3>1
    <3> QED BY <1>1, <1>3, <1>5, <2>2, <3>1, <3>2 DEF Begins
  <2> QED BY <2>1, <2>2
<1> QED BY <1>6, <1>7, <1>8 DEF m, u, v

\* A channel that is shorter at its front, or that is given up.
LEMMA Taken ==
    ASSUME NEW i, NEW s \in Seq(Message), NEW q \in Seq(Event), NEW t \in Seq(Event),
           q # <<>>, Carries(i, s, q, t), Ordered(i, s, q)
    PROVE  /\ Carries(i, s, Tail(q), t) /\ Ordered(i, s, Tail(q))
           /\ Carries(i, s, <<>>, t) /\ Ordered(i, s, <<>>)
<1>1. \A n \in DOMAIN Tail(q) : n \in Nat /\ n + 1 \in DOMAIN q /\ Tail(q)[n] = q[n + 1]
  BY TailFacts
<1>2. \A m, n \in DOMAIN Tail(q) : m < n => m + 1 < n + 1
  BY <1>1
<1> QED BY <1>1, <1>2 DEF Carries, Ordered

\* What a well-formed conversation allows after what was said.
LEMMA MayFollow ==
    ASSUME NEW t \in Seq(Event), NEW e \in Event, WellFormed(Append(t, e))
    PROVE  /\ \A x \in DOMAIN t : Follows(t[x], e)
           /\ Append(t, e)[1].type \in {"InitSuccess", "Error"}
<1> DEFINE v == Append(t, e)
<1>1. /\ v \in Seq(Event) /\ Len(v) = Len(t) + 1 /\ DOMAIN v = 1 .. Len(t) + 1
      /\ v[Len(t) + 1] = e /\ Len(t) \in Nat /\ DOMAIN t = 1 .. Len(t)
      /\ \A x \in DOMAIN t : v[x] = t[x]
  OBVIOUS
<1> HIDE DEF v
<1>2. \A x \in DOMAIN v :
         /\ IsFinal(v[x]) => x = Len(v)
         /\ x = 1 => v[x].type \in {"InitSuccess", "Error"}
         /\ v[x] = FinishedWriting(FALSE) /\ x < Len(v) => v[x + 1] = Success
  BY DEF WellFormed, v
<1>3. IsFinal(Success)
  BY DEF IsFinal, Success
<1>4. ASSUME NEW x \in DOMAIN t PROVE Follows(t[x], e)
  <2>1. x \in DOMAIN v /\ x < Len(v) /\ x + 1 \in DOMAIN v /\ v[x] = t[x] /\ x \in Nat
    BY <1>1
  <2>2. ~ IsFinal(t[x])
    <3>1. x # Len(v)
      BY <1>1, <2>1
    <3> QED BY <1>2, <2>1, <3>1
  <2>3. ASSUME t[x] = FinishedWriting(FALSE) PROVE IsFinal(e)
    <3>1. v[x + 1] = Success
      BY <1>2, <2>1, <2>3
    <3>2. x + 1 = Len(v)
      BY <1>2, <1>3, <2>1, <3>1
    <3> QED BY <1>1, <1>3, <3>1, <3>2
  <2> QED BY <2>2, <2>3 DEF Follows
<1>5. 1 \in DOMAIN v
  BY <1>1
<1> QED BY <1>2, <1>4, <1>5 DEF v

-----------------------------------------------------------------------------

\* What the types say of the herd, the daemon and the message a step is about.
LEMMA Subjects ==
    ASSUME TypeOK
    PROVE  /\ Id \subseteq Nat /\ nextId \in Nat
           /\ call.pc # "idle" => call.id \in Id /\ call.id < nextId
           /\ call.on \in Daemon
           /\ \A i \in Id : /\ queue[i] \in Seq(Event) /\ sent[i] \in Seq(Event)
                            /\ queue[i] # <<>> => Head(queue[i]) \in Event
           /\ \A k \in Daemon :
                 /\ stdin[k] \in Seq(Id) /\ stdout[k] \in Seq(Message)
                 /\ stdin[k] # <<>> => Head(stdin[k]) \in Id
                 /\ stdout[k] # <<>> => Head(stdout[k]).id \in Id
                                        /\ Head(stdout[k]).event \in Event
<1>1. /\ Id \subseteq Nat /\ nextId \in Nat
      /\ call.pc # "idle" => call.id \in Id /\ call.id < nextId
      /\ call.on \in Daemon
  BY FacadeAssumption DEF TypeOK, Id
<1>2. ASSUME NEW i \in Id
      PROVE  /\ queue[i] \in Seq(Event) /\ sent[i] \in Seq(Event)
             /\ queue[i] # <<>> => Head(queue[i]) \in Event
  <2>1. queue[i] \in Seq(Event) /\ sent[i] \in Seq(Event)
    BY DEF TypeOK
  <2> QED BY <2>1, TailFacts
<1>3. ASSUME NEW k \in Daemon
      PROVE  /\ stdin[k] \in Seq(Id) /\ stdout[k] \in Seq(Message)
             /\ stdin[k] # <<>> => Head(stdin[k]) \in Id
             /\ stdout[k] # <<>> => Head(stdout[k]).id \in Id
                                    /\ Head(stdout[k]).event \in Event
  <2>1. stdin[k] \in Seq(Id) /\ stdout[k] \in Seq(Message)
    BY DEF TypeOK, Message
  <2>2. stdout[k] # <<>> => Head(stdout[k]) \in Message
    BY <2>1, TailFacts
  <2> QED BY <2>1, <2>2, TailFacts DEF Message
<1> QED BY <1>1, <1>2, <1>3

LEMMA UpdateFacts ==
    ASSUME NEW D, NEW V, NEW f \in [D -> V], NEW d \in D, NEW v \in V
    PROVE  /\ [f EXCEPT ![d] = v] \in [D -> V]
           /\ [f EXCEPT ![d] = v][d] = v
           /\ \A c \in D : c # d => [f EXCEPT ![d] = v][c] = f[c]
OBVIOUS

CallType == [pc : {"idle", "ensure", "send", "take", "await"}, id : Id \cup {0},
             on : Daemon]

ReceiverType == {"none", "map", "call", "handle", "dropped"}

LEMMA Moves ==
    ASSUME call \in CallType, NEW x \in {"send", "take", "await"}
    PROVE  [call EXCEPT !.pc = x] \in CallType
BY DEF CallType

LEMMA FacadeInit == Init => FacadeInv
<1> SUFFICES ASSUME Init PROVE FacadeInv
  OBVIOUS
<1>1. TypeOK
  BY FacadeAssumption DEF Init, TypeOK, Idle, Daemon
<1>2. Calls
  BY DEF Init, Calls, CallsOf, Silent, Idle
<1>3. Requests /\ Hosts
  BY DEF Init, Requests, Hosts
<1>4. Streams
  BY DEF Init, Streams, StreamsOf, Carries, Ordered
<1> QED BY <1>1, <1>2, <1>3, <1>4 DEF FacadeInv

LEMMA TypeStep == FacadeInv /\ [Next]_vars => TypeOK'
<1> SUFFICES ASSUME FacadeInv, [Next]_vars PROVE TypeOK'
  OBVIOUS
<1>1. TypeOK /\ Calls
  BY DEF FacadeInv
<1>2. /\ call \in CallType /\ stdin \in [Daemon -> Seq(Id)]
      /\ stdout \in [Daemon -> Seq(Message)] /\ sent \in [Id -> Seq(Event)]
      /\ queue \in [Id -> Seq(Event)] /\ received \in [Id -> Seq(Event)]
      /\ receiver \in [Id -> ReceiverType] /\ entry \in [Id -> BOOLEAN]
  BY <1>1 DEF TypeOK, CallType, Message, ReceiverType
<1>3. Idle \in CallType /\ Idle.pc = "idle"
  BY DEF Idle, Daemon, CallType
<1> USE DEF callVars, clientVars, herdVars, demuxVars
<1>a. ASSUME NEW k \in Daemon, StartHerd(k) PROVE TypeOK'
  <2>1. nextId' \in 0 .. MaxHerds
    BY <1>a, <1>1, FacadeAssumption DEF StartHerd, MayCall, TypeOK, Id
  <2>2. call' \in [pc : {"idle", "ensure", "send", "take", "await"},
                   id : Id \cup {0}, on : Daemon]
        /\ call'.id < nextId'
    BY <1>a, <1>1, FacadeAssumption DEF StartHerd, MayCall, TypeOK, Id
  <2> QED BY <1>a, <1>1, <2>1, <2>2 DEF StartHerd, MayCall, TypeOK
<1>b. CASE ReuseDaemon \/ SpawnDaemon
  <2>1. call' = [call EXCEPT !.pc = "send"] /\ call.pc = "ensure"
    BY <1>b DEF ReuseDaemon, SpawnDaemon
  <2>2. call' \in CallType /\ call'.id = call.id
    BY <1>2, <2>1, Moves DEF CallType
  <2>3. /\ UNCHANGED <<nextId, outcome, stdin, stdout, herdVars, demuxVars, received>>
        /\ client' \in [Daemon -> BOOLEAN]
        /\ proc' \in [Daemon -> {"absent", "running", "dead"}]
        /\ reader' \in [Daemon -> {"none", "reading", "dead"}]
    <3>1. CASE ReuseDaemon
      BY <1>1, <3>1 DEF ReuseDaemon, TypeOK
    <3>2. CASE SpawnDaemon
      BY <1>1, <3>2 DEF SpawnDaemon, TypeOK
    <3> QED BY <1>b, <3>1, <3>2
  <2> QED BY <1>1, <2>1, <2>2, <2>3 DEF TypeOK, CallType
<1>c. CASE SpawnFails
  <2>1. PICK result \in {"spawn_failure", "panicked"} : Return(result)
    BY <1>c DEF SpawnFails
  <2>2. outcome' \in [Id -> {"none", "spawn_failure", "transport_failure", "started",
                             "failed", "unexpected_first_status", "panicked"}]
        /\ call' = Idle
    BY <1>1, <2>1 DEF Return, TypeOK
  <2> QED BY <1>c, <1>1, <1>3, <2>2 DEF SpawnFails, TypeOK, CallType
<1>d. CASE SendRequest
  <2>1. call.id \in Id /\ call.id < nextId /\ call.on \in Daemon
    BY <1>d, <1>1, Subjects DEF SendRequest
  <2>2. UNCHANGED <<nextId, clientVars, stdout, herdVars, demuxVars, received>>
    BY <1>d DEF SendRequest
  <2>3. CASE ~ RequestFails
    <3>1. stdin' = [stdin EXCEPT ![call.on] = Append(stdin[call.on], call.id)]
      BY <1>d, <2>3 DEF SendRequest
    <3>2. stdin' \in [Daemon -> Seq(Id)]
      BY <1>2, <2>1, <3>1, UpdateFacts, AppendFacts
    <3>3. call' = [call EXCEPT !.pc = "take"] /\ outcome' = outcome
      BY <1>d, <2>3 DEF SendRequest
    <3>4. call' \in CallType /\ call'.id = call.id
      BY <1>2, <3>3, Moves DEF CallType
    <3> QED BY <1>1, <2>1, <2>2, <3>2, <3>3, <3>4 DEF TypeOK, CallType
  <2>4. CASE RequestFails
    <3>1. PICK result \in {"transport_failure", "panicked"} :
             call' = Idle /\ outcome' = [outcome EXCEPT ![call.id] = result]
      BY <2>4 DEF RequestFails, Return
    <3>3. stdin' = stdin
      BY <1>d, <2>4, <1>1, <3>1 DEF SendRequest, TypeOK, Idle
    <3>2. outcome' \in [Id -> {"none", "spawn_failure", "transport_failure", "started",
                               "failed", "unexpected_first_status", "panicked"}]
      BY <1>1, <3>1 DEF TypeOK
    <3> QED BY <1>1, <1>3, <2>2, <3>1, <3>2, <3>3 DEF TypeOK, CallType
  <2> QED BY <2>3, <2>4
<1>e. CASE TakeReceiver
  <2>1. call.id \in Id /\ call.id < nextId
    BY <1>e, <1>1, Subjects DEF TakeReceiver
  <2>2. ~ entry[call.id] \/ receiver[call.id] = "map"
    BY <1>e, <1>1, <2>1 DEF TakeReceiver, Calls, CallsOf
  <2>3. /\ call' = [call EXCEPT !.pc = "await"]
        /\ entry' = [entry EXCEPT ![call.id] = TRUE]
        /\ receiver' = [receiver EXCEPT ![call.id] = "call"]
        /\ UNCHANGED <<nextId, outcome, clientVars, stdin, stdout, herdVars, queue, received>>
    BY <1>e, <2>2 DEF TakeReceiver
  <2>4. call' \in CallType /\ call'.id = call.id
    BY <1>2, <2>3, Moves DEF CallType
  <2>5. entry' \in [Id -> BOOLEAN] /\ receiver' \in [Id -> ReceiverType]
    BY <1>2, <2>1, <2>3 DEF ReceiverType
  <2> QED BY <1>1, <2>1, <2>3, <2>4, <2>5 DEF TypeOK, CallType, ReceiverType
<1>f. CASE FirstEvent
  <2>1. call.id \in Id /\ Head(queue[call.id]) \in Event
        /\ Tail(queue[call.id]) \in Seq(Event)
    BY <1>f, <1>1, Subjects, TailFacts DEF FirstEvent
  <2>2. PICK result \in {"started", "failed", "unexpected_first_status"} :
           /\ received' = [received EXCEPT ![call.id] = Append(@, Head(queue[call.id]))]
           /\ receiver' = [receiver EXCEPT ![call.id] =
                             IF result = "started" THEN "handle" ELSE "dropped"]
           /\ queue' = [queue EXCEPT ![call.id] =
                          IF result = "started" THEN Tail(@) ELSE <<>>]
           /\ Return(result)
    BY <1>f DEF FirstEvent
  <2>3. received' \in [Id -> Seq(Event)] /\ queue' \in [Id -> Seq(Event)]
    BY <1>2, <2>1, <2>2
  <2>4. receiver' \in [Id -> ReceiverType]
    BY <1>2, <2>2 DEF ReceiverType
  <2>5. outcome' \in [Id -> {"none", "spawn_failure", "transport_failure", "started",
                             "failed", "unexpected_first_status", "panicked"}]
        /\ call' = Idle
    BY <1>1, <2>2 DEF Return, TypeOK
  <2> QED BY <1>f, <1>1, <1>3, <2>3, <2>4, <2>5 DEF FirstEvent, TypeOK, CallType, ReceiverType
<1>g. ASSUME NEW i \in Id, Consume(i) PROVE TypeOK'
  <2>1. Head(queue[i]) \in Event /\ Tail(queue[i]) \in Seq(Event) /\ <<>> \in Seq(Event)
    BY <1>g, <1>1, Subjects, TailFacts DEF Consume
  <2>2. /\ received' = [received EXCEPT ![i] = Append(received[i], Head(queue[i]))]
        /\ \/ queue' = [queue EXCEPT ![i] = <<>>]
              /\ receiver' = [receiver EXCEPT ![i] = "dropped"]
           \/ queue' = [queue EXCEPT ![i] = Tail(queue[i])] /\ receiver' = receiver
    BY <1>g DEF Consume
  <2>3. received[i] \in Seq(Event)
    BY <1>2
  <2>4. received' \in [Id -> Seq(Event)]
    BY <1>2, <2>1, <2>2, <2>3, UpdateFacts, AppendFacts
  <2>5. queue' \in [Id -> Seq(Event)]
    <3>1. \A r \in Seq(Event) : [queue EXCEPT ![i] = r] \in [Id -> Seq(Event)]
      BY <1>2, UpdateFacts
    <3> QED BY <2>1, <2>2, <3>1
  <2>6. receiver' \in [Id -> ReceiverType]
    BY <1>2, <2>2, UpdateFacts DEF ReceiverType
  <2> QED BY <1>g, <1>1, <2>4, <2>5, <2>6 DEF Consume, TypeOK, ReceiverType
<1>h. ASSUME NEW k \in Daemon, ReaderDelivers(k) PROVE TypeOK'
  <2> DEFINE i == Head(stdout[k]).id
             e == Head(stdout[k]).event
  <2>1. i \in Id /\ e \in Event /\ Tail(stdout[k]) \in Seq(Message)
    BY <1>h, <1>1, Subjects, TailFacts DEF ReaderDelivers
  <2>2. HandleEvent(i, e)
    BY <1>h DEF ReaderDelivers
  <2> HIDE DEF i, e
  <2>3. queue' \in [Id -> Seq(Event)]
    <3>1. Append(queue[i], e) \in Seq(Event) /\ <<e>> \in Seq(Event)
      BY <1>1, <2>1, Subjects, AppendFacts
    <3>2. \/ queue' = [queue EXCEPT ![i] = Append(queue[i], e)]
          \/ queue' = [queue EXCEPT ![i] = <<e>>]
          \/ queue' = queue
      BY <2>2 DEF HandleEvent
    <3>3. \A r \in Seq(Event) : [queue EXCEPT ![i] = r] \in [Id -> Seq(Event)]
      BY <1>2, <2>1, UpdateFacts
    <3> QED BY <1>2, <3>1, <3>2, <3>3
  <2>4. entry' \in [Id -> BOOLEAN] /\ receiver' \in [Id -> ReceiverType]
    <3>1. \/ entry' = entry /\ receiver' = receiver
          \/ entry' = [entry EXCEPT ![i] = FALSE] /\ receiver' = receiver
          \/ /\ entry' = [entry EXCEPT ![i] = TRUE]
             /\ receiver' = [receiver EXCEPT ![i] = "map"]
      BY <2>2 DEF HandleEvent
    <3> QED BY <1>2, <2>1, <3>1, UpdateFacts DEF ReceiverType
  <2>5. stdout' \in [Daemon -> Seq(Message)]
    BY <1>h, <1>1, <2>1 DEF ReaderDelivers, TypeOK, Message
  <2> QED BY <1>h, <1>1, <2>3, <2>4, <2>5
          DEF ReaderDelivers, TypeOK, Message, ReceiverType
<1>i. ASSUME NEW k \in Daemon, ReaderDies(k) PROVE TypeOK'
  BY <1>i, <1>1 DEF ReaderDies, TypeOK
<1>j. ASSUME NEW k \in Daemon, DaemonSpawnsWriter(k) PROVE TypeOK'
  <2>1. Head(stdin[k]) \in Id /\ Tail(stdin[k]) \in Seq(Id)
    BY <1>j, <1>1, Subjects, TailFacts DEF DaemonSpawnsWriter
  <2>2. stdin' \in [Daemon -> Seq(Id)]
    BY <1>j, <1>1, <2>1 DEF DaemonSpawnsWriter, TypeOK
  <2> QED BY <1>j, <1>1, <2>1, <2>2 DEF DaemonSpawnsWriter, TypeOK
<1>k. ASSUME NEW i \in Id, WriterSends(i) PROVE TypeOK'
  <2>1. PICK e \in Event :
           /\ sent' = [sent EXCEPT ![i] = Append(@, e)]
           /\ stdout' = [stdout EXCEPT ![host[i]] = Append(@, [id |-> i, event |-> e])]
           /\ herd' = [herd EXCEPT ![i] = IF IsFinal(e) THEN "gone" ELSE "running"]
    BY <1>k DEF WriterSends
  <2>2. sent' \in [Id -> Seq(Event)]
    <3>1. sent[i] \in Seq(Event)
      BY <1>2
    <3> QED BY <1>2, <2>1, <3>1, UpdateFacts, AppendFacts
  <2>3. stdout' \in [Daemon -> Seq(Message)]
    <3>1. [id |-> i, event |-> e] \in Message
      BY DEF Message
    <3>2. host[i] \in Daemon
      BY <1>k, <1>1 DEF FacadeInv, Hosts, WriterSends, TypeOK
    <3>3. stdout[host[i]] \in Seq(Message)
      BY <1>2, <3>2
    <3> QED BY <1>2, <2>1, <3>1, <3>2, <3>3, UpdateFacts, AppendFacts
  <2>4. herd' \in [Id -> {"none", "running", "gone"}]
    BY <1>1, <2>1 DEF TypeOK
  <2> QED BY <1>k, <1>1, <2>2, <2>3, <2>4 DEF WriterSends, TypeOK, Message
<1>l. ASSUME NEW i \in Id, WriterPanics(i) PROVE TypeOK'
  BY <1>l, <1>1 DEF WriterPanics, TypeOK
<1>m. ASSUME NEW k \in Daemon, DaemonDies(k) PROVE TypeOK'
  <2>1. stdin' \in [Daemon -> Seq(Id)]
    <3>1. <<>> \in Seq(Id) /\ stdin' = [stdin EXCEPT ![k] = <<>>]
      BY <1>m DEF DaemonDies, DaemonGoes
    <3> QED BY <1>2, <3>1, UpdateFacts
  <2>2. proc' \in [Daemon -> {"absent", "running", "dead"}]
        /\ herd' \in [Id -> {"none", "running", "gone"}]
    BY <1>m, <1>1 DEF DaemonDies, DaemonGoes, TypeOK
  <2> QED BY <1>m, <1>1, <2>1, <2>2 DEF DaemonDies, DaemonGoes, TypeOK
<1>n. CASE UNCHANGED vars
  BY <1>n, <1>1 DEF vars, TypeOK
<1> QED
  BY <1>a, <1>b, <1>c, <1>d, <1>e, <1>f, <1>g, <1>h, <1>i, <1>j, <1>k, <1>l, <1>m, <1>n
     DEF Next, CallStep

LEMMA RequestsStep == FacadeInv /\ [Next]_vars => Requests'
<1> SUFFICES ASSUME FacadeInv, [Next]_vars PROVE Requests'
  OBVIOUS
<1>1. TypeOK /\ Calls /\ Requests
  BY DEF FacadeInv
<1>2. /\ stdin \in [Daemon -> Seq(Id)] /\ host \in [Id -> Daemon \cup {"none"}]
      /\ Daemon = {"std", "esc"}
  BY <1>1 DEF TypeOK, Daemon
<1>a. CASE SendRequest /\ stdin' # stdin
  <2> DEFINE k == call.on
             i == call.id
  <2>1. i \in Id /\ k \in Daemon /\ stdin[k] \in Seq(Id)
    BY <1>a, <1>1, Subjects DEF SendRequest
  <2>2. Silent(i)
    BY <1>a, <1>1, <2>1 DEF SendRequest, Calls, CallsOf
  <2>3. stdin' = [stdin EXCEPT ![k] = Append(stdin[k], i)] /\ host' = host
    BY <1>a DEF SendRequest, herdVars
  <2> HIDE DEF k, i
  <2>4. /\ stdin'[k] = Append(stdin[k], i)
        /\ \A l \in Daemon : l # k => stdin'[l] = stdin[l]
    BY <1>2, <2>1, <2>3
  <2>5. \A p \in DOMAIN stdin'[k] :
           \/ p \in DOMAIN stdin[k] /\ stdin'[k][p] = stdin[k][p]
           \/ p = Len(stdin[k]) + 1 /\ stdin'[k][p] = i
    BY <2>1, <2>4, AppendFacts
  <2>6. \A l \in Daemon : \A p \in DOMAIN stdin'[l] :
           \/ p \in DOMAIN stdin[l] /\ stdin'[l][p] = stdin[l][p] /\ stdin[l][p] # i
           \/ l = k /\ p = Len(stdin[k]) + 1 /\ stdin'[l][p] = i
    BY <2>2, <2>4, <2>5 DEF Silent
  <2> QED BY <1>1, <2>2, <2>3, <2>6 DEF Requests, Silent
<1>b. ASSUME NEW k \in Daemon, DaemonSpawnsWriter(k) PROVE Requests'
  <2> DEFINE i == Head(stdin[k])
  <2>1. i \in Id /\ stdin[k] \in Seq(Id) /\ stdin[k] # <<>> /\ i = stdin[k][1]
        /\ 1 \in DOMAIN stdin[k]
    BY <1>b, <1>1, Subjects, TailFacts DEF DaemonSpawnsWriter
  <2>2. host' = [host EXCEPT ![i] = k] /\ stdin' = [stdin EXCEPT ![k] = Tail(stdin[k])]
    BY <1>b DEF DaemonSpawnsWriter
  <2> HIDE DEF i
  <2>3. /\ stdin'[k] = Tail(stdin[k])
        /\ \A l \in Daemon : l # k => stdin'[l] = stdin[l]
        /\ \A j \in Id : j # i => host'[j] = host[j]
    BY <1>2, <2>1, <2>2
  <2>4. \A p \in DOMAIN stdin'[k] :
           p \in Nat /\ p + 1 \in DOMAIN stdin[k] /\ p + 1 # 1 /\ stdin'[k][p] = stdin[k][p + 1]
    <3>1. \A p \in DOMAIN Tail(stdin[k]) : p \in Nat /\ p + 1 # 1
      BY <2>1
    <3> QED BY <2>1, <2>3, <3>1, TailFacts
  <2>5. \A l \in Daemon : \A p \in DOMAIN stdin'[l] : stdin'[l][p] # i /\ stdin'[l][p] \in Id
    <3> SUFFICES ASSUME NEW l \in Daemon, NEW p \in DOMAIN stdin'[l]
                 PROVE  stdin'[l][p] # i /\ stdin'[l][p] \in Id
      OBVIOUS
    <3>1. CASE l = k
      <4>1. p + 1 \in DOMAIN stdin[k] /\ p + 1 # 1 /\ stdin'[k][p] = stdin[k][p + 1]
        BY <2>4, <3>1
      <4>2. stdin[k][p + 1] \in Id
        BY <2>1, <4>1
      <4> QED BY <1>1, <2>1, <3>1, <4>1, <4>2 DEF Requests
    <3>2. CASE l # k
      <4>1. stdin'[l] = stdin[l] /\ stdin[l] \in Seq(Id)
        BY <1>2, <2>3, <3>2
      <4>2. p \in DOMAIN stdin[l] /\ stdin[l][p] \in Id
        BY <4>1
      <4> QED BY <1>1, <2>1, <3>2, <4>1, <4>2 DEF Requests
    <3> QED BY <3>1, <3>2
  <2>6. \A l \in Daemon : \A p \in DOMAIN stdin'[l] : host'[stdin'[l][p]] = "none"
    <3> SUFFICES ASSUME NEW l \in Daemon, NEW p \in DOMAIN stdin'[l]
                 PROVE  host'[stdin'[l][p]] = "none"
      OBVIOUS
    <3>1. PICK q \in DOMAIN stdin[l] : stdin'[l][p] = stdin[l][q]
      BY <2>3, <2>4
    <3>2. host[stdin[l][q]] = "none"
      BY <1>1 DEF Requests
    <3> QED BY <2>3, <2>5, <3>1, <3>2
  <2>7. ASSUME NEW l \in Daemon, NEW m \in Daemon, NEW p \in DOMAIN stdin'[l],
               NEW q \in DOMAIN stdin'[m], stdin'[l][p] = stdin'[m][q]
        PROVE  l = m /\ p = q
    <3>1. CASE l = k /\ m = k
      <4>1. p + 1 = q + 1 /\ p \in Nat /\ q \in Nat
        BY <1>1, <2>4, <2>7, <3>1 DEF Requests
      <4> QED BY <3>1, <4>1
    <3>2. CASE l # k /\ m # k
      <4>1. stdin'[l] = stdin[l] /\ stdin'[m] = stdin[m]
        BY <2>3, <3>2
      <4> QED BY <1>1, <2>7, <4>1 DEF Requests
    <3>3. CASE (l = k /\ m # k) \/ (l # k /\ m = k)
      <4>1. /\ \E x \in DOMAIN stdin[l] : stdin'[l][p] = stdin[l][x]
            /\ \E x \in DOMAIN stdin[m] : stdin'[m][q] = stdin[m][x]
        BY <2>3, <2>4
      <4>2. l = m
        BY <1>1, <2>7, <4>1 DEF Requests
      <4> QED BY <3>3, <4>2
    <3> QED BY <3>1, <3>2, <3>3
  <2> QED BY <2>6, <2>7 DEF Requests
<1>c. ASSUME NEW k \in Daemon, DaemonDies(k) PROVE Requests'
  <2>1. stdin' = [stdin EXCEPT ![k] = <<>>] /\ host' = host
    BY <1>c DEF DaemonDies, DaemonGoes
  <2>2. stdin'[k] = <<>> /\ \A l \in Daemon : l # k => stdin'[l] = stdin[l]
    BY <1>2, <2>1
  <2>3. \A l \in Daemon : \A p \in DOMAIN stdin'[l] : l # k
    BY <2>2
  <2> QED BY <1>1, <2>1, <2>2, <2>3 DEF Requests
<1>d. ASSUME UNCHANGED <<stdin, host>> PROVE Requests'
  BY <1>1, <1>d DEF Requests
<1>e. CASE SendRequest /\ stdin' = stdin
  BY <1>d, <1>e DEF SendRequest, herdVars
<1>f. CASE (\E k \in Daemon : StartHerd(k) \/ ReaderDelivers(k) \/ ReaderDies(k)) \/ SpawnFails
  BY <1>d, <1>f DEF StartHerd, ReaderDelivers, ReaderDies, SpawnFails, herdVars
<1>g. CASE ReuseDaemon \/ SpawnDaemon \/ TakeReceiver \/ FirstEvent
  BY <1>d, <1>g DEF ReuseDaemon, SpawnDaemon, TakeReceiver, FirstEvent, herdVars
<1>h. CASE \E i \in Id : Consume(i) \/ WriterSends(i) \/ WriterPanics(i)
  BY <1>d, <1>h DEF Consume, WriterSends, WriterPanics, herdVars
<1>i. CASE UNCHANGED vars
  BY <1>d, <1>i DEF vars
<1> QED
  BY <1>a, <1>b, <1>c, <1>e, <1>f, <1>g, <1>h, <1>i DEF Next, CallStep

LEMMA HostsStep == FacadeInv /\ [Next]_vars => Hosts'
<1> SUFFICES ASSUME FacadeInv, [Next]_vars PROVE Hosts'
  OBVIOUS
<1>1. TypeOK /\ Requests /\ Hosts
  BY DEF FacadeInv
<1>2. /\ stdout \in [Daemon -> Seq(Message)] /\ host \in [Id -> Daemon \cup {"none"}]
      /\ sent \in [Id -> Seq(Event)] /\ herd \in [Id -> {"none", "running", "gone"}]
  BY <1>1 DEF TypeOK, Message
<1>3. "none" \notin Daemon
  BY DEF Daemon
<1>a. ASSUME NEW k \in Daemon, ReaderDelivers(k) PROVE Hosts'
  <2>1. /\ stdout[k] \in Seq(Message) /\ stdout[k] # <<>>
        /\ stdout' = [stdout EXCEPT ![k] = Tail(stdout[k])]
        /\ UNCHANGED <<host, sent, herd>>
    BY <1>a, <1>2 DEF ReaderDelivers, herdVars
  <2>2. stdout'[k] = Tail(stdout[k]) /\ \A l \in Daemon : l # k => stdout'[l] = stdout[l]
    BY <1>2, <2>1
  <2>3. \A p \in DOMAIN stdout'[k] : \E q \in DOMAIN stdout[k] : stdout'[k][p] = stdout[k][q]
    BY <2>1, <2>2, TailFacts
  <2>4. \A l \in Daemon : \A p \in DOMAIN stdout'[l] :
           \E q \in DOMAIN stdout[l] : stdout'[l][p] = stdout[l][q]
    BY <2>2, <2>3
  <2> QED BY <1>1, <2>1, <2>4 DEF Hosts
<1>b. ASSUME NEW k \in Daemon, DaemonSpawnsWriter(k) PROVE Hosts'
  <2> DEFINE i == Head(stdin[k])
  <2>1. i \in Id /\ i = stdin[k][1] /\ 1 \in DOMAIN stdin[k]
    BY <1>b, <1>1, Subjects, TailFacts DEF DaemonSpawnsWriter
  <2>2. host[i] = "none"
    BY <1>1, <2>1 DEF Requests
  <2>3. /\ host' = [host EXCEPT ![i] = k] /\ herd' = [herd EXCEPT ![i] = "running"]
        /\ UNCHANGED <<sent, stdout>>
    BY <1>b DEF DaemonSpawnsWriter
  <2> HIDE DEF i
  <2>4. \A j \in Id : IF j = i THEN host'[j] = k ELSE host'[j] = host[j] /\ herd'[j] = herd[j]
    BY <1>2, <2>1, <2>3
  <2>5. \A l \in Daemon : \A p \in DOMAIN stdout[l] : stdout[l][p].id \in Id
    <3> SUFFICES ASSUME NEW l \in Daemon, NEW p \in DOMAIN stdout[l]
                 PROVE  stdout[l][p].id \in Id
      OBVIOUS
    <3>1. stdout[l] \in Seq(Message)
      BY <1>2
    <3>2. stdout[l][p] \in Message
      BY <3>1
    <3> QED BY <3>2 DEF Message
  <2>6. \A l \in Daemon : \A p \in DOMAIN stdout[l] : stdout[l][p].id # i
    BY <1>1, <1>3, <2>2 DEF Hosts
  <2> QED BY <1>1, <1>3, <2>3, <2>4, <2>5, <2>6 DEF Hosts
<1>c. ASSUME NEW i \in Id, WriterSends(i) PROVE Hosts'
  <2>1. host[i] \in Daemon
    BY <1>c, <1>1, <1>2 DEF Hosts, WriterSends
  <2> DEFINE k == host[i]
  <2>2. PICK e \in Event :
           /\ sent' = [sent EXCEPT ![i] = Append(@, e)]
           /\ stdout' = [stdout EXCEPT ![k] = Append(stdout[k], [id |-> i, event |-> e])]
           /\ herd' = [herd EXCEPT ![i] = IF IsFinal(e) THEN "gone" ELSE "running"]
    BY <1>c DEF WriterSends
  <2>3. [id |-> i, event |-> e] \in Message /\ stdout[k] \in Seq(Message) /\ host' = host
    BY <1>c, <1>2, <2>1 DEF Message, WriterSends
  <2>4. host[i] = k
    OBVIOUS
  <2> HIDE DEF k
  <2>5. /\ stdout'[k] = Append(stdout[k], [id |-> i, event |-> e])
        /\ \A l \in Daemon : l # k => stdout'[l] = stdout[l]
    BY <1>2, <2>1, <2>2, <2>4
  <2>6. \A p \in DOMAIN stdout'[k] : \/ p \in DOMAIN stdout[k] /\ stdout'[k][p] = stdout[k][p]
                                     \/ stdout'[k][p].id = i
    BY <2>3, <2>5, AppendFacts
  <2>7. \A l \in Daemon : \A p \in DOMAIN stdout'[l] : host'[stdout'[l][p].id] = l
    <3> SUFFICES ASSUME NEW l \in Daemon, NEW p \in DOMAIN stdout'[l]
                 PROVE  host[stdout'[l][p].id] = l
      BY <2>3
    <3>1. CASE l # k
      BY <1>1, <2>5, <3>1 DEF Hosts
    <3>2. CASE l = k
      BY <1>1, <2>4, <2>6, <3>2 DEF Hosts
    <3> QED BY <3>1, <3>2
  <2>8. \A j \in Id : host'[j] = "none" => sent'[j] = <<>> /\ herd'[j] = "none"
    BY <1>1, <1>2, <1>3, <2>1, <2>2, <2>3 DEF Hosts
  <2> QED BY <2>7, <2>8 DEF Hosts
<1>d. ASSUME NEW i \in Id, WriterPanics(i) PROVE Hosts'
  BY <1>d, <1>1, <1>2 DEF WriterPanics, Hosts
<1>e. ASSUME NEW k \in Daemon, DaemonDies(k) PROVE Hosts'
  BY <1>e, <1>1, <1>2, <1>3 DEF DaemonDies, DaemonGoes, Hosts
<1>f. ASSUME UNCHANGED <<host, sent, herd, stdout>> PROVE Hosts'
  BY <1>1, <1>f DEF Hosts
<1>g. CASE (\E k \in Daemon : StartHerd(k) \/ ReaderDies(k)) \/ SpawnFails \/ SendRequest
  BY <1>f, <1>g DEF StartHerd, ReaderDies, SpawnFails, SendRequest, herdVars
<1>h. CASE ReuseDaemon \/ SpawnDaemon \/ TakeReceiver \/ FirstEvent
  BY <1>f, <1>h DEF ReuseDaemon, SpawnDaemon, TakeReceiver, FirstEvent, herdVars
<1>i. CASE (\E i \in Id : Consume(i)) \/ UNCHANGED vars
  BY <1>f, <1>i DEF Consume, vars, herdVars
<1> QED
  BY <1>a, <1>b, <1>c, <1>d, <1>e, <1>g, <1>h, <1>i DEF Next, CallStep

LEMMA CallsStep == FacadeInv /\ [Next]_vars => Calls'
<1> SUFFICES ASSUME FacadeInv, [Next]_vars, NEW i \in Id PROVE CallsOf(i)'
  BY DEF Calls
<1>1. TypeOK /\ CallsOf(i) /\ Requests /\ Hosts /\ Streams
  BY DEF FacadeInv, Calls
<1>2. /\ nextId \in Nat /\ i \in Nat
      /\ call.pc # "idle" => call.id \in Id /\ call.id < nextId
      /\ stdin \in [Daemon -> Seq(Id)] /\ host \in [Id -> Daemon \cup {"none"}]
      /\ entry \in [Id -> BOOLEAN] /\ queue \in [Id -> Seq(Event)]
      /\ receiver \in [Id -> ReceiverType] /\ call \in CallType
  BY <1>1, Subjects DEF TypeOK, ReceiverType, CallType
<1> USE DEF callVars, clientVars, herdVars, demuxVars
<1>3. ASSUME UNCHANGED <<host, stdin>> PROVE Silent(i)' <=> Silent(i)
  BY <1>3 DEF Silent
<1>4. Idle.pc = "idle"
  BY DEF Idle
<1>a. ASSUME NEW k \in Daemon, StartHerd(k) PROVE CallsOf(i)'
  <2>1. /\ call.pc = "idle" /\ call'.pc = "ensure" /\ call'.id = nextId /\ nextId' = nextId + 1
        /\ UNCHANGED <<host, stdin, entry, queue, receiver>>
    BY <1>a DEF StartHerd, MayCall
  <2> QED BY <1>1, <1>2, <1>3, <2>1 DEF CallsOf
<1>b. CASE ReuseDaemon \/ SpawnDaemon
  <2>1. /\ call.pc = "ensure" /\ call' = [call EXCEPT !.pc = "send"]
        /\ UNCHANGED <<nextId, host, stdin, entry, queue, receiver>>
    BY <1>b DEF ReuseDaemon, SpawnDaemon
  <2>2. call'.pc = "send" /\ call'.id = call.id
    BY <1>2, <2>1 DEF CallType
  <2> QED BY <1>1, <1>3, <2>1, <2>2 DEF CallsOf
<1>c. CASE SpawnFails \/ (SendRequest /\ RequestFails /\ stdin' = stdin)
  <2>1. /\ call.pc \in {"ensure", "send"} /\ call'.pc = "idle"
        /\ UNCHANGED <<nextId, host, stdin, entry, queue, receiver>>
    BY <1>c, <1>4 DEF SpawnFails, SendRequest, RequestFails, Return
  <2> QED BY <1>1, <1>3, <2>1 DEF CallsOf
<1>d. CASE SendRequest /\ ~ (RequestFails /\ stdin' = stdin)
  <2>1. /\ call.pc = "send" /\ call' = [call EXCEPT !.pc = "take"]
        /\ stdin' = [stdin EXCEPT ![call.on] = Append(stdin[call.on], call.id)]
        /\ UNCHANGED <<nextId, host, entry, queue, receiver>>
    BY <1>d DEF SendRequest
  <2>2. call'.pc = "take" /\ call'.id = call.id
    BY <1>2, <2>1 DEF CallType
  <2>3. ASSUME i # call.id, Silent(i) PROVE Silent(i)'
    <3>1. call.id \in Id /\ call.on \in Daemon /\ stdin[call.on] \in Seq(Id)
      BY <1>1, <2>1, Subjects
    <3>2. \A l \in Daemon : stdin'[l] = IF l = call.on THEN Append(stdin[l], call.id)
                                                       ELSE stdin[l]
      BY <1>2, <2>1
    <3>3. \A p \in DOMAIN Append(stdin[call.on], call.id) :
             \/ p \in DOMAIN stdin[call.on]
                /\ Append(stdin[call.on], call.id)[p] = stdin[call.on][p]
             \/ Append(stdin[call.on], call.id)[p] = call.id
      BY <3>1, AppendFacts
    <3>4. ASSUME NEW l \in Daemon, NEW p \in DOMAIN stdin'[l] PROVE stdin'[l][p] # i
      <4>1. CASE l = call.on
        BY <2>3, <3>2, <3>3, <4>1 DEF Silent
      <4>2. CASE l # call.on
        BY <2>3, <3>2, <4>2 DEF Silent
      <4> QED BY <4>1, <4>2
    <3> QED BY <2>1, <2>3, <3>4 DEF Silent
  <2> QED BY <1>1, <2>1, <2>2, <2>3 DEF CallsOf
<1>e. CASE TakeReceiver
  <2>1. call.id \in Id /\ call.pc = "take"
    BY <1>e, <1>2 DEF TakeReceiver
  <2>2. ~ entry[call.id] \/ receiver[call.id] = "map"
    BY <2>1 DEF FacadeInv, Calls, CallsOf
  <2>3. /\ call' = [call EXCEPT !.pc = "await"]
        /\ entry' = [entry EXCEPT ![call.id] = TRUE]
        /\ receiver' = [receiver EXCEPT ![call.id] = "call"]
        /\ UNCHANGED <<nextId, host, stdin, queue>>
    BY <1>e, <2>2 DEF TakeReceiver
  <2>4. call'.pc = "await" /\ call'.id = call.id
    BY <1>2, <2>3 DEF CallType
  <2>5. IF i = call.id THEN receiver'[i] = "call" /\ entry'[i]
                       ELSE receiver'[i] = receiver[i] /\ entry'[i] = entry[i]
    BY <1>2, <2>1, <2>3
  <2> QED BY <1>1, <1>2, <1>3, <2>1, <2>3, <2>4, <2>5 DEF CallsOf
<1>f. CASE FirstEvent
  <2>1. /\ call.pc = "await" /\ call'.pc = "idle" /\ call.id \in Id
        /\ UNCHANGED <<nextId, host, stdin, entry>>
    BY <1>f, <1>2, <1>4 DEF FirstEvent, Return
  <2>2. IF i = call.id THEN receiver'[i] \in {"handle", "dropped"}
                       ELSE receiver'[i] = receiver[i] /\ queue'[i] = queue[i]
    BY <1>f, <1>2, <2>1 DEF FirstEvent
  <2> QED BY <1>1, <1>2, <1>3, <2>1, <2>2 DEF CallsOf
<1>g. ASSUME NEW j \in Id, Consume(j) PROVE CallsOf(i)'
  <2>1. /\ UNCHANGED <<nextId, call, host, stdin, entry>>
        /\ IF i = j THEN receiver[i] = "handle" /\ receiver'[i] \in {"handle", "dropped"}
                    ELSE receiver'[i] = receiver[i] /\ queue'[i] = queue[i]
    BY <1>g, <1>2 DEF Consume
  <2> QED BY <1>1, <1>3, <2>1 DEF CallsOf
<1>h. ASSUME NEW k \in Daemon, ReaderDelivers(k) PROVE CallsOf(i)'
  <2> DEFINE j == Head(stdout[k]).id
             e == Head(stdout[k]).event
  <2>1. /\ j \in Id /\ 1 \in DOMAIN stdout[k] /\ Head(stdout[k]) = stdout[k][1]
        /\ HandleEvent(j, e) /\ UNCHANGED <<nextId, call, host, stdin>>
    BY <1>h, <1>1, Subjects, TailFacts DEF ReaderDelivers
  <2>2. host[j] = k /\ k # "none"
    BY <1>1, <2>1 DEF Hosts, Daemon
  <2>3. receiver[j] = "dropped" => entry[j]
    BY <1>1, <2>1 DEF Streams, StreamsOf, Settled
  <2> HIDE DEF j, e
  <2>4. CASE i # j
    <3>1. receiver'[i] = receiver[i] /\ queue'[i] = queue[i] /\ entry'[i] = entry[i]
      BY <1>2, <2>1, <2>4 DEF HandleEvent
    <3> QED BY <1>1, <1>3, <2>1, <3>1 DEF CallsOf
  <2>5. CASE i = j /\ entry[i] /\ receiver[i] # "dropped"
    <3>1. receiver'[i] = receiver[i] /\ entry'[i] = entry[i]
      BY <2>1, <2>5 DEF HandleEvent
    <3> QED BY <1>1, <1>3, <2>1, <2>5, <3>1 DEF CallsOf
  <2>6. CASE i = j /\ receiver[i] = "dropped"
    <3>1. receiver'[i] = receiver[i]
      BY <2>1, <2>3, <2>6 DEF HandleEvent
    <3> QED BY <1>1, <1>3, <2>1, <2>6, <3>1 DEF CallsOf
  <2>7. CASE i = j /\ ~ entry[i]
    <3>1. receiver[i] = "none" /\ call.id = i /\ call.pc = "take"
      BY <1>1, <1>2, <2>2, <2>3, <2>7 DEF CallsOf, Silent, ReceiverType
    <3>2. receiver'[i] = "map" /\ entry'[i]
      BY <1>2, <2>1, <2>7 DEF HandleEvent
    <3> QED BY <1>1, <1>2, <1>3, <2>1, <3>1, <3>2 DEF CallsOf
  <2> QED BY <2>4, <2>5, <2>6, <2>7
<1>i. ASSUME NEW k \in Daemon, DaemonSpawnsWriter(k) PROVE CallsOf(i)'
  <2> DEFINE j == Head(stdin[k])
  <2>1. /\ j \in Id /\ j = stdin[k][1] /\ 1 \in DOMAIN stdin[k] /\ stdin[k] \in Seq(Id)
        /\ stdin[k] # <<>>
        /\ host' = [host EXCEPT ![j] = k] /\ stdin' = [stdin EXCEPT ![k] = Tail(stdin[k])]
        /\ UNCHANGED <<nextId, call, entry, queue, receiver>>
    BY <1>i, <1>1, Subjects, TailFacts DEF DaemonSpawnsWriter
  <2>2. ~ Silent(j)
    BY <2>1 DEF Silent
  <2> HIDE DEF j
  <2>3. ASSUME i # j, Silent(i) PROVE Silent(i)'
    <3>1. \A p \in DOMAIN Tail(stdin[k]) :
             p + 1 \in DOMAIN stdin[k] /\ Tail(stdin[k])[p] = stdin[k][p + 1]
      BY <2>1, TailFacts
    <3>2. \A l \in Daemon : stdin'[l] = IF l = k THEN Tail(stdin[l]) ELSE stdin[l]
      BY <1>2, <2>1
    <3>3. host'[i] = host[i]
      BY <1>2, <2>1, <2>3
    <3>4. ASSUME NEW l \in Daemon, NEW p \in DOMAIN stdin'[l] PROVE stdin'[l][p] # i
      BY <2>3, <3>1, <3>2, <3>4 DEF Silent
    <3> QED BY <2>3, <3>3, <3>4 DEF Silent
  <2>4. CASE i = j
    BY <1>1, <2>1, <2>2, <2>4 DEF CallsOf
  <2>5. CASE i # j
    BY <1>1, <2>1, <2>3, <2>5 DEF CallsOf
  <2> QED BY <2>4, <2>5
<1>j. ASSUME NEW k \in Daemon, DaemonDies(k) PROVE CallsOf(i)'
  <2>1. /\ UNCHANGED <<nextId, call, host, entry, queue, receiver>>
        /\ stdin' = [stdin EXCEPT ![k] = <<>>]
    BY <1>j DEF DaemonDies, DaemonGoes
  <2>2. \A l \in Daemon : stdin'[l] = IF l = k THEN <<>> ELSE stdin[l]
    BY <1>2, <2>1
  <2>3. Silent(i) => Silent(i)'
    BY <2>1, <2>2 DEF Silent
  <2> QED BY <1>1, <2>1, <2>3 DEF CallsOf
<1>k. CASE \E k \in Daemon : ReaderDies(k)
  BY <1>k, <1>1, <1>3 DEF ReaderDies, CallsOf
<1>l. CASE (\E j \in Id : WriterSends(j) \/ WriterPanics(j)) \/ UNCHANGED vars
  <2>1. UNCHANGED <<nextId, call, host, stdin, entry, queue, receiver>>
    BY <1>l DEF WriterSends, WriterPanics, vars
  <2> QED BY <1>1, <1>3, <2>1 DEF CallsOf
<1> QED
  BY <1>a, <1>b, <1>c, <1>d, <1>e, <1>f, <1>g, <1>h, <1>i, <1>j, <1>k, <1>l
     DEF Next, CallStep

-----------------------------------------------------------------------------

\* A herd about which nothing changes.
LEMMA StreamRests ==
    ASSUME NEW i \in Id, StreamsOf(i),
           sent'[i] = sent[i], queue'[i] = queue[i], receiver'[i] = receiver[i],
           entry'[i] = entry[i], stdout' = stdout, sent[i] # <<>> => host'[i] = host[i]
    PROVE  StreamsOf(i)'
BY DEF StreamsOf, Settled

\* The caller takes the first event: it is InitSuccess, or there is nothing more.
LEMMA FirstEventStream ==
    ASSUME FacadeInv, FirstEvent, NEW i \in Id, i = call.id
    PROVE  StreamsOf(i)'
<1> DEFINE e == Head(queue[i])
<1>1. TypeOK /\ Calls /\ Streams
  BY DEF FacadeInv
<1>2. /\ i \in Id /\ call.pc = "await" /\ queue[i] # <<>> /\ queue[i] \in Seq(Event)
      /\ e = queue[i][1] /\ 1 \in DOMAIN queue[i] /\ sent[i] \in Seq(Event)
      /\ \A k \in Daemon : stdout[k] \in Seq(Message)
      /\ UNCHANGED <<host, sent, stdout, entry>>
  BY <1>1, Subjects, TailFacts DEF FirstEvent, herdVars
<1>3. StreamsOf(i) /\ receiver[i] = "call" /\ entry[i]
  BY <1>1, <1>2 DEF Calls, CallsOf, Streams
<1>4. \E x \in DOMAIN sent[i] : sent[i][x] = e
  BY <1>2, <1>3 DEF StreamsOf, Carries, Daemon
<1>5. sent[i] # <<>> /\ e = sent[i][1]
  BY <1>2, <1>3, <1>4 DEF StreamsOf, Begins
<1>6. e.type \in {"InitSuccess", "Error"}
  BY <1>3, <1>5 DEF StreamsOf
<1>7. queue \in [Id -> Seq(Event)] /\ receiver \in [Id -> ReceiverType]
  BY <1>1 DEF TypeOK, ReceiverType
<1>8. CASE e.type = "InitSuccess"
  <2>1. queue' = [queue EXCEPT ![i] = Tail(queue[i])]
        /\ receiver' = [receiver EXCEPT ![i] = "handle"]
    BY <1>8 DEF FirstEvent
  <2>2. queue'[i] = Tail(queue[i]) /\ receiver'[i] = "handle"
    BY <1>2, <1>7, <2>1
  <2>3. \A k \in Daemon : /\ Carries(i, stdout[k], Tail(queue[i]), sent[i])
                          /\ Ordered(i, stdout[k], Tail(queue[i]))
    BY <1>2, <1>3, Taken DEF StreamsOf
  <2> QED BY <1>2, <1>3, <2>2, <2>3 DEF StreamsOf
<1>9. CASE e.type = "Error"
  <2>1. queue' = [queue EXCEPT ![i] = <<>>] /\ receiver' = [receiver EXCEPT ![i] = "dropped"]
    BY <1>9 DEF FirstEvent
  <2>2. queue'[i] = <<>> /\ receiver'[i] = "dropped"
    BY <1>2, <1>7, <2>1
  <2>3. \A k \in Daemon : Carries(i, stdout[k], <<>>, sent[i]) /\ Ordered(i, stdout[k], <<>>)
    BY <1>2, <1>3, Taken DEF StreamsOf
  <2>4. IsFinal(e) /\ EndsStream(e)
    BY <1>9 DEF IsFinal, EndsStream
  <2>5. \A k \in Daemon : \A p \in DOMAIN stdout[k] :
           stdout[k][p].id = i => Follows(e, stdout[k][p].event)
    BY <1>2, <1>3 DEF StreamsOf, Ordered
  <2>6. \A k \in Daemon : \A p \in DOMAIN stdout[k] : stdout[k][p].id # i
    BY <2>4, <2>5 DEF Follows
  <2>7. Settled(i)'
    BY <1>2, <1>3, <1>4, <2>2, <2>4, <2>6 DEF Settled
  <2> QED BY <1>2, <1>3, <2>2, <2>3, <2>7 DEF StreamsOf
<1> QED BY <1>6, <1>8, <1>9

\* The holder of a handle takes an event, and drops the handle at the right one.
LEMMA ConsumeStream ==
    ASSUME FacadeInv, NEW i \in Id, Consume(i)
    PROVE  StreamsOf(i)'
<1> DEFINE e == Head(queue[i])
<1>1. TypeOK /\ Calls /\ Streams
  BY DEF FacadeInv
<1>2. /\ queue[i] # <<>> /\ queue[i] \in Seq(Event) /\ e = queue[i][1]
      /\ 1 \in DOMAIN queue[i] /\ sent[i] \in Seq(Event)
      /\ \A k \in Daemon : stdout[k] \in Seq(Message)
      /\ UNCHANGED <<host, sent, stdout, entry>>
  BY <1>1, Subjects, TailFacts DEF Consume, herdVars
<1>3. StreamsOf(i) /\ receiver[i] = "handle" /\ entry[i]
  BY <1>1 DEF Calls, CallsOf, Streams, Consume
<1>4. \E x \in DOMAIN sent[i] : sent[i][x] = e
  BY <1>2, <1>3 DEF StreamsOf, Carries, Daemon
<1>5. queue \in [Id -> Seq(Event)] /\ receiver \in [Id -> ReceiverType]
  BY <1>1 DEF TypeOK, ReceiverType
<1>6. \A k \in Daemon : /\ Carries(i, stdout[k], Tail(queue[i]), sent[i])
                        /\ Ordered(i, stdout[k], Tail(queue[i]))
                        /\ Carries(i, stdout[k], <<>>, sent[i])
                        /\ Ordered(i, stdout[k], <<>>)
  BY <1>2, <1>3, Taken DEF StreamsOf
<1>7. CASE ~ EndsStream(e)
  <2>1. queue'[i] = Tail(queue[i]) /\ receiver' = receiver
    BY <1>5, <1>7 DEF Consume
  <2> QED BY <1>2, <1>3, <1>6, <2>1 DEF StreamsOf
<1>8. CASE EndsStream(e)
  <2>1. queue'[i] = <<>> /\ receiver'[i] = "dropped"
    BY <1>5, <1>8 DEF Consume
  <2>2. \A k \in Daemon : \A p \in DOMAIN stdout[k] :
           stdout[k][p].id = i => Follows(e, stdout[k][p].event)
    BY <1>2, <1>3 DEF StreamsOf, Ordered
  <2>3. \A k \in Daemon : \A p \in DOMAIN stdout[k] :
           stdout[k][p].id = i => IsFinal(stdout[k][p].event)
    BY <1>8, <2>2 DEF Follows, EndsStream
  <2>4. Settled(i)'
    BY <1>2, <1>3, <1>4, <1>8, <2>1, <2>3 DEF Settled
  <2> QED BY <1>2, <1>3, <1>6, <2>1, <2>4 DEF StreamsOf
<1> QED BY <1>7, <1>8

\* A message of another herd leaves the pipe.
LEMMA OtherDelivered ==
    ASSUME FacadeInv, NEW k \in Daemon, ReaderDelivers(k), NEW i \in Id,
           i # Head(stdout[k]).id
    PROVE  StreamsOf(i)'
<1> DEFINE j == Head(stdout[k]).id
<1>1. TypeOK /\ StreamsOf(i) /\ j \in Id
  BY Subjects DEF FacadeInv, Streams, ReaderDelivers
<1>2. /\ stdout \in [Daemon -> Seq(Message)] /\ queue[i] \in Seq(Event)
      /\ sent[i] \in Seq(Event) /\ stdout[k] \in Seq(Message) /\ stdout[k] # <<>>
      /\ Head(stdout[k]) = stdout[k][1]
  BY <1>1, Subjects, TailFacts DEF TypeOK, Message, ReaderDelivers
<1>3. /\ stdout' = [stdout EXCEPT ![k] = Tail(stdout[k])] /\ UNCHANGED <<host, sent>>
      /\ HandleEvent(j, Head(stdout[k]).event)
  BY DEF ReaderDelivers, herdVars
<1>4. stdout'[k] = Tail(stdout[k]) /\ \A l \in Daemon : l # k => stdout'[l] = stdout[l]
  BY <1>2, <1>3
<1>5. /\ queue \in [Id -> Seq(Event)] /\ receiver \in [Id -> ReceiverType]
      /\ entry \in [Id -> BOOLEAN]
  BY <1>1 DEF TypeOK, ReceiverType
<1> HIDE DEF j
<1>6. queue'[i] = queue[i] /\ receiver'[i] = receiver[i] /\ entry'[i] = entry[i]
  <2>1. i # j
    BY DEF j
  <2> QED BY <1>1, <1>3, <1>5, <2>1 DEF HandleEvent
<1>7. \A l \in Daemon : /\ Carries(i, stdout'[l], queue[i], sent[i])
                        /\ Ordered(i, stdout'[l], queue[i])
  BY <1>1, <1>2, <1>4, TailKeeps DEF StreamsOf
<1>8. ASSUME Begins(i, stdout[host[i]], queue[i], sent[i]), host[i] \in Daemon
      PROVE  Begins(i, stdout'[host[i]], queue[i], sent[i])
  <2>1. CASE host[i] = k
    <3>1. stdout[k][1].id # i
      BY <1>2 DEF j
    <3>2. Begins(i, Tail(stdout[k]), queue[i], sent[i])
      BY <1>2, <1>8, <2>1, <3>1, TailOfOther
    <3> QED BY <1>4, <2>1, <3>2
  <2>2. CASE host[i] # k
    BY <1>4, <1>8, <2>2
  <2> QED BY <2>1, <2>2
<1>9. sent[i] # <<>> => host[i] \in Daemon
  BY <1>1 DEF FacadeInv, Hosts, TypeOK
<1>10. \A l \in Daemon : \A p \in DOMAIN stdout'[l] :
          \E q \in DOMAIN stdout[l] : stdout'[l][p] = stdout[l][q]
  <2>1. \A p \in DOMAIN stdout'[k] : \E q \in DOMAIN stdout[k] : stdout'[k][p] = stdout[k][q]
    BY <1>2, <1>4, TailFacts
  <2> QED BY <1>4, <2>1
<1>11. Settled(i) => Settled(i)'
  BY <1>3, <1>6, <1>10 DEF Settled
<1> QED BY <1>1, <1>3, <1>6, <1>7, <1>8, <1>9, <1>11 DEF StreamsOf

\* EventDemuxMap::handle_event of the herd's own event: it goes to the channel,
\* or it was the last one and the entry goes.
LEMMA OwnDelivered ==
    ASSUME FacadeInv, NEW k \in Daemon, ReaderDelivers(k), NEW i \in Id,
           i = Head(stdout[k]).id
    PROVE  StreamsOf(i)'
<1> DEFINE e == Head(stdout[k]).event
<1>1. TypeOK /\ StreamsOf(i) /\ CallsOf(i) /\ Hosts /\ e \in Event
  BY Subjects DEF FacadeInv, Streams, Calls, ReaderDelivers
<1>2. /\ stdout \in [Daemon -> Seq(Message)] /\ queue[i] \in Seq(Event)
      /\ sent[i] \in Seq(Event) /\ stdout[k] \in Seq(Message) /\ stdout[k] # <<>>
      /\ 1 \in DOMAIN stdout[k] /\ stdout[k][1].id = i /\ stdout[k][1].event = e
  <2>1. /\ stdout \in [Daemon -> Seq(Message)] /\ queue[i] \in Seq(Event)
        /\ sent[i] \in Seq(Event) /\ stdout[k] \in Seq(Message) /\ stdout[k] # <<>>
    BY <1>1, Subjects DEF TypeOK, Message, ReaderDelivers
  <2>2. 1 \in DOMAIN stdout[k] /\ Head(stdout[k]) = stdout[k][1]
    BY <2>1, TailFacts
  <2> QED BY <2>1, <2>2
<1>3. /\ stdout' = [stdout EXCEPT ![k] = Tail(stdout[k])] /\ UNCHANGED <<host, sent>>
      /\ HandleEvent(i, e)
  BY DEF ReaderDelivers, herdVars
<1>4. stdout'[k] = Tail(stdout[k]) /\ \A l \in Daemon : l # k => stdout'[l] = stdout[l]
  BY <1>2, <1>3
<1>5. /\ queue \in [Id -> Seq(Event)] /\ receiver \in [Id -> ReceiverType]
      /\ entry \in [Id -> BOOLEAN]
  BY <1>1 DEF TypeOK, ReceiverType
<1> HIDE DEF e
<1>6. host[i] = k /\ k # "none"
  BY <1>1, <1>2 DEF Hosts, Daemon
<1>7. \A l \in Daemon : l # k => \A p \in DOMAIN stdout[l] : stdout[l][p].id # i
  BY <1>1, <1>6 DEF Hosts
<1>8. receiver[i] = "dropped" => entry[i]
  BY <1>1, <1>2 DEF StreamsOf, Settled
<1>9. sent[i] # <<>>
  BY <1>1, <1>2 DEF StreamsOf, Carries
<1>10. CASE entry[i] /\ receiver[i] = "dropped"
  <2>1. queue'[i] = queue[i] /\ receiver'[i] = receiver[i] /\ ~ entry'[i]
    BY <1>1, <1>3, <1>5, <1>10 DEF HandleEvent
  <2>2. \A l \in Daemon : /\ Carries(i, stdout'[l], queue[i], sent[i])
                          /\ Ordered(i, stdout'[l], queue[i])
    BY <1>1, <1>2, <1>4, TailKeeps DEF StreamsOf
  <2>3. IsFinal(e) /\ \E x \in DOMAIN sent[i] : IsFinal(sent[i][x])
    BY <1>1, <1>2, <1>10 DEF StreamsOf, Settled, Carries
  <2>4. \A p \in DOMAIN stdout[k] : 1 < p => stdout[k][p].id # i
    BY <1>1, <1>2, <2>3 DEF StreamsOf, Ordered, Follows
  <2>5. \A p \in DOMAIN stdout'[k] : stdout'[k][p].id # i
    <3> SUFFICES ASSUME NEW p \in DOMAIN Tail(stdout[k]) PROVE Tail(stdout[k])[p].id # i
      BY <1>4
    <3>1. p \in Nat /\ p >= 1 /\ p + 1 \in DOMAIN stdout[k]
          /\ Tail(stdout[k])[p] = stdout[k][p + 1]
      <4>1. p \in Nat /\ p >= 1
        BY <1>2
      <4> QED BY <1>2, <4>1, TailFacts
    <3> QED BY <2>4, <3>1
  <2>6. Settled(i)'
    BY <1>1, <1>3, <1>4, <1>7, <1>10, <2>1, <2>3, <2>5 DEF StreamsOf, Settled
  <2> QED BY <1>1, <1>3, <1>10, <2>1, <2>2, <2>6 DEF StreamsOf
<1>11. CASE receiver[i] # "dropped"
  <2>1. queue'[i] = Append(queue[i], e)
    <3>1. ~ entry[i] => queue[i] = <<>>
      BY <1>1, <1>5, <1>11 DEF CallsOf, ReceiverType
    <3>2. Append(<<>>, e) = <<e>>
      OBVIOUS
    <3>3. queue' = [queue EXCEPT ![i] = Append(queue[i], e)]
      BY <1>3, <1>11, <3>1, <3>2 DEF HandleEvent
    <3> QED BY <1>1, <1>5, <3>3
  <2>2. receiver'[i] = receiver[i] \/ (receiver[i] = "none" /\ receiver'[i] = "map")
    BY <1>1, <1>3, <1>5, <1>11 DEF HandleEvent, CallsOf, ReceiverType
  <2>3. /\ Carries(i, Tail(stdout[k]), Append(queue[i], e), sent[i])
        /\ Ordered(i, Tail(stdout[k]), Append(queue[i], e))
        /\ Begins(i, stdout[k], queue[i], sent[i]) =>
              Begins(i, Tail(stdout[k]), Append(queue[i], e), sent[i])
    BY <1>1, <1>2, Delivered DEF StreamsOf
  <2>4. ASSUME NEW l \in Daemon
        PROVE  /\ Carries(i, stdout'[l], Append(queue[i], e), sent[i])
               /\ Ordered(i, stdout'[l], Append(queue[i], e))
    <3>1. CASE l = k
      BY <1>4, <2>3, <3>1
    <3>2. CASE l # k
      <4>1. stdout'[l] = stdout[l] /\ \A p \in DOMAIN stdout'[l] : stdout'[l][p].id # i
        BY <1>4, <1>7, <3>2
      <4> DEFINE r == Append(queue[i], e)
      <4>2. Carries(i, Tail(stdout[k]), r, sent[i]) /\ Ordered(i, Tail(stdout[k]), r)
        BY <2>3
      <4> HIDE DEF r
      <4>3. Carries(i, stdout'[l], r, sent[i])
        BY <4>1, <4>2 DEF Carries
      <4>4. Ordered(i, stdout'[l], r)
        BY <4>1, <4>2 DEF Ordered
      <4> QED BY <4>3, <4>4 DEF r
    <3> QED BY <3>1, <3>2
  <2> QED BY <1>1, <1>3, <1>4, <1>6, <1>9, <1>11, <2>1, <2>2, <2>3, <2>4 DEF StreamsOf
<1> QED BY <1>8, <1>10, <1>11

\* A writer thread says one thing more.
LEMMA SendStream ==
    ASSUME FacadeInv, NEW j \in Id, WriterSends(j), NEW i \in Id
    PROVE  StreamsOf(i)'
<1>1. TypeOK /\ StreamsOf(i) /\ Hosts
  BY DEF FacadeInv, Streams
<1>2. /\ stdout \in [Daemon -> Seq(Message)] /\ queue[i] \in Seq(Event)
      /\ sent \in [Id -> Seq(Event)] /\ sent[i] \in Seq(Event)
      /\ \A k \in Daemon : stdout[k] \in Seq(Message)
  BY <1>1, Subjects DEF TypeOK, Message
<1>3. PICK e \in Event :
         /\ WellFormed(Append(sent[j], e))
         /\ sent' = [sent EXCEPT ![j] = Append(sent[j], e)]
         /\ stdout' = [stdout EXCEPT ![host[j]] = Append(stdout[host[j]], [id |-> j, event |-> e])]
  BY DEF WriterSends
<1> DEFINE h == host[j]
           m == [id |-> j, event |-> e]
<1>4. h \in Daemon
  BY <1>1 DEF Hosts, WriterSends, TypeOK
<1>5. m \in Message /\ m.id = j /\ m.event = e
  BY DEF Message
<1>6. /\ stdout'[h] = Append(stdout[h], m)
      /\ \A l \in Daemon : l # h => stdout'[l] = stdout[l]
      /\ sent'[j] = Append(sent[j], e) /\ (i # j => sent'[i] = sent[i])
      /\ UNCHANGED <<host, queue, receiver, entry>>
  BY <1>2, <1>3, <1>4 DEF WriterSends, demuxVars
<1>7. \A l \in Daemon : \A p \in DOMAIN stdout'[l] :
         (p \in DOMAIN stdout[l] /\ stdout'[l][p] = stdout[l][p]) \/ stdout'[l][p] = m
  <2>1. \A p \in DOMAIN stdout'[h] :
          (p \in DOMAIN stdout[h] /\ stdout'[h][p] = stdout[h][p]) \/ stdout'[h][p] = m
    BY <1>2, <1>4, <1>5, <1>6, AppendFacts
  <2> QED BY <1>6, <2>1
<1>8. host[j] = h
  OBVIOUS
<1> HIDE DEF h, m
<1>9. CASE i # j
  <2>1. \A l \in Daemon : Carries(i, stdout'[l], queue[i], sent[i])
                          /\ Ordered(i, stdout'[l], queue[i])
    BY <1>1, <1>2, <1>5, <1>6, <1>9, SentByOther DEF StreamsOf
  <2>2. Begins(i, stdout[host[i]], queue[i], sent[i]) /\ host[i] \in Daemon
           => Begins(i, stdout'[host[i]], queue[i], sent[i])
    BY <1>2, <1>5, <1>6, <1>9, SentByOther
  <2>3. sent[i] # <<>> => host[i] \in Daemon
    BY <1>1 DEF Hosts, TypeOK
  <2>4. Settled(i) => Settled(i)'
    BY <1>5, <1>6, <1>7, <1>9 DEF Settled
  <2> QED BY <1>1, <1>6, <1>9, <2>1, <2>2, <2>3, <2>4 DEF StreamsOf
<1>10. CASE i = j
  <2>1. \A x \in DOMAIN sent[i] : Follows(sent[i][x], e)
        /\ Append(sent[i], e)[1].type \in {"InitSuccess", "Error"}
    BY <1>2, <1>3, <1>10, MayFollow
  <2>2. sent'[i] = Append(sent[i], e) /\ sent'[i][1].type \in {"InitSuccess", "Error"}
        /\ \A x \in DOMAIN sent[i] : x \in DOMAIN sent'[i] /\ sent'[i][x] = sent[i][x]
    <3>1. Append(sent[i], e)[1].type \in {"InitSuccess", "Error"}
      BY <1>2, <1>3, <1>10, MayFollow
    <3>2. sent'[i] = Append(sent[i], e)
      BY <1>6, <1>10
    <3>3. \A x \in DOMAIN sent[i] : x \in DOMAIN Append(sent[i], e)
                                     /\ Append(sent[i], e)[x] = sent[i][x]
      BY <1>2, AppendFacts
    <3> QED BY <3>1, <3>2, <3>3
  <2>3. /\ Carries(i, stdout'[h], queue[i], sent'[i]) /\ Ordered(i, stdout'[h], queue[i])
        /\ (sent[i] # <<>> => Begins(i, stdout[h], queue[i], sent[i])) =>
              Begins(i, stdout'[h], queue[i], sent'[i])
    <3>1. m = [id |-> i, event |-> e]
      BY <1>10 DEF m
    <3>2. \A x \in DOMAIN sent[i] : Follows(sent[i][x], e)
      BY <1>2, <1>3, <1>10, MayFollow
    <3>3. Carries(i, stdout[h], queue[i], sent[i]) /\ Ordered(i, stdout[h], queue[i])
      BY <1>1, <1>4 DEF StreamsOf
    <3> QED BY <1>2, <1>4, <1>5, <1>6, <2>2, <3>1, <3>2, <3>3, SentByOne
  <2>4. ASSUME NEW l \in Daemon, l # h
        PROVE  Carries(i, stdout'[l], queue[i], sent'[i]) /\ Ordered(i, stdout'[l], queue[i])
    BY <1>1, <1>6, <2>2, <2>4 DEF StreamsOf, Carries
  <2>5. ASSUME Settled(i) PROVE Settled(i)'
    <3>1. \A x \in DOMAIN sent[i] : Follows(sent[i][x], e)
      BY <1>2, <1>3, <1>10, MayFollow
    <3>2. entry[i] /\ IsFinal(e)
      BY <2>5, <3>1 DEF Settled, Follows, EndsStream
    <3> QED BY <1>5, <1>6, <1>7, <2>2, <2>5, <3>2 DEF Settled
  <2> QED BY <1>1, <1>4, <1>6, <1>8, <1>10, <2>2, <2>3, <2>4, <2>5 DEF StreamsOf
<1> QED BY <1>9, <1>10

LEMMA StreamsStep == FacadeInv /\ [Next]_vars => Streams'
<1> SUFFICES ASSUME FacadeInv, [Next]_vars, NEW i \in Id PROVE StreamsOf(i)'
  BY DEF Streams
<1>1. TypeOK /\ StreamsOf(i) /\ CallsOf(i) /\ Requests /\ Hosts
  BY DEF FacadeInv, Streams, Calls
<1>2. /\ queue \in [Id -> Seq(Event)] /\ receiver \in [Id -> ReceiverType]
      /\ entry \in [Id -> BOOLEAN] /\ host \in [Id -> Daemon \cup {"none"}]
  BY <1>1 DEF TypeOK, ReceiverType
<1> USE DEF callVars, clientVars, herdVars, demuxVars
<1>a. ASSUME UNCHANGED <<sent, queue, receiver, entry, stdout, host>> PROVE StreamsOf(i)'
  BY <1>1, <1>a, StreamRests
<1>b. CASE (\E k \in Daemon : StartHerd(k) \/ ReaderDies(k) \/ DaemonDies(k)) \/ SpawnFails
  BY <1>a, <1>b DEF StartHerd, ReaderDies, DaemonDies, DaemonGoes, SpawnFails
<1>c. CASE ReuseDaemon \/ SpawnDaemon \/ SendRequest
  BY <1>a, <1>c DEF ReuseDaemon, SpawnDaemon, SendRequest
<1>d. CASE (\E j \in Id : WriterPanics(j)) \/ UNCHANGED vars
  BY <1>a, <1>d DEF WriterPanics, vars
<1>e. CASE TakeReceiver
  <2>1. call.id \in Id /\ call.pc = "take"
    BY <1>e, <1>1, Subjects DEF TakeReceiver
  <2>2. receiver[call.id] \in {"none", "map"}
    BY <2>1 DEF FacadeInv, Calls, CallsOf
  <2>3. ~ entry[call.id] \/ receiver[call.id] = "map"
    BY <2>1 DEF FacadeInv, Calls, CallsOf
  <2>4. /\ receiver' = [receiver EXCEPT ![call.id] = "call"]
        /\ entry' = [entry EXCEPT ![call.id] = TRUE]
        /\ UNCHANGED <<sent, queue, stdout, host>>
    BY <1>e, <2>3 DEF TakeReceiver
  <2>5. CASE i = call.id
    <3>1. receiver'[i] = "call" /\ receiver[i] \in {"none", "map"}
      BY <1>2, <2>2, <2>4, <2>5
    <3> QED BY <1>1, <2>4, <3>1 DEF StreamsOf
  <2>6. CASE i # call.id
    BY <1>1, <1>2, <2>1, <2>4, <2>6, StreamRests
  <2> QED BY <2>5, <2>6
<1>f. CASE FirstEvent
  <2>1. CASE i = call.id
    BY <1>f, <2>1, FirstEventStream
  <2>2. CASE i # call.id
    <3>1. call.id \in Id
      BY <1>f, <1>1, Subjects DEF FirstEvent
    <3>2. queue'[i] = queue[i] /\ receiver'[i] = receiver[i]
          /\ UNCHANGED <<sent, entry, stdout, host>>
      BY <1>f, <1>2, <2>2, <3>1 DEF FirstEvent
    <3> QED BY <1>1, <3>2, StreamRests
  <2> QED BY <2>1, <2>2
<1>g. ASSUME NEW j \in Id, Consume(j) PROVE StreamsOf(i)'
  <2>1. CASE i = j
    BY <1>g, <2>1, ConsumeStream
  <2>2. CASE i # j
    <3>1. queue'[i] = queue[i] /\ receiver'[i] = receiver[i]
          /\ UNCHANGED <<sent, entry, stdout, host>>
      BY <1>g, <1>2, <2>2 DEF Consume
    <3> QED BY <1>1, <3>1, StreamRests
  <2> QED BY <2>1, <2>2
<1>h. ASSUME NEW k \in Daemon, ReaderDelivers(k) PROVE StreamsOf(i)'
  <2>1. CASE i = Head(stdout[k]).id
    BY <1>h, <2>1, OwnDelivered
  <2>2. CASE i # Head(stdout[k]).id
    BY <1>h, <2>2, OtherDelivered
  <2> QED BY <2>1, <2>2
<1>i. ASSUME NEW k \in Daemon, DaemonSpawnsWriter(k) PROVE StreamsOf(i)'
  <2> DEFINE j == Head(stdin[k])
  <2>1. /\ j \in Id /\ j = stdin[k][1] /\ 1 \in DOMAIN stdin[k]
        /\ host' = [host EXCEPT ![j] = k]
        /\ UNCHANGED <<sent, queue, receiver, entry, stdout>>
    BY <1>i, <1>1, Subjects, TailFacts DEF DaemonSpawnsWriter
  <2>2. host[j] = "none"
    BY <1>1, <2>1 DEF Requests
  <2> HIDE DEF j
  <2>3. sent[i] # <<>> => host'[i] = host[i]
    BY <1>1, <1>2, <2>1, <2>2 DEF Hosts
  <2> QED BY <1>1, <2>1, <2>3, StreamRests
<1>j. ASSUME NEW j \in Id, WriterSends(j) PROVE StreamsOf(i)'
  BY <1>j, SendStream
<1> QED
  BY <1>b, <1>c, <1>d, <1>e, <1>f, <1>g, <1>h, <1>i, <1>j DEF Next, CallStep

-----------------------------------------------------------------------------

(* The inductive invariant of the facade, the reader tasks and the daemons   *)
(* holds in every reachable state.                                           *)
THEOREM FacadeInvariant == Spec => []FacadeInv
<1>1. FacadeInv /\ [Next]_vars => FacadeInv'
  BY TypeStep, CallsStep, RequestsStep, HostsStep, StreamsStep DEF FacadeInv
<1> QED BY FacadeInit, <1>1, PTL DEF Spec

(* Type correctness: take_receiver (facade.rs:98) always finds the receiver   *)
(* it expects, for any number of herds and whichever daemons die.            *)
THEOREM FacadeTypeCorrect == Spec => []TypeOK
<1>1. FacadeInv => TypeOK
  BY DEF FacadeInv
<1> QED BY FacadeInvariant, <1>1, PTL

(* No channel is left in the map for an event that comes too late: once its  *)
(* handle is dropped at most one event of a herd is still on its way, which  *)
(* removes the entry (EventDemuxMap::handle_event).                          *)
THEOREM NobodyParked == Spec => []NothingParked
<1>1. FacadeInv => NothingParked
  BY DEF FacadeInv, Calls, CallsOf, NothingParked
<1> QED BY FacadeInvariant, <1>1, PTL

-----------------------------------------------------------------------------
(* What the pipe holds of a conversation, counted                            *)

LEMMA Counted ==
    ASSUME NEW i, NEW s \in Seq(Message), NEW n \in Nat
    PROVE  IsFiniteSet(Mine(i, s, n)) /\ Cardinality(Mine(i, s, n)) \in Nat
<1>1. IsFiniteSet(1 .. Len(s)) /\ Mine(i, s, n) \in SUBSET (1 .. Len(s))
  BY FS_Interval DEF Mine
<1>2. IsFiniteSet(Mine(i, s, n))
  BY <1>1, FS_Subset
<1> QED BY <1>2, FS_CardinalityType

\* A message at the end of a pipe is counted after all the others.
LEMMA CountAppend ==
    ASSUME NEW i, NEW s \in Seq(Message), NEW m \in Message
    PROVE  LET u == Append(s, m)
           IN  /\ \A n \in 0 .. Len(s) : Mine(i, u, n) = Mine(i, s, n)
               /\ Cardinality(Mine(i, u, Len(u))) =
                     Cardinality(Mine(i, s, Len(s))) + (IF m.id = i THEN 1 ELSE 0)
<1> DEFINE u == Append(s, m)
<1>1. /\ u[Len(s) + 1] = m /\ Len(s) \in Nat /\ Len(u) = Len(s) + 1
      /\ DOMAIN s = 1 .. Len(s) /\ DOMAIN u = 1 .. Len(s) + 1
      /\ \A p \in DOMAIN s : u[p] = s[p]
  OBVIOUS
<1> HIDE DEF u
<1>2. \A n \in 0 .. Len(s) : Mine(i, u, n) = Mine(i, s, n)
  <2> SUFFICES ASSUME NEW n \in 0 .. Len(s) PROVE Mine(i, u, n) = Mine(i, s, n)
    OBVIOUS
  <2>1. \A p \in DOMAIN u : p <= n => p \in DOMAIN s
    BY <1>1
  <2>2. \A p \in DOMAIN s : p \in DOMAIN u
    BY <1>1
  <2> QED BY <1>1, <2>1, <2>2 DEF Mine
<1>3. CASE m.id = i
  <2>1. Mine(i, u, Len(u)) = Mine(i, s, Len(s)) \cup {Len(s) + 1}
    BY <1>1, <1>3 DEF Mine
  <2>2. Len(s) + 1 \notin Mine(i, s, Len(s))
    BY <1>1 DEF Mine
  <2>3. IsFiniteSet(Mine(i, s, Len(s)))
    BY <1>1, Counted
  <2> QED BY <1>2, <1>3, <2>1, <2>2, <2>3, FS_AddElement DEF u
<1>4. CASE m.id # i
  <2>1. Mine(i, u, Len(u)) = Mine(i, s, Len(s))
    BY <1>1, <1>4 DEF Mine
  <2>2. Cardinality(Mine(i, s, Len(s))) \in Nat
    BY <1>1, Counted
  <2> QED BY <1>2, <1>4, <2>1, <2>2 DEF u
<1> QED BY <1>3, <1>4

\* Without its front a pipe holds one less of that message's herd.
LEMMA CountTail ==
    ASSUME NEW i, NEW s \in Seq(Message), s # <<>>, NEW n \in 0 .. Len(Tail(s))
    PROVE  Cardinality(Mine(i, s, n + 1)) =
              Cardinality(Mine(i, Tail(s), n)) + (IF s[1].id = i THEN 1 ELSE 0)
<1> DEFINE T == Tail(s)
           A == Mine(i, T, n)
           B == {p \in Mine(i, s, n + 1) : p # 1}
           f == [p \in A |-> p + 1]
<1>1. /\ T \in Seq(Message) /\ Len(T) \in Nat /\ Len(s) = Len(T) + 1 /\ n \in Nat
      /\ DOMAIN s = 1 .. Len(T) + 1 /\ DOMAIN T = 1 .. Len(T)
      /\ \A p \in DOMAIN T : T[p] = s[p + 1]
  OBVIOUS
<1> HIDE DEF T
<1>2. A \subseteq Nat /\ IsFiniteSet(A) /\ Cardinality(A) \in Nat
  <2>1. A \subseteq Nat
    BY <1>1 DEF Mine
  <2> QED BY <1>1, <2>1, Counted
<1>3. \A p \in A : p + 1 \in B
  BY <1>1 DEF Mine
<1>4. \A p \in B : p - 1 \in A /\ (p - 1) + 1 = p
  <2> SUFFICES ASSUME NEW p \in B PROVE p - 1 \in A /\ (p - 1) + 1 = p
    OBVIOUS
  <2>1. p \in DOMAIN s /\ p <= n + 1 /\ s[p].id = i /\ p # 1
    BY DEF Mine
  <2>2. p - 1 \in DOMAIN T /\ p - 1 <= n /\ (p - 1) + 1 = p
    BY <1>1, <2>1
  <2>3. T[p - 1] = s[p]
    BY <1>1, <2>2
  <2> QED BY <2>1, <2>2, <2>3 DEF Mine
<1>5. \A p, q \in A : p + 1 = q + 1 => p = q
  BY <1>2
<1> HIDE DEF A, B
<1>6. f \in Bijection(A, B)
  <2>1. f \in [A -> B] /\ \A p \in A : f[p] = p + 1
    BY <1>3
  <2>2. \A p, q \in A : f[p] = f[q] => p = q
    BY <1>5, <2>1
  <2>3. \A p \in B : \E q \in A : f[q] = p
    BY <1>4, <2>1
  <2> HIDE DEF f
  <2>4. f \in Injection(A, B)
    BY <2>1, <2>2 DEF Injection, IsInjective
  <2>5. f \in Surjection(A, B)
    BY <2>1, <2>3 DEF Surjection
  <2> QED BY <2>4, <2>5 DEF Bijection
<1>7. IsFiniteSet(B) /\ Cardinality(B) = Cardinality(A)
  <2>1. ExistsBijection(A, B)
    BY <1>6 DEF ExistsBijection
  <2> QED BY <1>2, <2>1, FS_Bijection
<1>8. CASE s[1].id = i
  <2>1. Mine(i, s, n + 1) = B \cup {1} /\ 1 \notin B
    BY <1>1, <1>8 DEF Mine, B
  <2> QED BY <1>7, <1>8, <2>1, FS_AddElement DEF A, T
<1>9. CASE s[1].id # i
  <2>1. Mine(i, s, n + 1) = B
    BY <1>9 DEF Mine, B
  <2> QED BY <1>2, <1>7, <1>9, <2>1 DEF A, T
<1> QED BY <1>8, <1>9

LEMMA ConveysTail ==
    ASSUME NEW i, NEW s \in Seq(Message), NEW r \in Seq(Event), NEW t \in Seq(Event),
           s # <<>>, Conveys(i, s, r, t)
    PROVE  /\ s[1].id # i => Conveys(i, Tail(s), r, t)
           /\ s[1].id = i => Conveys(i, Tail(s), Append(r, s[1].event), t)
<1> DEFINE T == Tail(s)
           c(n) == Cardinality(Mine(i, s, n))
           d(n) == Cardinality(Mine(i, T, n))
           v == Append(r, s[1].event)
<1>1. /\ T \in Seq(Message) /\ Len(T) \in Nat /\ Len(s) = Len(T) + 1
      /\ DOMAIN s = 1 .. Len(T) + 1 /\ DOMAIN T = 1 .. Len(T)
      /\ \A p \in DOMAIN T : T[p] = s[p + 1]
  OBVIOUS
<1>2. \A n \in 0 .. Len(T) : d(n) \in Nat
  <2> HIDE DEF T
  <2> SUFFICES ASSUME NEW n \in 0 .. Len(T) PROVE d(n) \in Nat
    OBVIOUS
  <2>1. n \in Nat
    OBVIOUS
  <2> QED BY <1>1, <2>1, Counted
<1>3. \A n \in 0 .. Len(T) : c(n + 1) = d(n) + (IF s[1].id = i THEN 1 ELSE 0)
  BY CountTail
<1>4. d(0) = 0
  <2>1. Mine(i, T, 0) = {}
    BY <1>1 DEF Mine
  <2> QED BY <2>1, FS_EmptySet
<1>5. /\ Len(r) + c(Len(s)) = Len(t)
      /\ \A n \in DOMAIN r : r[n] = t[n]
      /\ \A p \in DOMAIN s : s[p].id = i => s[p].event = t[Len(r) + c(p)]
  BY DEF Conveys
<1>6. Len(r) \in Nat /\ DOMAIN r = 1 .. Len(r)
  OBVIOUS
<1> HIDE DEF T, c, d
<1>7. ASSUME s[1].id # i PROVE Conveys(i, T, r, t)
  <2>1. Len(r) + d(Len(T)) = Len(t)
    BY <1>1, <1>2, <1>3, <1>5, <1>7
  <2>2. ASSUME NEW p \in DOMAIN T, T[p].id = i PROVE T[p].event = t[Len(r) + d(p)]
    <3>1. p + 1 \in DOMAIN s /\ T[p] = s[p + 1] /\ p \in 0 .. Len(T)
      BY <1>1
    <3>2. c(p + 1) = d(p)
      BY <1>2, <1>3, <1>7, <3>1
    <3> QED BY <1>5, <2>2, <3>1, <3>2
  <2> QED BY <1>5, <2>1, <2>2 DEF Conveys, d
<1>8. ASSUME s[1].id = i PROVE Conveys(i, T, v, t)
  <2>1. /\ Len(v) = Len(r) + 1 /\ DOMAIN v = 1 .. Len(r) + 1 /\ v[Len(r) + 1] = s[1].event
        /\ \A n \in DOMAIN r : v[n] = r[n]
    <3>1. s[1] \in Message
      BY <1>1
    <3>2. s[1].event \in Event
      BY <3>1 DEF Message
    <3> QED BY <3>2
  <2> HIDE DEF v
  <2>2. Len(v) + d(Len(T)) = Len(t)
    <3>1. Len(T) \in 0 .. Len(T) /\ d(Len(T)) \in Nat
      BY <1>1, <1>2
    <3>2. c(Len(s)) = d(Len(T)) + 1
      BY <1>1, <1>3, <1>8, <3>1
    <3> QED BY <1>5, <1>6, <2>1, <3>1, <3>2
  <2>3. s[1].event = t[Len(r) + 1]
    <3>1. 1 \in DOMAIN s /\ 0 \in 0 .. Len(T) /\ 0 + 1 = 1
      BY <1>1
    <3>2. c(1) = 1
      BY <1>3, <1>4, <1>8, <3>1
    <3> QED BY <1>5, <1>8, <3>1, <3>2
  <2>4. \A n \in DOMAIN v : v[n] = t[n]
    BY <1>5, <1>6, <2>1, <2>3
  <2>5. ASSUME NEW p \in DOMAIN T, T[p].id = i PROVE T[p].event = t[Len(v) + d(p)]
    <3>1. p + 1 \in DOMAIN s /\ T[p] = s[p + 1] /\ p \in 0 .. Len(T)
      BY <1>1
    <3>2. Len(r) + c(p + 1) = Len(v) + d(p)
      <4>1. d(p) \in Nat /\ c(p + 1) = d(p) + 1
        BY <1>2, <1>3, <1>8, <3>1
      <4> QED BY <1>6, <2>1, <4>1
    <3> QED BY <1>5, <2>5, <3>1, <3>2
  <2> QED BY <2>2, <2>4, <2>5 DEF Conveys, d
<1> QED BY <1>7, <1>8 DEF T

LEMMA ConveysAppend ==
    ASSUME NEW i, NEW s \in Seq(Message), NEW r \in Seq(Event), NEW t \in Seq(Event),
           NEW m \in Message, m.event \in Event, Conveys(i, s, r, t)
    PROVE  /\ m.id # i => Conveys(i, Append(s, m), r, t)
           /\ m.id = i => Conveys(i, Append(s, m), r, Append(t, m.event))
<1> DEFINE u == Append(s, m)
           v == Append(t, m.event)
           c(n) == Cardinality(Mine(i, s, n))
           d(n) == Cardinality(Mine(i, u, n))
<1>1. /\ u[Len(s) + 1] = m /\ Len(s) \in Nat /\ Len(u) = Len(s) + 1
      /\ DOMAIN s = 1 .. Len(s) /\ DOMAIN u = 1 .. Len(s) + 1
      /\ \A p \in DOMAIN s : u[p] = s[p]
  OBVIOUS
<1>2. /\ Len(v) = Len(t) + 1 /\ v[Len(t) + 1] = m.event /\ Len(t) \in Nat
      /\ \A n \in 1 .. Len(t) : v[n] = t[n]
      /\ Len(r) \in Nat /\ DOMAIN r = 1 .. Len(r)
  OBVIOUS
<1>3. \A n \in 0 .. Len(s) : c(n) \in Nat
  BY <1>1, Counted
<1>4. /\ \A n \in 0 .. Len(s) : d(n) = c(n)
      /\ d(Len(u)) = c(Len(s)) + (IF m.id = i THEN 1 ELSE 0)
  BY CountAppend
<1>5. /\ Len(r) + c(Len(s)) = Len(t)
      /\ \A n \in DOMAIN r : r[n] = t[n]
      /\ \A p \in DOMAIN s : s[p].id = i => s[p].event = t[Len(r) + c(p)]
  BY DEF Conveys
<1>6. \A p \in DOMAIN s : s[p].id = i => Len(r) + c(p) \in 1 .. Len(t)
  <2> SUFFICES ASSUME NEW p \in DOMAIN s, s[p].id = i
               PROVE  Len(r) + c(p) \in 1 .. Len(t)
    OBVIOUS
  <2>1. /\ IsFiniteSet(Mine(i, s, Len(s))) /\ IsFiniteSet(Mine(i, s, p))
        /\ Mine(i, s, p) \in SUBSET Mine(i, s, Len(s)) /\ p \in Mine(i, s, p)
    <3>1. p \in Nat /\ p <= Len(s) /\ p <= p
      BY <1>1
    <3>2. Mine(i, s, p) \in SUBSET Mine(i, s, Len(s)) /\ p \in Mine(i, s, p)
      BY <1>1, <3>1 DEF Mine
    <3> QED BY <1>1, <3>1, <3>2, Counted
  <2>2. c(p) <= c(Len(s)) /\ c(p) # 0
    BY <2>1, FS_Subset, FS_EmptySet
  <2>3. c(p) \in Nat /\ c(Len(s)) \in Nat
    BY <1>1, <1>3
  <2> HIDE DEF c
  <2> QED BY <1>2, <1>5, <2>2, <2>3
<1> HIDE DEF u, v, c, d
<1>7. ASSUME m.id # i PROVE Conveys(i, u, r, t)
  <2>1. d(Len(u)) = c(Len(s))
    BY <1>1, <1>3, <1>4, <1>7
  <2>2. \A p \in DOMAIN u : u[p].id = i => p \in DOMAIN s /\ u[p] = s[p] /\ d(p) = c(p)
    BY <1>1, <1>4, <1>7
  <2> QED BY <1>5, <2>1, <2>2 DEF Conveys, d
<1>8. ASSUME m.id = i PROVE Conveys(i, u, r, v)
  <2>1. Len(r) + d(Len(u)) = Len(v) /\ Len(r) + d(Len(u)) = Len(t) + 1
    <3>1. c(Len(s)) \in Nat /\ d(Len(u)) = c(Len(s)) + 1
      BY <1>1, <1>3, <1>4, <1>8
    <3>2. Len(r) \in Nat /\ Len(v) = Len(t) + 1 /\ Len(r) + c(Len(s)) = Len(t)
      BY <1>2, <1>5
    <3> QED BY <3>1, <3>2
  <2>2. \A n \in DOMAIN r : r[n] = v[n]
    <3>1. c(Len(s)) \in Nat
      BY <1>1, <1>3
    <3>2. \A n \in DOMAIN r : n \in 1 .. Len(t)
      BY <1>2, <1>5, <3>1
    <3> QED BY <1>2, <1>5, <3>2
  <2>3. ASSUME NEW p \in DOMAIN u, u[p].id = i PROVE u[p].event = v[Len(r) + d(p)]
    <3>1. CASE p \in DOMAIN s
      <4>1. u[p] = s[p] /\ d(p) = c(p)
        BY <1>1, <1>4, <3>1
      <4> QED BY <1>2, <1>5, <1>6, <2>3, <3>1, <4>1
    <3>2. CASE p = Len(u)
      BY <1>1, <1>2, <2>1, <3>2
    <3> QED BY <1>1, <3>1, <3>2
  <2> QED BY <2>1, <2>2, <2>3 DEF Conveys, d
<1> QED BY <1>7, <1>8 DEF u, v

LEMMA ConveyedStep ==
    FacadeInv /\ NothingLostOrReordered /\ [Next]_vars => NothingLostOrReordered'
<1> DEFINE TakenBy(i) == received[i] \o queue[i]
           P(i) == Conveys(i, Pipe(i), TakenBy(i), sent[i])
<1> SUFFICES ASSUME FacadeInv, NothingLostOrReordered, [Next]_vars, NEW i \in Id,
                    receiver[i]' # "dropped"
             PROVE  P(i)'
  BY DEF NothingLostOrReordered
<1>1. TypeOK /\ Requests /\ Hosts /\ CallsOf(i)
  BY DEF FacadeInv, Calls
<1>2. /\ queue \in [Id -> Seq(Event)] /\ received \in [Id -> Seq(Event)]
      /\ receiver \in [Id -> ReceiverType] /\ entry \in [Id -> BOOLEAN]
      /\ sent \in [Id -> Seq(Event)] /\ host \in [Id -> Daemon \cup {"none"}]
      /\ stdout \in [Daemon -> Seq(Message)]
  BY <1>1 DEF TypeOK, ReceiverType, Message
<1>3. receiver[i] # "dropped" => P(i)
  BY DEF NothingLostOrReordered
<1>4. "none" \notin Daemon
  BY DEF Daemon
<1>5. ASSUME NEW r \in Seq(Event), NEW q \in Seq(Event), q # <<>>
      PROVE  Append(r, Head(q)) \o Tail(q) = r \o q
  <2> DEFINE a == Append(r, Head(q)) \o Tail(q)
             b == r \o q
  <2>1. Head(q) \in Event /\ Append(r, Head(q)) \in Seq(Event) /\ Tail(q) \in Seq(Event)
    <3>1. Head(q) \in Event /\ Tail(q) \in Seq(Event)
      BY <1>5, TailFacts
    <3> QED BY <3>1, AppendProperties
  <2>2. a \in Seq(Event) /\ b \in Seq(Event) /\ Len(a) = Len(b)
    BY <2>1
  <2>3. \A n \in 1 .. Len(a) : a[n] = b[n]
    BY <2>1
  <2> HIDE DEF a, b
  <2>4. a = b
    BY <2>2, <2>3, SeqEqual
  <2> QED BY <2>4 DEF a, b
<1>6. ASSUME NEW r \in Seq(Event), NEW q \in Seq(Event), NEW e \in Event
      PROVE  r \o Append(q, e) = Append(r \o q, e) /\ r \o q \in Seq(Event)
  OBVIOUS
<1> HIDE DEF P
<1> USE DEF callVars, clientVars, herdVars, demuxVars
<1>a. ASSUME UNCHANGED <<sent, host, stdout>>, receiver[i] # "dropped",
             TakenBy(i)' = TakenBy(i)
      PROVE  P(i)'
  BY <1>3, <1>a DEF P, Pipe
<1>b. ASSUME UNCHANGED <<sent, host, stdout, receiver, queue, received>> PROVE P(i)'
  BY <1>a, <1>b
<1>c. CASE (\E k \in Daemon : StartHerd(k) \/ ReaderDies(k) \/ DaemonDies(k)) \/ SpawnFails
  BY <1>b, <1>c DEF StartHerd, ReaderDies, DaemonDies, DaemonGoes, SpawnFails
<1>d. CASE ReuseDaemon \/ SpawnDaemon \/ SendRequest
  BY <1>b, <1>d DEF ReuseDaemon, SpawnDaemon, SendRequest
<1>e. CASE (\E j \in Id : WriterPanics(j)) \/ UNCHANGED vars
  BY <1>b, <1>e DEF WriterPanics, vars
<1>f. CASE TakeReceiver
  <2>1. call.id \in Id /\ receiver[call.id] \in {"none", "map"}
    BY <1>f, <1>1, Subjects DEF TakeReceiver, FacadeInv, Calls, CallsOf
  <2>2. receiver[i] # "dropped"
    BY <1>2, <1>f, <2>1 DEF TakeReceiver
  <2> QED BY <1>a, <1>f, <2>2 DEF TakeReceiver
<1>g. CASE FirstEvent
  <2>1. call.id \in Id /\ queue[call.id] # <<>> /\ UNCHANGED <<sent, host, stdout>>
    BY <1>f, <1>g, <1>1, Subjects DEF FirstEvent
  <2>2. CASE i = call.id
    <3>1. /\ received'[i] = Append(received[i], Head(queue[i]))
          /\ queue'[i] = Tail(queue[i])
      BY <1>2, <1>g, <2>1, <2>2 DEF FirstEvent
    <3>2. receiver[i] = "call"
      BY <1>1, <1>g, <2>2 DEF CallsOf, FirstEvent
    <3>3. TakenBy(i)' = TakenBy(i)
      BY <1>2, <1>5, <2>1, <2>2, <3>1
    <3> QED BY <1>a, <2>1, <3>2, <3>3
  <2>3. CASE i # call.id
    <3>1. queue'[i] = queue[i] /\ receiver'[i] = receiver[i] /\ received'[i] = received[i]
      BY <1>2, <1>g, <2>1, <2>3 DEF FirstEvent
    <3> QED BY <1>a, <2>1, <3>1
  <2> QED BY <2>2, <2>3
<1>h. ASSUME NEW j \in Id, Consume(j) PROVE P(i)'
  <2>1. UNCHANGED <<sent, host, stdout>>
    BY <1>h DEF Consume
  <2>2. CASE i = j
    <3>1. /\ received'[i] = Append(received[i], Head(queue[i])) /\ queue[i] # <<>>
          /\ queue'[i] = Tail(queue[i]) /\ receiver[i] = "handle"
      BY <1>2, <1>h, <2>2 DEF Consume
    <3>2. TakenBy(i)' = TakenBy(i)
      BY <1>2, <1>5, <3>1
    <3> QED BY <1>a, <2>1, <3>1, <3>2
  <2>3. CASE i # j
    <3>1. queue'[i] = queue[i] /\ receiver'[i] = receiver[i] /\ received'[i] = received[i]
      BY <1>2, <1>h, <2>3 DEF Consume
    <3> QED BY <1>a, <2>1, <3>1
  <2> QED BY <2>2, <2>3
<1>i. ASSUME NEW k \in Daemon, ReaderDelivers(k) PROVE P(i)'
  <2> DEFINE m == Head(stdout[k])
  <2>1. /\ stdout[k] \in Seq(Message) /\ stdout[k] # <<>> /\ m \in Message
        /\ m = stdout[k][1] /\ 1 \in DOMAIN stdout[k]
    BY <1>2, <1>i, TailFacts DEF ReaderDelivers
  <2>2. m.id \in Id /\ m.event \in Event
    BY <2>1 DEF Message
  <2>3. /\ stdout' = [stdout EXCEPT ![k] = Tail(stdout[k])]
        /\ UNCHANGED <<host, sent, received>> /\ HandleEvent(m.id, m.event)
    BY <1>i DEF ReaderDelivers
  <2>4. host[m.id] = k
    BY <1>1, <2>1 DEF Hosts
  <2>5. TakenBy(i) \in Seq(Event) /\ sent[i] \in Seq(Event)
    BY <1>2, <1>6
  <2> HIDE DEF m
  <2>6. CASE i = m.id
    <3>1. receiver[i] # "dropped" /\ (~ entry[i] => queue[i] = <<>>)
      <4>1. receiver[i] = "dropped" => entry[i]
        BY <2>1, <2>6 DEF FacadeInv, Streams, StreamsOf, Settled
      <4>2. receiver[i] # "dropped"
        BY <1>2, <2>3, <2>6, <4>1 DEF HandleEvent
      <4> QED BY <1>1, <1>2, <4>2 DEF CallsOf, ReceiverType
    <3>2. Append(<<>>, m.event) = <<m.event>>
      OBVIOUS
    <3>3. queue' = [queue EXCEPT ![i] = Append(queue[i], m.event)]
      BY <2>3, <2>6, <3>1, <3>2 DEF HandleEvent
    <3>4. TakenBy(i)' = Append(TakenBy(i), m.event)
      <4>1. queue'[i] = Append(queue[i], m.event) /\ received'[i] = received[i]
        BY <1>2, <2>3, <3>3
      <4> QED BY <1>2, <1>6, <2>2, <4>1
    <3>5. Conveys(i, stdout[k], TakenBy(i), sent[i])
      BY <1>3, <1>4, <2>4, <2>6, <3>1 DEF P, Pipe
    <3>6. Conveys(i, Tail(stdout[k]), Append(TakenBy(i), m.event), sent[i])
      BY <2>1, <2>5, <2>6, <3>5, ConveysTail
    <3> QED BY <1>2, <1>4, <2>3, <2>4, <2>6, <3>4, <3>6 DEF P, Pipe
  <2>7. CASE i # m.id
    <3>1. TakenBy(i)' = TakenBy(i) /\ receiver'[i] = receiver[i]
      <4>1. queue'[i] = queue[i] /\ receiver'[i] = receiver[i]
        BY <1>2, <2>2, <2>3, <2>7 DEF HandleEvent
      <4> QED BY <2>3, <4>1
    <3>2. CASE host[i] = k
      <4>1. Conveys(i, stdout[k], TakenBy(i), sent[i])
        BY <1>3, <1>4, <3>1, <3>2 DEF P, Pipe
      <4>2. Conveys(i, Tail(stdout[k]), TakenBy(i), sent[i])
        BY <2>1, <2>5, <2>7, <4>1, ConveysTail
      <4> QED BY <1>2, <1>4, <2>3, <3>1, <3>2, <4>2 DEF P, Pipe
    <3>3. CASE host[i] # k
      <4>1. Pipe(i)' = Pipe(i)
        BY <1>2, <2>3, <3>3 DEF Pipe
      <4> QED BY <1>3, <2>3, <3>1, <4>1 DEF P
    <3> QED BY <3>2, <3>3
  <2> QED BY <2>6, <2>7
<1>j. ASSUME NEW k \in Daemon, DaemonSpawnsWriter(k) PROVE P(i)'
  <2> DEFINE j == Head(stdin[k])
  <2>1. /\ j \in Id /\ j = stdin[k][1] /\ 1 \in DOMAIN stdin[k]
        /\ host' = [host EXCEPT ![j] = k]
        /\ UNCHANGED <<sent, queue, receiver, received, stdout>>
    BY <1>j, <1>1, Subjects, TailFacts DEF DaemonSpawnsWriter
  <2>2. host[j] = "none"
    BY <1>1, <2>1 DEF Requests
  <2> HIDE DEF j
  <2>3. P(i)
    BY <1>3, <2>1
  <2>4. CASE i = j
    <3>1. Pipe(i) = <<>> /\ Pipe(i)' = stdout[k]
      BY <1>2, <1>4, <2>1, <2>2, <2>4 DEF Pipe
    <3>2. \A p \in DOMAIN stdout[k] : stdout[k][p].id # i
      BY <1>1, <1>4, <2>2, <2>4 DEF Hosts
    <3>3. \A n : Mine(i, stdout[k], n) = {} /\ Mine(i, <<>>, n) = {}
      BY <3>2 DEF Mine
    <3>4. Conveys(i, stdout[k], TakenBy(i), sent[i])
      BY <2>3, <3>1, <3>2, <3>3 DEF Conveys, P
    <3> QED BY <2>1, <3>1, <3>4 DEF P
  <2>5. CASE i # j
    <3>1. host'[i] = host[i]
      BY <1>2, <2>1, <2>5
    <3> QED BY <2>1, <2>3, <3>1 DEF P, Pipe
  <2> QED BY <2>4, <2>5
<1>k. ASSUME NEW j \in Id, WriterSends(j) PROVE P(i)'
  <2>1. PICK e \in Event :
           /\ sent' = [sent EXCEPT ![j] = Append(sent[j], e)]
           /\ stdout' = [stdout EXCEPT ![host[j]] =
                           Append(stdout[host[j]], [id |-> j, event |-> e])]
    BY <1>k DEF WriterSends
  <2> DEFINE h == host[j]
             m == [id |-> j, event |-> e]
  <2>2. m \in Message /\ m.id = j /\ m.event = e
    BY DEF Message
  <2>3. h \in Daemon /\ host[j] = h /\ stdout[h] \in Seq(Message)
    BY <1>1, <1>2, <1>k DEF Hosts, WriterSends
  <2>4. /\ stdout'[h] = Append(stdout[h], m)
        /\ \A l \in Daemon : l # h => stdout'[l] = stdout[l]
        /\ sent'[j] = Append(sent[j], e) /\ (i # j => sent'[i] = sent[i])
        /\ UNCHANGED <<host, queue, receiver, received>>
    BY <1>2, <1>k, <2>1, <2>3 DEF WriterSends
  <2> HIDE DEF h, m
  <2>5. TakenBy(i)' = TakenBy(i) /\ TakenBy(i) \in Seq(Event) /\ sent[i] \in Seq(Event) /\ P(i)
    BY <1>2, <1>3, <1>6, <2>4
  <2>6. CASE host[i] = h
    <3>1. Conveys(i, stdout[h], TakenBy(i), sent[i]) /\ Pipe(i)' = stdout'[h]
      BY <1>4, <2>3, <2>4, <2>5, <2>6 DEF P, Pipe
    <3>2. Conveys(i, Append(stdout[h], m), TakenBy(i),
                  IF i = j THEN Append(sent[i], e) ELSE sent[i])
      BY <2>2, <2>3, <2>5, <3>1, ConveysAppend
    <3> QED BY <2>4, <2>5, <3>1, <3>2 DEF P
  <2>7. CASE host[i] # h
    <3>1. Pipe(i)' = Pipe(i) /\ i # j
      BY <1>2, <2>3, <2>4, <2>7 DEF Pipe
    <3> QED BY <2>4, <2>5, <3>1 DEF P
  <2> QED BY <2>6, <2>7
<1>l. CASE \E k \in Daemon :
          \/ StartHerd(k) \/ ReaderDelivers(k) \/ ReaderDies(k)
          \/ DaemonSpawnsWriter(k) \/ DaemonDies(k)
  BY <1>c, <1>i, <1>j, <1>l
<1>m. CASE \E j \in Id : Consume(j) \/ WriterSends(j) \/ WriterPanics(j)
  BY <1>e, <1>h, <1>k, <1>m
<1> QED BY <1>c, <1>d, <1>e, <1>f, <1>g, <1>l, <1>m DEF Next, CallStep

-----------------------------------------------------------------------------
(* What a herd's conversation is like, and who has heard of it               *)

TalksOf(i) ==
    /\ WellFormed(sent[i])
    /\ \A n \in DOMAIN sent[i] : n < MaxEvents \/ IsFinal(sent[i][n])
    /\ herd[i] = "running" => \A n \in DOMAIN sent[i] : ~ IsFinal(sent[i][n])
    /\ receiver[i] \in {"none", "map", "call"} =>
          received[i] = <<>> /\ outcome[i] # "started"
    /\ receiver[i] = "handle" => outcome[i] = "started"

Talks == \A i \in Id : TalksOf(i)

LEMMA TalksInit == Init => Talks
BY DEF Init, Talks, TalksOf, WellFormed, Finishes

LEMMA TalksStep == FacadeInv /\ Talks /\ [Next]_vars => Talks'
<1> SUFFICES ASSUME FacadeInv, Talks, [Next]_vars, NEW i \in Id PROVE TalksOf(i)'
  BY DEF Talks
<1>1. TypeOK /\ Hosts /\ Requests /\ CallsOf(i) /\ TalksOf(i)
  BY DEF FacadeInv, Calls, Talks
<1>2. /\ receiver \in [Id -> ReceiverType] /\ received \in [Id -> Seq(Event)]
      /\ sent \in [Id -> Seq(Event)] /\ herd \in [Id -> {"none", "running", "gone"}]
      /\ outcome \in [Id -> {"none", "spawn_failure", "transport_failure", "started",
                             "failed", "unexpected_first_status", "panicked"}]
  BY <1>1 DEF TypeOK, ReceiverType
<1> USE DEF callVars, clientVars, herdVars, demuxVars
\* Somebody else is talked about.
<1>a. ASSUME sent'[i] = sent[i], herd'[i] = "running" => herd[i] = "running",
             receiver'[i] = receiver[i], received'[i] = received[i],
             outcome'[i] = outcome[i]
      PROVE  TalksOf(i)'
  BY <1>1, <1>a DEF TalksOf
<1>b. CASE (\E k \in Daemon : StartHerd(k) \/ ReaderDies(k) \/ DaemonDies(k))
           \/ ReuseDaemon \/ SpawnDaemon
  BY <1>a, <1>b, <1>2
     DEF StartHerd, ReaderDies, DaemonDies, DaemonGoes, ReuseDaemon, SpawnDaemon
<1>c. CASE SpawnFails \/ SendRequest
  <2>1. /\ call.id \in Id /\ call.pc \in {"ensure", "send"}
        /\ UNCHANGED <<sent, herd, receiver, received>>
        /\ \/ UNCHANGED outcome
           \/ \E result \in {"spawn_failure", "transport_failure", "panicked"} : Return(result)
    BY <1>c, <1>1, Subjects DEF SpawnFails, SendRequest, RequestFails
  <2>2. CASE i = call.id
    <3>1. receiver[i] = "none"
      BY <1>1, <2>1, <2>2 DEF CallsOf
    <3>2. outcome'[i] # "started"
      BY <1>1, <1>2, <2>1, <2>2, <3>1 DEF Return, TalksOf
    <3> QED BY <1>1, <2>1, <3>1, <3>2 DEF TalksOf
  <2>3. CASE i # call.id
    <3>1. outcome'[i] = outcome[i]
      BY <1>2, <2>1, <2>3 DEF Return
    <3> QED BY <1>a, <2>1, <3>1
  <2> QED BY <2>2, <2>3
<1>d. CASE (\E j \in Id : WriterPanics(j)) \/ UNCHANGED vars
  BY <1>a, <1>d, <1>2 DEF WriterPanics, vars
<1>e. CASE TakeReceiver
  <2>1. /\ call.id \in Id /\ receiver[call.id] \in {"none", "map"}
        /\ UNCHANGED <<sent, herd, received, outcome>>
    BY <1>e, <1>1, Subjects DEF TakeReceiver, FacadeInv, Calls, CallsOf
  <2>2. receiver'[i] = receiver[i]
        \/ (receiver[i] \in {"none", "map"} /\ receiver'[i] = "call")
    BY <1>2, <1>e, <2>1 DEF TakeReceiver
  <2> QED BY <1>1, <2>1, <2>2 DEF TalksOf
<1>f. CASE FirstEvent
  <2>1. call.id \in Id /\ UNCHANGED <<sent, herd>>
    BY <1>f, <1>1, Subjects DEF FirstEvent
  <2>2. CASE i = call.id
    <3>1. \/ receiver'[i] = "handle" /\ outcome'[i] = "started"
          \/ receiver'[i] = "dropped"
      BY <1>2, <1>f, <2>1, <2>2 DEF FirstEvent, Return
    <3> QED BY <1>1, <2>1, <3>1 DEF TalksOf
  <2>3. CASE i # call.id
    <3>1. receiver'[i] = receiver[i] /\ received'[i] = received[i]
          /\ outcome'[i] = outcome[i]
      BY <1>2, <1>f, <2>1, <2>3 DEF FirstEvent, Return
    <3> QED BY <1>a, <2>1, <3>1
  <2> QED BY <2>2, <2>3
<1>g. ASSUME NEW j \in Id, Consume(j) PROVE TalksOf(i)'
  <2>1. UNCHANGED <<sent, herd, outcome>>
    BY <1>g DEF Consume
  <2>2. CASE i = j
    <3>1. receiver[i] = "handle" /\ receiver'[i] \in {"handle", "dropped"}
      BY <1>2, <1>g, <2>2 DEF Consume
    <3> QED BY <1>1, <2>1, <3>1 DEF TalksOf
  <2>3. CASE i # j
    <3>1. receiver'[i] = receiver[i] /\ received'[i] = received[i]
      BY <1>2, <1>g, <2>3 DEF Consume
    <3> QED BY <1>a, <2>1, <3>1
  <2> QED BY <2>2, <2>3
<1>h. ASSUME NEW k \in Daemon, ReaderDelivers(k) PROVE TalksOf(i)'
  <2> DEFINE m == Head(stdout[k])
  <2>1. /\ m.id \in Id /\ HandleEvent(m.id, m.event) /\ stdout[k] # <<>>
        /\ UNCHANGED <<sent, herd, received, outcome>>
    BY <1>h, <1>1, Subjects DEF ReaderDelivers
  <2>2. stdout[k] \in Seq(Message) /\ m = stdout[k][1] /\ 1 \in DOMAIN stdout[k]
    BY <1>1, <2>1, Subjects, TailFacts
  <2>3. m.id = i /\ receiver[i] = "dropped" => entry[i]
    BY <2>2 DEF FacadeInv, Streams, StreamsOf, Settled
  <2> HIDE DEF m
  <2>4. \/ receiver'[i] = receiver[i]
        \/ i = m.id /\ ~ entry[i] /\ receiver'[i] = "map"
    BY <1>2, <2>1 DEF HandleEvent
  <2>5. ~ entry[i] /\ i = m.id => receiver[i] = "none"
    BY <1>1, <1>2, <2>3 DEF CallsOf, ReceiverType
  <2> QED BY <1>1, <2>1, <2>4, <2>5 DEF TalksOf
<1>i. ASSUME NEW k \in Daemon, DaemonSpawnsWriter(k) PROVE TalksOf(i)'
  <2> DEFINE j == Head(stdin[k])
  <2>1. /\ j \in Id /\ j = stdin[k][1] /\ 1 \in DOMAIN stdin[k]
        /\ herd' = [herd EXCEPT ![j] = "running"]
        /\ UNCHANGED <<sent, receiver, received, outcome>>
    BY <1>i, <1>1, Subjects, TailFacts DEF DaemonSpawnsWriter
  <2>2. sent[j] = <<>>
    BY <1>1, <2>1 DEF Requests, Hosts
  <2> HIDE DEF j
  <2>3. herd'[i] = herd[i] \/ sent[i] = <<>>
    BY <1>2, <2>1, <2>2
  <2> QED BY <1>1, <2>1, <2>3 DEF TalksOf
<1>j. ASSUME NEW j \in Id, WriterSends(j) PROVE TalksOf(i)'
  <2>1. PICK e \in Event :
           /\ WellFormed(Append(sent[j], e))
           /\ Len(sent[j]) + 1 < MaxEvents \/ IsFinal(e)
           /\ sent' = [sent EXCEPT ![j] = Append(sent[j], e)]
           /\ herd' = [herd EXCEPT ![j] = IF IsFinal(e) THEN "gone" ELSE "running"]
    BY <1>j DEF WriterSends
  <2>2. UNCHANGED <<receiver, received, outcome>> /\ herd[j] = "running"
    BY <1>j DEF WriterSends
  <2>3. CASE i = j
    <3>1. /\ sent[i] \in Seq(Event) /\ sent'[i] = Append(sent[i], e)
          /\ herd'[i] = "running" => ~ IsFinal(e)
      BY <1>2, <2>1, <2>3
    <3>2. /\ sent'[i][Len(sent[i]) + 1] = e
          /\ \A n \in DOMAIN sent'[i] :
                \/ n \in DOMAIN sent[i] /\ sent'[i][n] = sent[i][n]
                \/ n = Len(sent[i]) + 1
      BY <3>1, AppendFacts
    <3>3. \A n \in DOMAIN sent'[i] : n < MaxEvents \/ IsFinal(sent'[i][n])
      BY <1>1, <2>1, <2>3, <3>2 DEF TalksOf
    <3>4. herd'[i] = "running" => \A n \in DOMAIN sent'[i] : ~ IsFinal(sent'[i][n])
      BY <1>1, <2>2, <2>3, <3>1, <3>2 DEF TalksOf
    <3>5. WellFormed(sent'[i])
      BY <2>1, <2>3, <3>1
    <3> QED BY <1>1, <2>2, <3>3, <3>4, <3>5 DEF TalksOf
  <2>4. CASE i # j
    <3>1. sent'[i] = sent[i] /\ herd'[i] = herd[i]
      BY <1>2, <2>1, <2>4
    <3> QED BY <1>a, <2>2, <3>1
  <2> QED BY <2>3, <2>4
<1>k. CASE \E k \in Daemon :
          \/ StartHerd(k) \/ ReaderDelivers(k) \/ ReaderDies(k)
          \/ DaemonSpawnsWriter(k) \/ DaemonDies(k)
  BY <1>b, <1>h, <1>i, <1>k
<1>l. CASE \E j \in Id : Consume(j) \/ WriterSends(j) \/ WriterPanics(j)
  BY <1>d, <1>g, <1>j, <1>l
<1> QED BY <1>b, <1>c, <1>d, <1>e, <1>f, <1>k, <1>l DEF Next, CallStep

\* A conversation is well formed from its first event on.
LEMMA Beginning ==
    ASSUME NEW t \in Seq(Event), WellFormed(t), NEW r \in Seq(Event), Len(r) <= Len(t),
           \A n \in DOMAIN r : r[n] = t[n]
    PROVE  WellFormed(r)
<1>1. /\ Len(r) \in Nat /\ Len(t) \in Nat
      /\ DOMAIN r = 1 .. Len(r) /\ DOMAIN t = 1 .. Len(t)
  OBVIOUS
<1>2. \A n \in DOMAIN r : n \in DOMAIN t /\ n \in Nat /\ n >= 1
  BY <1>1
<1>3. \A n \in Finishes(r) : n \in DOMAIN r /\ n \in Finishes(t)
  BY <1>2 DEF Finishes
<1>4. \A n \in Finishes(t) : n \in DOMAIN r => n \in Finishes(r)
  BY DEF Finishes
<1>5. ASSUME NEW n \in DOMAIN r
      PROVE  /\ IsFinal(r[n]) => n = Len(r)
             /\ r[n].type = "InitSuccess" => n = 1
             /\ n = 1 => r[n].type \in {"InitSuccess", "Error"}
             /\ r[n] = FinishedWriting(FALSE) /\ n < Len(r) => r[n + 1] = Success
  <2>1. r[n] = t[n] /\ n \in DOMAIN t /\ n \in Nat /\ n <= Len(r)
    BY <1>1, <1>2
  <2>2. /\ IsFinal(t[n]) => n = Len(t)
        /\ t[n].type = "InitSuccess" => n = 1
        /\ n = 1 => t[n].type \in {"InitSuccess", "Error"}
        /\ t[n] = FinishedWriting(FALSE) /\ n < Len(t) => t[n + 1] = Success
    BY <2>1 DEF WellFormed
  <2>3. n < Len(r) => n < Len(t) /\ r[n + 1] = t[n + 1]
    BY <1>1, <2>1
  <2>4. n = Len(t) => n = Len(r)
    <3> DEFINE a == Len(r)
               b == Len(t)
    <3>1. a \in Nat /\ b \in Nat /\ a <= b /\ n \in Nat /\ n <= a
      BY <1>1, <2>1
    <3> HIDE DEF a, b
    <3>2. n = b => n = a
      BY <3>1
    <3> QED BY <3>2 DEF a, b
  <2>5. r[n] = FinishedWriting(FALSE) /\ n < Len(r) => r[n + 1] = Success
    BY <2>1, <2>2, <2>3
  <2> QED BY <2>1, <2>2, <2>4, <2>5
<1>6. ASSUME NEW n \in DOMAIN r, r[n].type = "FinishedWriting"
      PROVE  r[n - 1].type = "TotalBytes"
  <2>1. r[n] = t[n] /\ n \in DOMAIN t /\ n \in Nat
    BY <1>2
  <2>2. n # 1
    BY <1>6, <1>5
  <2>3. n - 1 \in DOMAIN r
    BY <1>1, <2>1, <2>2
  <2>4. t[n - 1].type = "TotalBytes"
    BY <1>6, <2>1 DEF WellFormed
  <2> QED BY <2>3, <2>4
<1>7. ASSUME NEW n \in DOMAIN r, r[n] = Success
      PROVE  \E j \in Finishes(r) :
                IF r[j].verifying THEN j < n - 1 /\ r[n - 1].type = "TotalBytes"
                                  ELSE j = n - 1
  <2>1. r[n] = t[n] /\ n \in DOMAIN t /\ n \in Nat /\ n <= Len(r)
    BY <1>1, <1>2
  <2>2. PICK j \in Finishes(t) :
                IF t[j].verifying THEN j < n - 1 /\ t[n - 1].type = "TotalBytes"
                                  ELSE j = n - 1
    BY <1>7, <2>1 DEF WellFormed
  <2>3. j \in Nat /\ j >= 1 /\ j <= n - 1
    BY <1>1, <2>1, <2>2 DEF Finishes
  <2>4. j \in DOMAIN r /\ n - 1 \in DOMAIN r
    BY <1>1, <2>1, <2>3
  <2> QED BY <1>4, <2>2, <2>4
<1>8. \A n, m \in Finishes(r) : n = m
  BY <1>3 DEF WellFormed
<1>9. ASSUME NEW n \in DOMAIN r, NEW m \in DOMAIN r, n < m,
             r[n].type = "TotalBytes", r[m].type = "TotalBytes",
             \A k \in Finishes(r) : ~ (n < k /\ k < m)
      PROVE  r[n].dest <= r[m].dest
  <2>1. \A k \in Finishes(t) : ~ (n < k /\ k < m)
    <3> SUFFICES ASSUME NEW k \in Finishes(t), n < k, k < m PROVE FALSE
      OBVIOUS
    <3>1. k \in DOMAIN r
      BY <1>1 DEF Finishes
    <3> QED BY <1>4, <1>9, <3>1
  <2>2. /\ n \in DOMAIN t /\ m \in DOMAIN t /\ r[n] = t[n] /\ r[m] = t[m]
    BY <1>2
  <2> QED BY <1>9, <2>1, <2>2 DEF WellFormed
<1> QED BY <1>5, <1>6, <1>7, <1>8, <1>9 DEF WellFormed

\* What a channel gives next is what the herd said next.
LEMMA NextInChannel ==
    ASSUME FacadeInv, NothingLostOrReordered, Talks, NEW i \in Id,
           queue[i] # <<>>, receiver[i] # "dropped"
    PROVE  LET n == Len(received[i]) + 1
               e == Head(queue[i])
           IN  /\ e \in Event /\ received[i] \in Seq(Event)
               /\ n \in DOMAIN sent[i] /\ sent[i][n] = e
               /\ WellFormed(Append(received[i], e))
               /\ n < MaxEvents \/ IsFinal(e)
<1> DEFINE r == received[i]
           q == queue[i]
           t == sent[i]
           n == Len(r) + 1
           e == Head(q)
           u == Append(r, e)
<1>1. TalksOf(i) /\ TypeOK
  BY DEF FacadeInv, Talks
<1>2. /\ r \in Seq(Event) /\ q \in Seq(Event) /\ t \in Seq(Event) /\ q # <<>>
      /\ e \in Event /\ e = q[1]
  BY <1>1, TailFacts DEF TypeOK
<1>3. /\ Len(r \o q) + Cardinality(Mine(i, Pipe(i), Len(Pipe(i)))) = Len(t)
      /\ \A m \in DOMAIN (r \o q) : (r \o q)[m] = t[m]
  BY DEF NothingLostOrReordered, Conveys
<1>4. Cardinality(Mine(i, Pipe(i), Len(Pipe(i)))) \in Nat
  <2>1. Pipe(i) \in Seq(Message)
    <3>1. <<>> \in Seq(Message)
      OBVIOUS
    <3>2. stdout \in [Daemon -> Seq(Message)] /\ host[i] \in Daemon \cup {"none"}
      BY <1>1 DEF TypeOK, Message
    <3> QED BY <3>1, <3>2 DEF Pipe
  <2>2. Len(Pipe(i)) \in Nat
    BY <2>1
  <2> QED BY <2>1, <2>2, Counted
<1> HIDE DEF r, q, t
<1>5. /\ Len(r \o q) = Len(r) + Len(q) /\ Len(r) \in Nat /\ Len(q) \in Nat /\ Len(q) >= 1
      /\ DOMAIN (r \o q) = 1 .. Len(r) + Len(q) /\ DOMAIN t = 1 .. Len(t) /\ Len(t) \in Nat
      /\ (r \o q)[n] = e
      /\ \A m \in 1 .. Len(r) : (r \o q)[m] = r[m]
  BY <1>2
<1>6. n \in DOMAIN t /\ t[n] = e
  <2>1. n \in DOMAIN (r \o q)
    BY <1>5
  <2>2. Len(r) + Len(q) <= Len(t)
    BY <1>3, <1>4, <1>5
  <2> QED BY <1>3, <1>5, <2>1, <2>2
<1>7. WellFormed(u)
  <2>1. /\ u \in Seq(Event) /\ Len(u) = n /\ DOMAIN u = 1 .. n /\ u[n] = e
        /\ \A m \in 1 .. Len(r) : u[m] = r[m]
    BY <1>2, AppendProperties
  <2>2. Len(u) <= Len(t)
    BY <1>5, <1>6, <2>1
  <2>3. \A m \in DOMAIN u : u[m] = t[m]
    <3> SUFFICES ASSUME NEW m \in 1 .. n PROVE u[m] = t[m]
      BY <2>1
    <3>1. CASE m = n
      BY <1>6, <2>1, <3>1
    <3>2. CASE m # n
      <4>1. m \in 1 .. Len(r) /\ m \in DOMAIN (r \o q)
        BY <1>5, <3>2
      <4> QED BY <1>3, <1>5, <2>1, <4>1
    <3> QED BY <3>1, <3>2
  <2>4. WellFormed(t)
    BY <1>1 DEF TalksOf, t
  <2> HIDE DEF u, n
  <2> QED BY <1>2, <2>1, <2>2, <2>3, <2>4, Beginning
<1>8. n < MaxEvents \/ IsFinal(e)
  BY <1>1, <1>6 DEF TalksOf, t
<1> QED BY <1>2, <1>6, <1>7, <1>8 DEF r, q, t

ConversationInv == FacadeInv /\ NothingLostOrReordered /\ Talks

LEMMA ConversationInit == Init => ConversationInv
<1>1. Init => NothingLostOrReordered
  <2> SUFFICES ASSUME Init, NEW i \in Id
               PROVE  Conveys(i, Pipe(i), received[i] \o queue[i], sent[i])
    BY DEF NothingLostOrReordered
  <2>1. Pipe(i) = <<>> /\ received[i] \o queue[i] = <<>> /\ sent[i] = <<>>
    BY DEF Init, Pipe
  <2>2. Cardinality(Mine(i, <<>>, Len(<<>>))) = 0
    <3>1. Mine(i, <<>>, Len(<<>>)) = {}
      BY DEF Mine
    <3> QED BY <3>1, FS_EmptySet
  <2>3. Conveys(i, <<>>, <<>>, <<>>)
    BY <2>2 DEF Conveys
  <2> QED BY <2>1, <2>3
<1> QED BY FacadeInit, TalksInit, <1>1 DEF ConversationInv

LEMMA ConversationStep == ConversationInv /\ [Next]_vars => ConversationInv'
BY TypeStep, CallsStep, RequestsStep, HostsStep, StreamsStep, ConveyedStep, TalksStep
   DEF ConversationInv, FacadeInv

(* No event of a herd is lost, repeated, reordered or ascribed to another     *)
(* herd while somebody may want it, whenever the call takes its channel and   *)
(* whichever daemons die: EventDemuxMap (facade.rs:133-190) and the reader    *)
(* task between them convey exactly what the writer thread sent.              *)
THEOREM EventsConveyed == Spec => []NothingLostOrReordered
<1>1. ConversationInv => NothingLostOrReordered
  BY DEF ConversationInv
<1> QED BY ConversationInit, ConversationStep, <1>1, PTL DEF Spec

=============================================================================
