------------------------------ MODULE IpcFraming ------------------------------
(***************************************************************************)
(* The frames under HerderFacade.tla's pipes (ipc_common.rs): the writer     *)
(* threads of one daemon write length-prefixed messages to its standard      *)
(* output, each in three calls (length, body, flush), and the reader task of *)
(* the parent takes them apart again.                                       *)
(*                                                                          *)
(* The standard output of a Rust process is one buffer for all threads,      *)
(* locked per call; a flush moves it into the pipe, of bounded capacity.  A  *)
(* token is the four bytes of a length, or one unit of a body.               *)
(***************************************************************************)
EXTENDS Naturals, Sequences

CONSTANTS
    Thread,         \* the writer threads of the daemon
    MaxMessages,    \* bound on the messages of a thread
    Sizes,          \* the sizes of serialized messages
    Limit,          \* with_limit of bincode_options
    Capacity        \* of the pipe

ASSUME FramingAssumption ==
    /\ MaxMessages \in Nat /\ Limit \in Nat
    /\ Sizes \subseteq Nat \ {0}
    /\ Capacity \in Nat \ {0}

Message == [from : Thread, number : 1 .. MaxMessages, size : Sizes]

VARIABLES
    pc,         \* per thread: where write_msg is
    writing,    \* per thread: the message it is writing
    count,      \* per thread: messages begun
    stdout,     \* the buffer of the daemon's standard output
    pipe,       \* the tokens in the pipe
    daemon,     \* the daemon's process
    reader,     \* where read_msg_async is
    wanted,     \* the size it has read
    buf,        \* the part of the body it has read
    delivered   \* the messages given to handle_event

vars == <<pc, writing, count, stdout, pipe, daemon, reader, wanted, buf, delivered>>

threadVars == <<pc, writing, count>>
readerVars == <<reader, wanted, buf, delivered>>

Length(m) == [kind |-> "length", size |-> m.size]
Unit(m, i) == [kind |-> "body", of |-> m, at |-> i]

\* bincode_options().serialize: the body of a message.
Body(m) == [i \in 1 .. m.size |-> Unit(m, i)]

NoMessage(t) == [from |-> t, number |-> 0, size |-> 0]

Init ==
    /\ pc = [t \in Thread |-> "idle"]
    /\ writing = [t \in Thread |-> NoMessage(t)]
    /\ count = [t \in Thread |-> 0]
    /\ stdout = <<>>
    /\ pipe = <<>>
    /\ daemon = "running"
    /\ reader = "length"
    /\ wanted = 0
    /\ buf = <<>>
    /\ delivered = <<>>

-----------------------------------------------------------------------------
(* write_msg in a writer thread                                              *)

\* Whoever flushes holds the lock of the standard output until it is empty.
Unlocked == \A t \in Thread : pc[t] # "flush"

\* Serialization within the limit, or the panic of `expect'.
Serialize(t) ==
    /\ daemon = "running" /\ pc[t] = "idle"
    /\ count[t] < MaxMessages
    /\ \E s \in Sizes :
          /\ writing' = [writing EXCEPT ![t] =
                           [from |-> t, number |-> count[t] + 1, size |-> s]]
          /\ pc' = [pc EXCEPT ![t] = IF s <= Limit THEN "length" ELSE "panicked"]
    /\ count' = [count EXCEPT ![t] = @ + 1]
    /\ UNCHANGED <<stdout, pipe, daemon, readerVars>>

\* w.write_u32
WriteLength(t) ==
    /\ daemon = "running" /\ pc[t] = "length" /\ Unlocked
    /\ stdout' = Append(stdout, Length(writing[t]))
    /\ pc' = [pc EXCEPT ![t] = "body"]
    /\ UNCHANGED <<writing, count, pipe, daemon, readerVars>>

\* A slip: the message is not flushed.
AfterBodyUnflushed == "idle"

AfterBody == "flush"

\* w.write_all
WriteBody(t) ==
    /\ daemon = "running" /\ pc[t] = "body" /\ Unlocked
    /\ stdout' = stdout \o Body(writing[t])
    /\ pc' = [pc EXCEPT ![t] = AfterBody]
    /\ UNCHANGED <<writing, count, pipe, daemon, readerVars>>

\* A slip: what the pipe has no room for is dropped.
RestDropped(s) == <<>>

Rest(s) == Tail(s)

\* w.flush, as far as the pipe has room, and its return.
Flush(t) ==
    /\ daemon = "running" /\ pc[t] = "flush"
    /\ IF stdout = <<>>
       THEN pc' = [pc EXCEPT ![t] = "idle"] /\ UNCHANGED <<stdout, pipe>>
       ELSE /\ Len(pipe) < Capacity
            /\ pipe' = Append(pipe, Head(stdout))
            /\ stdout' = Rest(stdout)
            /\ UNCHANGED pc
    /\ UNCHANGED <<writing, count, daemon, readerVars>>

\* A newline in what was written makes the buffer pass it on early.
LinePassesOn ==
    /\ daemon = "running" /\ Unlocked
    /\ stdout # <<>> /\ Len(pipe) < Capacity
    /\ pipe' = Append(pipe, Head(stdout))
    /\ stdout' = Tail(stdout)
    /\ UNCHANGED <<threadVars, daemon, readerVars>>

\* The process goes away; what is in the pipe stays.
DaemonDies ==
    /\ daemon = "running"
    /\ daemon' = "dead"
    /\ stdout' = <<>>
    /\ UNCHANGED <<threadVars, pipe, readerVars>>

-----------------------------------------------------------------------------
(* read_msg_async in the parent's reader task                                *)

\* r.read_u32; four bytes of a body make some other length.
ReadLength ==
    /\ reader = "length" /\ pipe # <<>>
    /\ pipe' = Tail(pipe)
    /\ IF Head(pipe).kind = "length"
       THEN reader' = "body" /\ wanted' = Head(pipe).size
       ELSE reader' = "garbled" /\ UNCHANGED wanted
    /\ UNCHANGED <<threadVars, stdout, daemon, buf, delivered>>

\* A slip: the first read of the body is taken for all of it.
CompleteAtOnce(b) == b # <<>>

Complete(b) == Len(b) = wanted

\* The message a body stands for, if it is one.
Deserializes(b) == \E m \in Message : b = Body(m)

\* r.read_exact, and the deserialization with its `expect' at the end of it.
ReadBody ==
    /\ reader = "body" /\ pipe # <<>>
    /\ pipe' = Tail(pipe)
    /\ LET b == Append(buf, Head(pipe))
       IN  IF ~ Complete(b)
           THEN buf' = b /\ UNCHANGED <<reader, delivered>>
           ELSE /\ buf' = <<>>
                /\ IF Deserializes(b)
                   THEN /\ delivered' = Append(delivered, b[1].of)
                        /\ reader' = "length"
                   ELSE reader' = "garbled" /\ UNCHANGED delivered
    /\ UNCHANGED <<threadVars, stdout, daemon, wanted>>

\* The end of the pipe is an error, within a frame or between two.
ReadEnds ==
    /\ reader \in {"length", "body"} /\ pipe = <<>> /\ daemon = "dead"
    /\ reader' = "dead"
    /\ UNCHANGED <<threadVars, stdout, pipe, daemon, wanted, buf, delivered>>

-----------------------------------------------------------------------------

Write(t) == Serialize(t) \/ WriteLength(t) \/ WriteBody(t) \/ Flush(t)

Read == ReadLength \/ ReadBody \/ ReadEnds

Next ==
    \/ \E t \in Thread : Write(t)
    \/ LinePassesOn \/ DaemonDies \/ Read

Spec == Init /\ [][Next]_vars

\* Threads and the reader task are scheduled.
FairSpec == Spec /\ WF_vars(Read) /\ \A t \in Thread : WF_vars(Write(t))

-----------------------------------------------------------------------------
(* Properties                                                                *)

Token == [kind : {"length"}, size : Sizes] \cup
         [kind : {"body"}, of : Message, at : UNION {1 .. s : s \in Sizes}]

(* Types; and the reader is never out of step with the frames ("garbled"),    *)
(* wherever the pipe's capacity and a dying daemon cut them: "Deserialization *)
(* error is impossible" (ipc_common.rs:49).                                  *)
TypeOK ==
    /\ pc \in [Thread -> {"idle", "length", "body", "flush", "panicked"}]
    /\ \A t \in Thread : writing[t] \in Message \cup {NoMessage(t)}
    /\ count \in [Thread -> 0 .. MaxMessages]
    /\ stdout \in Seq(Token) /\ pipe \in Seq(Token) /\ buf \in Seq(Token)
    /\ Len(pipe) <= Capacity
    /\ daemon \in {"running", "dead"}
    /\ reader \in {"length", "body", "dead"}
    /\ wanted \in {s \in Sizes : s <= Limit} \cup {0}
    /\ Len(buf) <= wanted
    /\ delivered \in Seq(Message)

\* The last unit of a message.
IsLast(k) == k.kind = "body" /\ k.at = k.of.size

\* The messages whose last units are among the tokens.
Messages(tokens) ==
    LET of[n \in 0 .. Len(tokens)] ==
            IF n = 0 THEN <<>>
            ELSE IF IsLast(tokens[n]) THEN Append(of[n - 1], tokens[n].of) ELSE of[n - 1]
    IN  of[Len(tokens)]

\* The messages on their way; what the reader holds has no last unit in it.
InFlight == Messages(pipe \o stdout)

Channel == INSTANCE MessageChannel
             WITH channel <- InFlight, open <- daemon = "running"

(* The frames implement a channel of whole messages: HerderFacade's pipes.   *)
ImplementsChannel == Channel!Spec

\* The messages of thread t whose write_msg has returned.
Returned(t) == IF pc[t] = "idle" THEN count[t] ELSE count[t] - 1

(* What write_msg returned for is delivered, even when the daemon dies right *)
(* after: no message waits in a buffer for the next one to push it out.      *)
ReturnedIsDelivered ==
    \A t \in Thread, n \in 1 .. MaxMessages :
        (Returned(t) >= n) ~> (\E i \in DOMAIN delivered :
                                  delivered[i].from = t /\ delivered[i].number = n)

=============================================================================
