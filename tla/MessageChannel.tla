---------------------------- MODULE MessageChannel ----------------------------
(***************************************************************************)
(* What the pair write_msg / read_msg_async promises: a pipe that carries   *)
(* whole messages, each once and in order, and that loses at most the last   *)
(* of them when the writing process goes away.                              *)
(***************************************************************************)
EXTENDS Naturals, Sequences

CONSTANT Message

VARIABLES
    channel,    \* the messages on their way
    delivered,  \* the messages read
    open        \* the writing process lives

vars == <<channel, delivered, open>>

Init == channel = <<>> /\ delivered = <<>> /\ open = TRUE

Send(m) ==
    /\ open
    /\ channel' = Append(channel, m)
    /\ UNCHANGED <<delivered, open>>

Deliver ==
    /\ channel # <<>>
    /\ channel' = Tail(channel)
    /\ delivered' = Append(delivered, Head(channel))
    /\ UNCHANGED open

Close ==
    /\ open
    /\ open' = FALSE
    /\ \E n \in 0 .. Len(channel) : channel' = SubSeq(channel, 1, n)
    /\ UNCHANGED delivered

Next == (\E m \in Message : Send(m)) \/ Deliver \/ Close

Spec == Init /\ [][Next]_vars

=============================================================================
