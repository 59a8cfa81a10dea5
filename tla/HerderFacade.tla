----------------------------- MODULE HerderFacade -----------------------------
(***************************************************************************)
(* How the events of a herd reach the user interface: HerderFacadeImpl,     *)
(* EventDemuxMap and spawn_herder (herder_facade/facade.rs), the lazy client *)
(* (client.rs), and the main loop of the daemon at the other end of the     *)
(* pipes (herder_daemon/mod.rs).                                            *)
(*                                                                          *)
(* The processes are: the caller of start_herd, one call at a time since it *)
(* borrows the facade mutably; the consumers of the handles it returned; a  *)
(* reader task per daemon; the daemons, one of them escalated; their writer *)
(* threads, of which only the language of their conversations is known      *)
(* (HerdEvents).  A pipe is a sequence of whole messages: write_msg is not   *)
(* taken apart here.                                                        *)
(***************************************************************************)
EXTENDS HerdEvents, FiniteSets

CONSTANTS
    MaxHerds,       \* bound on the calls of start_herd
    MaxEvents,      \* bound on the length of a herd's conversation
    Failures,       \* the failures herds are tried with
    Mortal          \* daemons whose process or threads may die

Daemon == {"std", "esc"}

ASSUME FacadeAssumption ==
    /\ MaxBytes \in Nat /\ MaxHerds \in Nat /\ MaxEvents \in Nat \ {0}
    /\ Failures \subseteq Failure
    /\ Mortal \subseteq Daemon

Id == 0 .. MaxHerds - 1

VARIABLES
    nextId,     \* next_writer_id
    call,       \* the call of start_herd in progress: where it is, its id, its daemon
    client,     \* per daemon: LazyHerderClient.daemon is Some
    proc,       \* per daemon: its process
    stdin,      \* per daemon: the StartHerd requests in its standard input
    stdout,     \* per daemon: the (id, event) messages in its standard output
    reader,     \* per daemon: the task that reads its output
    host,       \* per id: the daemon that runs the writer thread, or "none"
    herd,       \* per id: the writer thread
    sent,       \* per id: every event the thread has written
    entry,      \* per id: whether EventDemuxMap has an entry
    queue,      \* per id: the events in the entry's channel
    receiver,   \* per id: who holds the channel's receiving end
    received,   \* per id: every event taken from the channel
    outcome     \* per id: what start_herd returned

vars == <<nextId, call, client, proc, stdin, stdout, reader, host, herd, sent, entry,
          queue, receiver, received, outcome>>

callVars == <<nextId, call, outcome>>
clientVars == <<client, proc, reader>>
herdVars == <<host, herd, sent>>
demuxVars == <<entry, queue, receiver>>

Idle == [pc |-> "idle", id |-> 0, on |-> "std"]

\* A slip: the end of the writing is taken for the end of the herd.
EndsStreamWhenWritten(e) == IsFinal(e) \/ e.type = "FinishedWriting"

\* The UI drops its handle at the event that makes WriterState finished
\* (ui/writer_tracking.rs, ui/fancy_ui/display.rs): a final event, or the news
\* that writing is over and no verification follows.
EndsStream(e) == IsFinal(e) \/ e = FinishedWriting(FALSE)

-----------------------------------------------------------------------------

Init ==
    /\ nextId = 0
    /\ call = Idle
    /\ client = [k \in Daemon |-> FALSE]
    /\ proc = [k \in Daemon |-> "absent"]
    /\ stdin = [k \in Daemon |-> <<>>]
    /\ stdout = [k \in Daemon |-> <<>>]
    /\ reader = [k \in Daemon |-> "none"]
    /\ host = [i \in Id |-> "none"]
    /\ herd = [i \in Id |-> "none"]
    /\ sent = [i \in Id |-> <<>>]
    /\ entry = [i \in Id |-> FALSE]
    /\ queue = [i \in Id |-> <<>>]
    /\ receiver = [i \in Id |-> "none"]
    /\ received = [i \in Id |-> <<>>]
    /\ outcome = [i \in Id |-> "none"]

Return(result) ==
    /\ call' = Idle
    /\ outcome' = [outcome EXCEPT ![call.id] = result]

\* A caller that panicked is not there to call again.
MayCall == call.pc = "idle" /\ \A i \in Id : outcome[i] # "panicked"

-----------------------------------------------------------------------------
(* start_herd, between its awaits                                            *)

\* A slip: the counter does not move.
StartHerdSameId(k) ==
    /\ MayCall
    /\ nextId \in Id
    /\ call' = [pc |-> "ensure", id |-> nextId, on |-> k]
    /\ UNCHANGED <<nextId, clientVars, stdin, stdout, herdVars, demuxVars, received,
                   outcome>>

\* An id is used up whether or not the call succeeds.
StartHerd(k) ==
    /\ MayCall
    /\ nextId \in Id
    /\ call' = [pc |-> "ensure", id |-> nextId, on |-> k]
    /\ nextId' = nextId + 1
    /\ UNCHANGED <<clientVars, stdin, stdout, herdVars, demuxVars, received, outcome>>

\* ensure_daemon finds the client of an earlier call, dead or alive ...
ReuseDaemon ==
    /\ call.pc = "ensure"
    /\ client[call.on]
    /\ call' = [call EXCEPT !.pc = "send"]
    /\ UNCHANGED <<nextId, outcome, clientVars, stdin, stdout, herdVars, demuxVars, received>>

\* ... or spawns the process and the task that reads its output ...
SpawnDaemon ==
    /\ call.pc = "ensure"
    /\ ~ client[call.on]
    /\ client' = [client EXCEPT ![call.on] = TRUE]
    /\ proc' = [proc EXCEPT ![call.on] = "running"]
    /\ reader' = [reader EXCEPT ![call.on] = "reading"]
    /\ call' = [call EXCEPT !.pc = "send"]
    /\ UNCHANGED <<nextId, outcome, stdin, stdout, herdVars, demuxVars, received>>

\* ... or fails to, and leaves no client behind, or panics about the path of the
\* program's file: it is unknown, or not text.
SpawnFails ==
    /\ call.pc = "ensure"
    /\ ~ client[call.on]
    /\ \E result \in {"spawn_failure", "panicked"} : Return(result)
    /\ UNCHANGED <<nextId, clientVars, stdin, stdout, herdVars, demuxVars, received>>

\* write_msg_async finds the pipe closed, or panics: the paths in the request make it
\* longer than a message may be.
RequestFails ==
    \/ proc[call.on] # "running" /\ Return("transport_failure")
    \/ Return("panicked")

\* write_msg_async of the StartHerd request.
SendRequest ==
    /\ call.pc = "send"
    /\ \/ /\ proc[call.on] = "running"
          /\ stdin' = [stdin EXCEPT ![call.on] = Append(@, call.id)]
          /\ call' = [call EXCEPT !.pc = "take"]
          /\ UNCHANGED outcome
       \/ RequestFails /\ UNCHANGED stdin
    /\ UNCHANGED <<nextId, clientVars, stdout, herdVars, demuxVars, received>>

\* A slip: an entry that an early event made is replaced.
TakeNewReceiver ==
    /\ call.pc = "take"
    /\ entry' = [entry EXCEPT ![call.id] = TRUE]
    /\ queue' = [queue EXCEPT ![call.id] = <<>>]
    /\ receiver' = [receiver EXCEPT ![call.id] = "call"]
    /\ call' = [call EXCEPT !.pc = "await"]
    /\ UNCHANGED <<nextId, outcome, clientVars, stdin, stdout, herdVars, received>>

\* take_receiver under the lock: the entry the reader task made for an early
\* event, or a new one; without a receiver in it, `expect' panics.
TakeReceiver ==
    /\ call.pc = "take"
    /\ entry' = [entry EXCEPT ![call.id] = TRUE]
    /\ IF ~ entry[call.id] \/ receiver[call.id] = "map"
       THEN /\ receiver' = [receiver EXCEPT ![call.id] = "call"]
            /\ call' = [call EXCEPT !.pc = "await"]
       ELSE /\ call' = [call EXCEPT !.pc = "panicked"]
            /\ UNCHANGED receiver
    /\ UNCHANGED <<nextId, outcome, clientVars, stdin, stdout, herdVars, queue, received>>

\* The first event decides: a handle for InitSuccess, an error otherwise.  A
\* channel whose sender is gone would give UnexpectedDisconnect here; the sender
\* is in the map for as long as the receiver exists.
FirstEvent ==
    /\ call.pc = "await"
    /\ queue[call.id] # <<>>
    /\ LET e == Head(queue[call.id])
           result == CASE e.type = "InitSuccess" -> "started"
                       [] e.type = "Error" -> "failed"
                       [] OTHER -> "unexpected_first_status"
       IN  /\ received' = [received EXCEPT ![call.id] = Append(@, e)]
           /\ receiver' = [receiver EXCEPT ![call.id] =
                             IF result = "started" THEN "handle" ELSE "dropped"]
           /\ queue' = [queue EXCEPT ![call.id] =
                          IF result = "started" THEN Tail(@) ELSE <<>>]
           /\ Return(result)
    /\ UNCHANGED <<nextId, clientVars, stdin, stdout, herdVars, entry>>

\* The UI takes the next event of a handle, and drops the handle when it has
\* what it was waiting for.
Consume(i) ==
    /\ receiver[i] = "handle"
    /\ queue[i] # <<>>
    /\ received' = [received EXCEPT ![i] = Append(@, Head(queue[i]))]
    /\ IF EndsStream(Head(queue[i]))
       THEN /\ receiver' = [receiver EXCEPT ![i] = "dropped"]
            /\ queue' = [queue EXCEPT ![i] = <<>>]
       ELSE /\ queue' = [queue EXCEPT ![i] = Tail(@)]
            /\ UNCHANGED receiver
    /\ UNCHANGED <<callVars, clientVars, stdin, stdout, herdVars, entry>>

-----------------------------------------------------------------------------
(* The reader task of a daemon                                               *)

\* A slip: an entry nobody listens to is replaced instead of removed.
HandleEventRenews(i, e) ==
    IF entry[i] /\ receiver[i] # "dropped"
    THEN /\ queue' = [queue EXCEPT ![i] = Append(@, e)]
         /\ UNCHANGED <<entry, receiver>>
    ELSE /\ entry' = [entry EXCEPT ![i] = TRUE]
         /\ queue' = [queue EXCEPT ![i] = <<e>>]
         /\ receiver' = [receiver EXCEPT ![i] = "map"]

\* EventDemuxMap::handle_event
HandleEvent(i, e) ==
    IF entry[i]
    THEN IF receiver[i] # "dropped"
         THEN /\ queue' = [queue EXCEPT ![i] = Append(@, e)]
              /\ UNCHANGED <<entry, receiver>>
         ELSE /\ entry' = [entry EXCEPT ![i] = FALSE]
              /\ UNCHANGED <<queue, receiver>>
    ELSE /\ entry' = [entry EXCEPT ![i] = TRUE]
         /\ queue' = [queue EXCEPT ![i] = <<e>>]
         /\ receiver' = [receiver EXCEPT ![i] = "map"]

\* A slip: the task takes the end of one herd for the end of all.
ReaderStopsAtFinal(k) ==
    /\ reader[k] = "reading"
    /\ stdout[k] # <<>>
    /\ HandleEvent(Head(stdout[k]).id, Head(stdout[k]).event)
    /\ stdout' = [stdout EXCEPT ![k] = Tail(@)]
    /\ reader' = [reader EXCEPT ![k] =
                    IF IsFinal(Head(stdout[k]).event) THEN "dead" ELSE @]
    /\ UNCHANGED <<callVars, client, proc, stdin, herdVars, received>>

ReaderDelivers(k) ==
    /\ reader[k] = "reading"
    /\ stdout[k] # <<>>
    /\ HandleEvent(Head(stdout[k]).id, Head(stdout[k]).event)
    /\ stdout' = [stdout EXCEPT ![k] = Tail(@)]
    /\ UNCHANGED <<callVars, clientVars, stdin, herdVars, received>>

\* The end of the output is an error, which the task unwraps: it panics, and
\* nobody is told.
ReaderDies(k) ==
    /\ reader[k] = "reading"
    /\ stdout[k] = <<>>
    /\ proc[k] = "dead"
    /\ reader' = [reader EXCEPT ![k] = "dead"]
    /\ UNCHANGED <<callVars, client, proc, stdin, stdout, herdVars, demuxVars, received>>

-----------------------------------------------------------------------------
(* The daemons and their writer threads                                      *)

\* One turn of the daemon's main loop.
DaemonSpawnsWriter(k) ==
    /\ proc[k] = "running"
    /\ stdin[k] # <<>>
    /\ herd' = [herd EXCEPT ![Head(stdin[k])] = "running"]
    /\ host' = [host EXCEPT ![Head(stdin[k])] = k]
    /\ stdin' = [stdin EXCEPT ![k] = Tail(@)]
    /\ UNCHANGED <<callVars, clientVars, stdout, sent, demuxVars, received>>

\* A writer thread says anything a herd may say next; within the bound it
\* always has room for its final event.
WriterSends(i) ==
    /\ herd[i] = "running"
    /\ \E e \in Event :
          /\ e.type = "Error" => e.error \in Failures
          /\ WellFormed(Append(sent[i], e))
          /\ Len(sent[i]) + 1 < MaxEvents \/ IsFinal(e)
          /\ sent' = [sent EXCEPT ![i] = Append(@, e)]
          /\ stdout' = [stdout EXCEPT ![host[i]] = Append(@, [id |-> i, event |-> e])]
          /\ herd' = [herd EXCEPT ![i] = IF IsFinal(e) THEN "gone" ELSE "running"]
    /\ UNCHANGED <<callVars, clientVars, stdin, host, demuxVars, received>>

\* A writer thread panics: the rest of its daemon does not notice.
WriterPanics(i) ==
    /\ herd[i] = "running"
    /\ host[i] \in Mortal
    /\ herd' = [herd EXCEPT ![i] = "gone"]
    /\ UNCHANGED <<callVars, clientVars, stdin, stdout, host, sent, demuxVars, received>>

\* A daemon's process goes away with its threads: it crashed, was killed, or the
\* escalation was refused.  What it wrote can still be read.
DaemonGoes(k) ==
    /\ proc[k] = "running"
    /\ proc' = [proc EXCEPT ![k] = "dead"]
    /\ stdin' = [stdin EXCEPT ![k] = <<>>]
    /\ herd' = [i \in Id |-> IF host[i] = k THEN "gone" ELSE herd[i]]
    /\ UNCHANGED <<callVars, client, reader, stdout, host, sent, demuxVars, received>>

DaemonDies(k) == k \in Mortal /\ DaemonGoes(k)

-----------------------------------------------------------------------------

\* The steps of the code when nothing breaks and nobody new calls.
CallStep == ReuseDaemon \/ SpawnDaemon \/ SendRequest \/ TakeReceiver \/ FirstEvent

Next ==
    \/ \E k \in Daemon :
          \/ StartHerd(k) \/ ReaderDelivers(k) \/ ReaderDies(k)
          \/ DaemonSpawnsWriter(k) \/ DaemonDies(k)
    \/ CallStep \/ SpawnFails
    \/ \E i \in Id : Consume(i) \/ WriterSends(i) \/ WriterPanics(i)

Spec == Init /\ [][Next]_vars

\* Every task and thread is scheduled; a running herd comes to its final event
\* (WriterProcess!WriterEnds).
FairSpec ==
    /\ Spec
    /\ WF_vars(CallStep)
    /\ \A k \in Daemon : WF_vars(ReaderDelivers(k)) /\ WF_vars(DaemonSpawnsWriter(k))
    /\ \A i \in Id : WF_vars(Consume(i)) /\ WF_vars(WriterSends(i))

-----------------------------------------------------------------------------
(* Properties                                                                *)

(* Types; and a call never gets to "illegal state: receiver does not exist"  *)
(* (facade.rs:98), whichever of it and the reader task is first at the map.  *)
TypeOK ==
    /\ nextId \in 0 .. MaxHerds
    /\ call \in [pc : {"idle", "ensure", "send", "take", "await"},
                 id : Id \cup {0}, on : Daemon]
    /\ call.pc # "idle" => call.id < nextId
    /\ client \in [Daemon -> BOOLEAN]
    /\ proc \in [Daemon -> {"absent", "running", "dead"}]
    /\ stdin \in [Daemon -> Seq(Id)]
    /\ stdout \in [Daemon -> Seq([id : Id, event : Event])]
    /\ reader \in [Daemon -> {"none", "reading", "dead"}]
    /\ host \in [Id -> Daemon \cup {"none"}]
    /\ herd \in [Id -> {"none", "running", "gone"}]
    /\ sent \in [Id -> Seq(Event)]
    /\ entry \in [Id -> BOOLEAN]
    /\ queue \in [Id -> Seq(Event)]
    /\ receiver \in [Id -> {"none", "map", "call", "handle", "dropped"}]
    /\ received \in [Id -> Seq(Event)]
    /\ outcome \in [Id -> {"none", "spawn_failure", "transport_failure", "started",
                           "failed", "unexpected_first_status", "panicked"}]

\* The messages of herd i among the first n of a pipe.
Mine(i, s, n) == {p \in DOMAIN s : p <= n /\ s[p].id = i}

\* A pipe holds what remains of a conversation t once its beginning r was taken.
Conveys(i, s, r, t) ==
    /\ Len(r) + Cardinality(Mine(i, s, Len(s))) = Len(t)
    /\ \A n \in DOMAIN r : r[n] = t[n]
    /\ \A p \in DOMAIN s :
          s[p].id = i => s[p].event = t[Len(r) + Cardinality(Mine(i, s, p))]

(* The events of a herd arrive once each and in order, none lost and none    *)
(* ascribed to another herd: what was received, what waits in the channel    *)
(* and what is still in the pipe make up what the writer sent, across early   *)
(* events, late calls and daemons that died.                                 *)
Pipe(i) == IF host[i] = "none" THEN <<>> ELSE stdout[host[i]]

NothingLostOrReordered ==
    \A i \in Id :
        receiver[i] # "dropped" => Conveys(i, Pipe(i), received[i] \o queue[i], sent[i])

(* A channel is only left in the map for a call that is about to take it: no *)
(* herd is left filling a channel that nobody will ever read, which          *)
(* handle_event's vacant branch would start for an event that comes after    *)
(* the entry was removed.                                                    *)
NothingParked ==
    \A i \in Id :
        receiver[i] = "map" => call.id = i /\ call.pc = "take"

(* Whoever holds a handle to a herd on a daemon that lives hears it to the   *)
(* end of its conversation.                                                  *)
HerdsAreHeardOut ==
    \A i \in Id :
        (receiver[i] = "handle" /\ host[i] \in Daemon \ Mortal)
            ~> (received[i] # <<>> /\ EndsStream(received[i][Len(received[i])]))

-----------------------------------------------------------------------------
(* A statement of the source that the code does not keep.                    *)

(* herder_facade/mod.rs:46-47, "Unexpectedly disconnected from writer": a    *)
(* call that waits for a herd whose daemon went away is told so.             *)
DisconnectIsNoticed == (call.pc = "await") ~> (call.pc = "idle")

=============================================================================
