---------------------------- MODULE WriterProtocol ----------------------------
(***************************************************************************)
(* The promise of a herd, seen from the pipe it reports on: which sequences *)
(* of WriteVerifyEvent one writer thread may produce, and when it may stop. *)
(* Nothing is said of images, buffers or disks: WriterProcess implements    *)
(* this specification, and the parts of the program that consume the events *)
(* are entitled to nothing more.                                            *)
(***************************************************************************)
EXTENDS HerdEvents

VARIABLES
    phase,      \* how far the herd has come
    verdict,    \* the result run() will return, "None" until it is known
    reported,   \* the last byte count reported in this phase
    events      \* every event sent so far

vars == <<phase, verdict, reported, events>>

-----------------------------------------------------------------------------

Init ==
    /\ phase = "spawned"
    /\ verdict = "None"
    /\ reported = 0
    /\ events = <<>>

Send(e) == events' = Append(events, e)

\* Source and target are open: the first event of a herd that works.
Start ==
    /\ phase = "spawned"
    /\ Send(InitSuccess)
    /\ phase' = "writing"
    /\ UNCHANGED <<verdict, reported>>

\* A checkpoint: byte counts never go back within a phase.
Report(n) ==
    /\ phase \in {"writing", "verifying"}
    /\ n >= reported
    /\ reported' = n
    /\ Send(TotalBytes(n))
    /\ UNCHANGED <<phase, verdict>>

\* The last checkpoint of the write phase, once everything is flushed.
EndWriting(n) ==
    /\ phase = "writing"
    /\ n >= reported
    /\ reported' = 0
    /\ Send(TotalBytes(n))
    /\ phase' = "written"
    /\ UNCHANGED verdict

\* FinishedWriting announces whether a verification follows.
Finish(verify) ==
    /\ phase = "written"
    /\ Send(FinishedWriting(verify))
    /\ IF verify THEN phase' = "verifying" /\ UNCHANGED verdict
                 ELSE phase' = "concluding" /\ verdict' = "Ok"
    /\ UNCHANGED reported

\* The last checkpoint of a verification that found no difference.
EndVerifying(n) ==
    /\ phase = "verifying"
    /\ n >= reported
    /\ reported' = 0
    /\ Send(TotalBytes(n))
    /\ phase' = "concluding"
    /\ verdict' = "Ok"

\* The target takes no more: reported with a last checkpoint.
RunOut(n) ==
    /\ phase = "writing"
    /\ n >= reported
    /\ reported' = 0
    /\ Send(TotalBytes(n))
    /\ phase' = "concluding"
    /\ verdict' = "EndOfOutput"

\* Every other way run() returns early: nothing is sent yet.
Abandon(e) ==
    /\ \/ e \in IoError /\ phase \in {"spawned", "writing", "verifying"}
       \/ e = "FailedToUnmount" /\ phase = "spawned"
       \/ e = "VerificationFailed" /\ phase = "verifying"
    /\ phase' = "concluding"
    /\ verdict' = e
    /\ reported' = 0
    /\ UNCHANGED events

\* spawn_writer reports the result: the last event of every herd that ends.
Conclude ==
    /\ phase = "concluding"
    /\ Send(FinalEvent(verdict))
    /\ phase' = "over"
    /\ UNCHANGED <<verdict, reported>>

\* The thread is gone without a word (it panicked, or its process died).
Vanish ==
    /\ phase \notin {"over", "vanished"}
    /\ phase' = "vanished"
    /\ reported' = 0
    /\ UNCHANGED <<verdict, events>>

Next ==
    \/ Start
    \/ \E n \in 0..MaxBytes :
          Report(n) \/ EndWriting(n) \/ EndVerifying(n) \/ RunOut(n)
    \/ \E verify \in BOOLEAN : Finish(verify)
    \/ \E e \in Failure : Abandon(e)
    \/ Conclude
    \/ Vanish

Spec == Init /\ [][Next]_vars

-----------------------------------------------------------------------------
(* Every prefix of what a herd sends is a well-formed conversation: what     *)
(* downcast_as_initial_info, the ratio and the speed graph of                *)
(* ui/writer_tracking.rs take for granted.                                   *)
EventsWellFormed == WellFormed(events)

=============================================================================
