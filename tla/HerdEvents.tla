------------------------------ MODULE HerdEvents ------------------------------
(***************************************************************************)
(* What travels from a writer thread to the user interface: the events of   *)
(* herder_daemon/writer_process/ipc.rs and the language of well-formed      *)
(* conversations.  No state: shared by the modules that produce, carry and  *)
(* consume events.                                                          *)
(*                                                                          *)
(* An event is a record.  The byte counts of the source side are left out   *)
(* (nothing here depends on them); the destination side of TotalBytes is    *)
(* `dest'.                                                                  *)
(***************************************************************************)
EXTENDS Naturals, Sequences

CONSTANT MaxBytes       \* bound on the byte counts a herd reports

IoError == {"PermissionDenied", "UnknownChildProcError"}
Failure == IoError \cup {"EndOfOutput", "VerificationFailed", "FailedToUnmount"}

InitSuccess == [type |-> "InitSuccess"]
TotalBytes(n) == [type |-> "TotalBytes", dest |-> n]
FinishedWriting(v) == [type |-> "FinishedWriting", verifying |-> v]
Success == [type |-> "Success"]
Error(e) == [type |-> "Error", error |-> e]

Event == [type : {"InitSuccess", "Success"}]
           \cup [type : {"TotalBytes"}, dest : 0..MaxBytes]
           \cup [type : {"FinishedWriting"}, verifying : BOOLEAN]
           \cup [type : {"Error"}, error : Failure]

\* The event spawn_writer sends last, from what run() returned.
FinalEvent(v) == IF v = "Ok" THEN Success ELSE Error(v)

IsFinal(e) == e.type \in {"Success", "Error"}

-----------------------------------------------------------------------------
(* What every conversation of a herd looks like, said of the sequence of its *)
(* events alone: one InitSuccess before anything else (or an Error), one     *)
(* final event and nothing after it, at most one FinishedWriting and Success *)
(* only after it, byte counts that never go back within a phase.             *)

Finishes(s) == {i \in DOMAIN s : s[i].type = "FinishedWriting"}

WellFormed(s) ==
    /\ \A i \in DOMAIN s :
          /\ IsFinal(s[i]) => i = Len(s)
          /\ s[i].type = "InitSuccess" => i = 1
          /\ i = 1 => s[i].type \in {"InitSuccess", "Error"}
          /\ s[i].type = "FinishedWriting" => s[i-1].type = "TotalBytes"
          /\ s[i] = FinishedWriting(FALSE) /\ i < Len(s) => s[i+1] = Success
          /\ s[i] = Success =>
                \E j \in Finishes(s) :
                    IF s[j].verifying THEN j < i - 1 /\ s[i-1].type = "TotalBytes"
                                      ELSE j = i - 1
    /\ \A i, j \in Finishes(s) : i = j
    /\ \A i, j \in DOMAIN s :
          (/\ i < j
           /\ s[i].type = "TotalBytes" /\ s[j].type = "TotalBytes"
           /\ \A k \in Finishes(s) : ~ (i < k /\ k < j)) => s[i].dest <= s[j].dest

=============================================================================
