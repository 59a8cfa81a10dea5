----------------------------- MODULE BurnSession ------------------------------
(***************************************************************************)
(* One burn as the parent process sees it: try_start_burn and begin_writing *)
(* (ui/start.rs), the tracking of the writer (ui/writer_tracking.rs), the   *)
(* fancy UI with its quit prompt (ui/fancy_ui) and the simple UI            *)
(* (ui/simple_ui/mod.rs).                                                   *)
(*                                                                          *)
(* The facade is the environment: start_herd gives a handle or an error, and *)
(* the handle's stream is any well-formed conversation after InitSuccess.   *)
(* The stream may also just end; UIs are written against the HerderFacade    *)
(* trait, whose streams can.  A byte series is its last datapoint; times and *)
(* speeds are left out.                                                     *)
(***************************************************************************)
EXTENDS HerdEvents

CONSTANTS
    MaxInput,       \* bound on the size of the input file
    MaxHeard        \* bound on the length of a conversation

ASSUME SessionAssumption ==
    MaxBytes \in Nat /\ MaxInput \in Nat /\ MaxHeard \in Nat \ {0}

VARIABLES
    args,           \* --root, --interactive, is the input compressed, its size
    pc,             \* where ui::main is
    refusal,        \* the error of the start_herd that was not escalated
    consent,        \* the user agreed to escalate
    escalated,      \* start_herd was called with escalated = true
    heard,          \* the events of the herd that was started
    child,          \* WriterState
    handle,         \* the UI still holds the HerdHandle
    modal,          \* the quit prompt is open
    exit            \* how the program ended, "none" while it runs

vars == <<args, pc, refusal, consent, escalated, heard, child, handle, modal, exit>>

startVars == <<refusal, consent, escalated>>

Args == [root : {"ask", "always", "never"}, interactive : BOOLEAN,
         compressed : BOOLEAN, input : 0 .. MaxInput]

WriterState == [phase : {"Writing", "Verifying", "Finished"},
                write : 0 .. MaxBytes, read : 0 .. MaxInput, verify : 0 .. MaxBytes,
                total : 0 .. MaxBytes,
                error : Failure \cup {"none", "UnexpectedTermination"}]

Key == {"q", "Q", "esc", "ctrl_c", "other"}

StreamEnded == [type |-> "None"]

\* How a signal ends the program: that of Ctrl-C, or another.
Signal == {"interrupted", "killed"}

-----------------------------------------------------------------------------
(* ui/writer_tracking.rs                                                     *)

Initial == [phase |-> "Writing", write |-> 0, read |-> 0, verify |-> 0, total |-> 0,
            error |-> "none"]

Finished(c) == c.phase = "Finished"

\* A slip: the totals of the checkpoints are added up.
OnTotalBytesSummed(c, src, dest) ==
    CASE c.phase = "Writing"   -> [c EXCEPT !.read = src, !.write = @ + dest]
      [] c.phase = "Verifying" -> [c EXCEPT !.verify = @ + dest]
      [] OTHER                 -> c

OnTotalBytes(c, src, dest) ==
    CASE c.phase = "Writing"   -> [c EXCEPT !.read = src, !.write = dest]
      [] c.phase = "Verifying" -> [c EXCEPT !.verify = dest]
      [] OTHER                 -> c

\* A slip: an error that comes while verifying is dropped.
IntoFinishedOk(c, error) ==
    CASE c.phase = "Writing" ->
            [c EXCEPT !.phase = "Finished", !.error = error, !.total = c.write]
      [] c.phase = "Verifying" ->
            [c EXCEPT !.phase = "Finished", !.total = c.write]
      [] OTHER -> c

\* A state that is finished stays as it is.
IntoFinished(c, error) ==
    IF Finished(c) THEN c
    ELSE [c EXCEPT !.phase = "Finished", !.error = error, !.total = c.write]

\* A slip: the total is taken from the new, empty series.
IntoVerifyingEmpty(c) == [c EXCEPT !.phase = "Verifying", !.total = c.verify]

IntoVerifying(c) == [c EXCEPT !.phase = "Verifying", !.total = c.write]

\* FinishedWriting in any state but Writing changes nothing.
OnFinishedWriting(c, verifying) ==
    IF c.phase # "Writing" THEN c
    ELSE IF verifying THEN IntoVerifying(c) ELSE IntoFinished(c, "none")

\* on_status for every event it accepts ...
OnStatus(c, e, src) ==
    CASE e.type = "TotalBytes"      -> OnTotalBytes(c, src, e.dest)
      [] e.type = "FinishedWriting" -> OnFinishedWriting(c, e.verifying)
      [] e.type = "Error"           -> IntoFinished(c, e.error)
      [] e.type = "Success"         -> IntoFinished(c, "none")
      [] e = StreamEnded            -> IntoFinished(c, "UnexpectedTermination")

\* ... and the one it panics on.
Unexpected(e) == e.type = "InitSuccess"

-----------------------------------------------------------------------------
(* The progress bar of the fancy UI (widgets.rs): numerator and denominator  *)
(* of the ratio, a quotient of floating point numbers.  Zero by zero is not  *)
(* a number, the clamp lets it through, and the Gauge refuses it.            *)

Ratio(c) ==
    CASE c.phase = "Writing"   -> <<IF args.compressed THEN c.read ELSE c.write, args.input>>
      [] c.phase = "Verifying" -> <<c.verify, c.total>>
      [] c.phase = "Finished"  -> <<c.write, c.total>>

IsNumber(r) == r # <<0, 0>>

Draw(c) == exit' = IF IsNumber(Ratio(c)) THEN exit ELSE "bad_ratio"

-----------------------------------------------------------------------------

Init ==
    /\ args \in Args
    /\ pc = "first_try"
    /\ refusal = "none" /\ consent = FALSE /\ escalated = FALSE
    /\ heard = <<>>
    /\ child = Initial
    /\ handle = FALSE
    /\ modal = FALSE
    /\ exit = "none"

Running == exit = "none"

-----------------------------------------------------------------------------
(* try_start_burn                                                            *)

\* begin_writing opens the UI for a handle; capturing the terminal may fail.
UiOpens ==
    /\ pc' = IF args.interactive THEN "fancy" ELSE "simple"
    /\ child' = Initial
    /\ exit' = "none" \/ (args.interactive /\ exit' = "error")

\* start_herd returns a handle.
HerdStarts ==
    /\ Running /\ pc \in {"first_try", "second_try"}
    /\ UiOpens
    /\ heard' = <<InitSuccess>>
    /\ handle' = TRUE
    /\ UNCHANGED <<args, startVars, modal>>

\* A slip: any refusal leads to an escalation.
EscalationForAny(e) ==
    CASE args.root = "ask" /\ args.interactive -> "prompt"
      [] args.root = "always"                  -> "second_try"
      [] OTHER                                 -> "failed"

\* What a refusal of the first attempt leads to.
AfterRefusal(e) ==
    CASE e = "PermissionDenied" /\ args.root = "ask" /\ args.interactive -> "prompt"
      [] e = "PermissionDenied" /\ args.root = "always"                  -> "second_try"
      [] OTHER                                                           -> "failed"

\* start_herd returns Failed(e), or another of its errors, without escalation.
FirstRefused(e) ==
    /\ refusal' = e
    /\ pc' = AfterRefusal(e)
    /\ escalated' = (pc' = "second_try")
    /\ exit' = IF pc' = "failed" THEN "error" ELSE exit
    /\ UNCHANGED <<consent, child>>

FirstTryFails ==
    /\ Running /\ pc = "first_try"
    /\ \E e \in Failure \cup {"DaemonError"} : FirstRefused(e)
    /\ UNCHANGED <<args, heard, handle, modal>>

\* "Escalate using sudo?": yes, no, or the prompt is interrupted.
Confirm ==
    /\ Running /\ pc = "prompt"
    /\ \/ consent' = TRUE /\ escalated' = TRUE /\ pc' = "second_try" /\ UNCHANGED exit
       \/ exit' = "error" /\ pc' = "failed" /\ UNCHANGED <<consent, escalated>>
    /\ UNCHANGED <<args, refusal, heard, child, handle, modal>>

SecondRefused ==
    /\ pc' = "failed"
    /\ exit' = "error"
    /\ UNCHANGED <<startVars, child>>

SecondTryFails ==
    /\ Running /\ pc = "second_try"
    /\ SecondRefused
    /\ UNCHANGED <<args, heard, handle, modal>>

-----------------------------------------------------------------------------
(* What the stream of the handle gives next                                  *)

\* An empty input gives no bytes; a conversation within its bound can end.
MayHear(e) ==
    \/ /\ e \in Event
       /\ WellFormed(Append(heard, e))
       /\ Len(heard) + 1 < MaxHeard \/ IsFinal(e)
       /\ (e.type = "TotalBytes" /\ args.input = 0) => e.dest = 0
    \/ e = StreamEnded

-----------------------------------------------------------------------------
(* One turn of either UI that was given an event of the herd                 *)

\* FancyUI::show: the drawing decides.
FancyReacts == Draw(child')

\* run_simple_burning_ui: the end of its loop, or a percentage of the input.
SimpleReacts ==
    exit' = CASE Finished(child') -> "done"
              [] child'.phase = "Verifying" /\ args.input = 0 -> "division_by_zero"
              [] OTHER -> exit

Reacts(e, src) ==
    IF Unexpected(e)
    THEN exit' = "bad_status" /\ UNCHANGED child
    ELSE /\ child' = OnStatus(child, e, src)
         /\ IF pc = "fancy" THEN FancyReacts ELSE SimpleReacts

\* "Drop handle/process if process died"; the simple UI returns then.
KeepsHandle(c) == ~ Finished(c)

Hears(e, src) ==
    /\ Running /\ handle
    /\ MayHear(e)
    /\ heard' = IF e = StreamEnded THEN heard ELSE Append(heard, e)
    /\ Reacts(e, src)
    /\ handle' = KeepsHandle(child')
    /\ UNCHANGED <<args, pc, startVars, modal>>

-----------------------------------------------------------------------------
(* What else happens in the fancy UI                                         *)

\* After 250 ms without an event the screen is drawn again.
SleepTimeout ==
    /\ Running /\ pc = "fancy"
    /\ handle
    /\ ~ IsNumber(Ratio(child))
    /\ Draw(child)
    /\ UNCHANGED <<args, pc, startVars, heard, child, handle, modal>>

\* QuitModal::handle_key_down
KeyInModal(k) ==
    CASE k \in {"q", "Q"} -> "quit"
      [] k = "esc"        -> "stay"
      [] OTHER            -> "none"

\* A slip: a key that asks to quit does so in every state.
AsksToQuitAtOnce(k) == k \in {"ctrl_c", "esc", "q"}

QuitsAtOnce(k) == k \in {"ctrl_c", "esc", "q"} /\ Finished(child)

OpensModal(k) == k \in {"ctrl_c", "esc", "q"} /\ ~ Finished(child)

\* State::handle_key_down, then the drawing.
KeyDown(k) ==
    /\ Running /\ pc = "fancy"
    /\ IF (modal /\ KeyInModal(k) = "quit") \/ (~ modal /\ QuitsAtOnce(k))
       THEN exit' = "quit" /\ UNCHANGED modal
       ELSE /\ modal' = IF modal THEN KeyInModal(k) # "stay" ELSE OpensModal(k)
            /\ Draw(child)
    /\ UNCHANGED <<args, pc, startVars, heard, child, handle>>

\* An error of the terminal: reading its events, or drawing.
TerminalFails ==
    /\ Running /\ pc = "fancy"
    /\ exit' = "error"
    /\ UNCHANGED <<args, pc, startVars, heard, child, handle, modal>>

\* A signal, of which the program handles none.
Killed(signal) ==
    /\ Running
    /\ exit' = signal
    /\ UNCHANGED <<args, pc, startVars, heard, child, handle, modal>>

-----------------------------------------------------------------------------

Next ==
    \/ HerdStarts \/ FirstTryFails \/ Confirm \/ SecondTryFails
    \/ \E e \in Event, src \in 0 .. args.input : Hears(e, src)
    \/ Hears(StreamEnded, 0)
    \/ SleepTimeout \/ TerminalFails
    \/ \E signal \in Signal : Killed(signal)
    \/ \E k \in Key : KeyDown(k)

Spec == Init /\ [][Next]_vars

-----------------------------------------------------------------------------
(* Properties                                                                *)

(* Types; and no UI ever gets to the panic on an unexpected status           *)
(* (ui/writer_tracking.rs:62): start_herd has taken the only InitSuccess.    *)
TypeOK ==
    /\ args \in Args
    /\ pc \in {"first_try", "prompt", "second_try", "failed", "fancy", "simple"}
    /\ refusal \in Failure \cup {"none", "DaemonError"}
    /\ consent \in BOOLEAN /\ escalated \in BOOLEAN
    /\ heard \in Seq(Event)
    /\ child \in WriterState
    /\ handle \in BOOLEAN /\ modal \in BOOLEAN
    /\ exit \in {"none", "error", "quit", "done", "bad_ratio", "division_by_zero"}
                  \cup Signal

(* A second, privileged attempt is only made after the first was refused for *)
(* lack of permission, and only with --root always or with the user's        *)
(* consent: --root never, a refusal of any other kind and a session without  *)
(* a terminal never end up as root (start.rs:70-94).                       *)
EscalationIsConsented ==
    escalated =>
        /\ refusal = "PermissionDenied"
        /\ args.root = "always" \/ (args.root = "ask" /\ args.interactive /\ consent)

\* What the events heard so far say of the result: "none" is success.
Verdict ==
    LET last == heard[Len(heard)]
    IN  CASE last.type = "Error" -> last.error
          [] last = Success \/ last = FinishedWriting(FALSE) -> "none"
          [] OTHER -> "UnexpectedTermination"

(* What the UI holds for the result is what the herd said: no failure that   *)
(* comes late, early or twice is shown as success, none is made up.          *)
ResultIsTruthful == Finished(child) => child.error = Verdict

(* The bar and the percentage only break down when the input is empty or the *)
(* writer stopped before it had written anything.                            *)
BreaksOnlyOnNothing ==
    exit \in {"bad_ratio", "division_by_zero"} => args.input = 0 \/ child.write = 0

-----------------------------------------------------------------------------
(* A statement of the source that the code does not keep.                    *)

(* simple_ui/mod.rs:81 prints "Done!", which widgets.rs:165-168 keeps for a  *)
(* state without an error: it is only printed of a burn that succeeded.      *)
DoneMeansSuccess == exit = "done" => child.error = "none"

=============================================================================
