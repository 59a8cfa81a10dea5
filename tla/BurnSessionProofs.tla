-------------------------- MODULE BurnSessionProofs ---------------------------
(***************************************************************************)
(* Proofs about BurnSession, for every size of the input, byte count and     *)
(* length of a conversation.  SessionInv is the inductive invariant: TypeOK, *)
(* what a question or a second attempt presupposes (Asking), and what the    *)
(* state shown to the user has to do with what was heard (Tracking).         *)
(***************************************************************************)
EXTENDS BurnSession, TLAPS

Asking ==
    /\ EscalationIsConsented
    /\ pc = "prompt" =>
          refusal = "PermissionDenied" /\ args.root = "ask" /\ args.interactive

LastHeard == heard[Len(heard)]

\* The last thing that was heard does not settle the result.
Unsettled ==
    /\ heard # <<>>
    /\ LastHeard.type \notin {"Error", "Success"}
    /\ LastHeard # FinishedWriting(FALSE)

Tracking ==
    /\ handle => ~ Finished(child) /\ Unsettled
    /\ child.phase # "Writing" => child.total = child.write
    /\ handle /\ child.phase = "Verifying" => Finishes(heard) # {}
    /\ ResultIsTruthful
    /\ BreaksOnlyOnNothing

SessionInv == TypeOK /\ Asking /\ Tracking

-----------------------------------------------------------------------------
(* WriterState::on_status                                                    *)

\* The kinds of events, each with what it carries.
LEMMA EventKinds ==
    ASSUME NEW e \in Event
    PROVE  \/ e = InitSuccess /\ e.type = "InitSuccess"
           \/ e = Success /\ e.type = "Success"
           \/ e.type = "TotalBytes" /\ e.dest \in 0 .. MaxBytes
           \/ /\ e.type = "FinishedWriting" /\ e.verifying \in BOOLEAN
              /\ e = FinishedWriting(e.verifying)
           \/ e.type = "Error" /\ e.error \in Failure
BY DEF Event, InitSuccess, Success, FinishedWriting

\* A state stays a state, whatever is heard, and its total is what was written.
LEMMA OnStatusType ==
    ASSUME NEW c \in WriterState, NEW e \in Event \cup {StreamEnded},
           NEW src \in 0 .. MaxInput, ~ Unexpected(e),
           c.phase # "Writing" => c.total = c.write
    PROVE  /\ OnStatus(c, e, src) \in WriterState
           /\ OnStatus(c, e, src).phase # "Writing" =>
                 OnStatus(c, e, src).total = OnStatus(c, e, src).write
<1> DEFINE d == OnStatus(c, e, src)
<1>1. CASE e.type = "TotalBytes" /\ e.dest \in 0 .. MaxBytes
  <2>1. d = OnTotalBytes(c, src, e.dest)
    BY <1>1 DEF OnStatus, StreamEnded
  <2> QED BY <1>1, <2>1 DEF OnTotalBytes, WriterState
<1>2. CASE e.type = "FinishedWriting" /\ e.verifying \in BOOLEAN
  <2>1. d = OnFinishedWriting(c, e.verifying)
    BY <1>2 DEF OnStatus, StreamEnded
  <2> QED BY <2>1 DEF OnFinishedWriting, IntoVerifying, IntoFinished, Finished, WriterState
<1>3. CASE e.type = "Error" /\ e.error \in Failure
  <2>1. d = IntoFinished(c, e.error)
    BY <1>3 DEF OnStatus, StreamEnded
  <2> QED BY <1>3, <2>1 DEF IntoFinished, Finished, WriterState
<1>4. CASE e.type = "Success"
  <2>1. d = IntoFinished(c, "none")
    BY <1>4 DEF OnStatus, StreamEnded
  <2> QED BY <2>1 DEF IntoFinished, Finished, WriterState
<1>5. CASE e = StreamEnded
  <2>1. d = IntoFinished(c, "UnexpectedTermination")
    BY <1>5 DEF OnStatus, StreamEnded
  <2> QED BY <2>1 DEF IntoFinished, Finished, WriterState
<1> QED BY <1>1, <1>2, <1>3, <1>4, <1>5, EventKinds DEF Unexpected

\* A state that was not finished is finished by an event that says how.
LEMMA OnStatusResult ==
    ASSUME NEW c \in WriterState, NEW e \in Event, NEW src \in 0 .. MaxInput,
           ~ Unexpected(e), ~ Finished(c),
           c.phase = "Verifying" => e.type # "FinishedWriting"
    PROVE  LET d == OnStatus(c, e, src)
           IN  IF Finished(d)
               THEN \/ e.type = "Error" /\ d.error = e.error
                    \/ e = Success /\ d.error = "none"
                    \/ e = FinishedWriting(FALSE) /\ d.error = "none"
               ELSE /\ e.type \notin {"Error", "Success"}
                    /\ e # FinishedWriting(FALSE)
                    /\ d.phase = "Verifying" =>
                          c.phase = "Verifying" \/ e.type = "FinishedWriting"
<1> DEFINE d == OnStatus(c, e, src)
<1>1. CASE e.type = "TotalBytes"
  <2>1. d = OnTotalBytes(c, src, e.dest)
    BY <1>1 DEF OnStatus, StreamEnded
  <2>2. d.phase = c.phase
    BY <2>1 DEF OnTotalBytes, WriterState
  <2> QED BY <1>1, <2>2 DEF Finished, FinishedWriting
<1>2. CASE e = FinishedWriting(e.verifying) /\ e.verifying \in BOOLEAN
  <2>1. e.type = "FinishedWriting" /\ c.phase = "Writing"
    BY <1>2 DEF FinishedWriting, WriterState, Finished
  <2>2. d = IF e.verifying THEN IntoVerifying(c) ELSE IntoFinished(c, "none")
    BY <2>1 DEF OnStatus, OnFinishedWriting, StreamEnded
  <2>3. CASE e.verifying
    <3>1. d.phase = "Verifying" /\ e # FinishedWriting(FALSE)
      BY <2>2, <2>3 DEF IntoVerifying, WriterState, FinishedWriting
    <3> QED BY <2>1, <3>1 DEF Finished
  <2>4. CASE ~ e.verifying
    <3>1. d.phase = "Finished" /\ d.error = "none"
      BY <2>2, <2>4 DEF IntoFinished, WriterState
    <3> QED BY <1>2, <2>4, <3>1 DEF Finished
  <2> QED BY <2>3, <2>4
<1>3. CASE e.type = "Error"
  <2>1. d.phase = "Finished" /\ d.error = e.error
    BY <1>3 DEF OnStatus, StreamEnded, IntoFinished, WriterState, Finished
  <2> QED BY <1>3, <2>1 DEF Finished
<1>4. CASE e = Success
  <2>1. d.phase = "Finished" /\ d.error = "none"
    BY <1>4 DEF OnStatus, StreamEnded, IntoFinished, WriterState, Success, Finished
  <2> QED BY <1>4, <2>1 DEF Finished
<1> QED BY <1>1, <1>2, <1>3, <1>4, EventKinds DEF Unexpected

\* There is one FinishedWriting in a conversation.
LEMMA FinishedOnce ==
    ASSUME heard \in Seq(Event), NEW e \in Event, WellFormed(Append(heard, e)),
           Finishes(heard) # {}
    PROVE  e.type # "FinishedWriting"
<1> SUFFICES ASSUME e.type = "FinishedWriting" PROVE FALSE
  OBVIOUS
<1> DEFINE s == Append(heard, e)
<1>1. PICK i \in DOMAIN heard : heard[i].type = "FinishedWriting"
  BY DEF Finishes
<1>2. /\ Len(heard) \in Nat /\ Len(s) = Len(heard) + 1 /\ DOMAIN s = 1 .. Len(heard) + 1
      /\ s[Len(heard) + 1] = e
      /\ i \in 1 .. Len(heard) /\ s[i] = heard[i]
  BY <1>1
<1>3. i \in Finishes(s) /\ Len(heard) + 1 \in Finishes(s)
  BY <1>1, <1>2 DEF Finishes
<1>4. i = Len(heard) + 1
  BY <1>3 DEF WellFormed
<1> QED BY <1>2, <1>4

\* A drawing that fails has nothing by nothing for its ratio.
LEMMA BadRatio ==
    ASSUME NEW c \in WriterState, ~ IsNumber(Ratio(c)),
           c.phase # "Writing" => c.total = c.write
    PROVE  args.input = 0 \/ c.write = 0
BY DEF IsNumber, Ratio, WriterState

-----------------------------------------------------------------------------

LEMMA SessionInit == Init => SessionInv
<1> SUFFICES ASSUME Init PROVE SessionInv
  OBVIOUS
<1>1. Initial \in WriterState /\ Initial.phase = "Writing"
  BY SessionAssumption DEF Initial, WriterState
<1>2. TypeOK
  <2>1. <<>> \in Seq(Event)
    OBVIOUS
  <2> QED BY <1>1, <2>1 DEF Init, TypeOK
<1>3. Asking
  BY DEF Init, Asking, EscalationIsConsented
<1>4. Tracking
  BY <1>1 DEF Init, Tracking, ResultIsTruthful, BreaksOnlyOnNothing, Finished
<1> QED BY <1>2, <1>3, <1>4 DEF SessionInv

\* What a UI concludes from one turn, with an event or without.
LEMMA HearsStep ==
    ASSUME SessionInv, NEW e \in Event \cup {StreamEnded}, NEW src \in 0 .. args.input,
           Hears(e, src)
    PROVE  SessionInv'
<1>1. TypeOK /\ Asking /\ Tracking /\ Running /\ handle /\ MayHear(e)
  BY DEF SessionInv, Hears
<1>2. UNCHANGED <<args, pc, refusal, consent, escalated, modal>>
  BY DEF Hears, startVars
<1>3. src \in 0 .. MaxInput /\ args \in Args /\ child \in WriterState /\ heard \in Seq(Event)
      /\ ~ Finished(child) /\ Unsettled
      /\ (child.phase # "Writing" => child.total = child.write)
  BY <1>1, SessionAssumption DEF TypeOK, Args, Tracking
<1>4. Asking'
  BY <1>1, <1>2 DEF Asking, EscalationIsConsented
<1>5. ~ Unexpected(e)
  <2> SUFFICES ASSUME e \in Event, e.type = "InitSuccess" PROVE FALSE
    BY DEF Unexpected, StreamEnded
  <2> DEFINE s == Append(heard, e)
  <2>1. WellFormed(s)
    BY <1>1 DEF MayHear, StreamEnded
  <2>2. Len(heard) \in Nat /\ Len(heard) # 0 /\ DOMAIN s = 1 .. Len(heard) + 1
        /\ s[Len(heard) + 1] = e
    BY <1>3 DEF Unsettled
  <2>3. Len(heard) + 1 \in DOMAIN s
    BY <2>2
  <2>4. s[Len(heard) + 1].type = "InitSuccess" => Len(heard) + 1 = 1
    BY <2>1, <2>3 DEF WellFormed
  <2> QED BY <2>2, <2>4
<1>6. child' = OnStatus(child, e, src)
  BY <1>5 DEF Hears, Reacts
<1>7. child' \in WriterState /\ (child'.phase # "Writing" => child'.total = child'.write)
  BY <1>3, <1>5, <1>6, OnStatusType
<1>8. exit' \in {exit, "bad_ratio", "done", "division_by_zero"}
      /\ (exit' = "bad_ratio" => exit' = exit \/ ~ IsNumber(Ratio(child')))
      /\ (exit' = "division_by_zero" => exit' = exit \/ args.input = 0)
  BY <1>2, <1>5 DEF Hears, Reacts, FancyReacts, SimpleReacts, Draw, Ratio
<1>9. BreaksOnlyOnNothing'
  <2>1. exit = "none"
    BY <1>1 DEF Running
  <2>2. CASE ~ IsNumber(Ratio(child'))
    <3>1. args.input = 0 \/ child'.write = 0
      BY <1>7, <2>2 DEF IsNumber, Ratio, WriterState
    <3> QED BY <1>2, <3>1 DEF BreaksOnlyOnNothing
  <2> QED BY <1>2, <1>8, <2>1, <2>2 DEF BreaksOnlyOnNothing
<1>10. handle' \in BOOLEAN /\ (handle' <=> ~ Finished(child'))
  BY DEF Hears, KeepsHandle
<1>11. heard' \in Seq(Event)
  BY <1>1, <1>3 DEF Hears, MayHear
<1>12. TypeOK'
  BY <1>1, <1>2, <1>7, <1>8, <1>10, <1>11 DEF TypeOK
<1>13. CASE e = StreamEnded
  <2>1. heard' = heard /\ Finished(child') /\ child'.error = "UnexpectedTermination"
    BY <1>3, <1>6, <1>13 DEF Hears, OnStatus, StreamEnded, IntoFinished, Finished,
       WriterState
  <2>2. Verdict' = "UnexpectedTermination"
    <3>1. LastHeard.type # "Error" /\ LastHeard # Success /\ LastHeard # FinishedWriting(FALSE)
      <4>1. Success.type = "Success"
        BY DEF Success
      <4> QED BY <1>3, <4>1 DEF Unsettled
    <3>2. Verdict = "UnexpectedTermination"
      BY <3>1 DEF Verdict, LastHeard
    <3>3. Verdict' = Verdict
      BY <2>1 DEF Verdict
    <3> QED BY <3>2, <3>3
  <2>3. ResultIsTruthful'
    BY <2>1, <2>2 DEF ResultIsTruthful
  <2> QED BY <1>4, <1>7, <1>9, <1>10, <1>12, <2>1, <2>3 DEF SessionInv, Tracking
<1>14. CASE e # StreamEnded
  <2>1. e \in Event /\ heard' = Append(heard, e) /\ WellFormed(heard')
    BY <1>1, <1>14 DEF Hears, MayHear
  <2>2. heard' # <<>> /\ LastHeard' = e /\ heard'[Len(heard')] = e
        /\ (Finishes(heard) # {} \/ e.type = "FinishedWriting" => Finishes(heard') # {})
    <3>1. Len(heard) \in Nat /\ Len(heard') = Len(heard) + 1
          /\ DOMAIN heard = 1 .. Len(heard) /\ DOMAIN heard' = 1 .. Len(heard) + 1
          /\ heard'[Len(heard')] = e
          /\ \A i \in DOMAIN heard : heard'[i] = heard[i]
      BY <1>3, <2>1
    <3> QED BY <3>1 DEF LastHeard, Finishes
  <2>3. child.phase = "Verifying" => e.type # "FinishedWriting"
    BY <1>1, <1>3, <2>1, FinishedOnce DEF Tracking
  <2>4. CASE Finished(child')
    <3>1. \/ e.type = "Error" /\ child'.error = e.error
          \/ e = Success /\ child'.error = "none"
          \/ e = FinishedWriting(FALSE) /\ child'.error = "none"
      BY <1>3, <1>5, <1>6, <2>1, <2>3, <2>4, OnStatusResult
    <3>2. child'.error = Verdict'
      BY <2>2, <3>1 DEF Verdict, Success, FinishedWriting
    <3> QED BY <1>4, <1>7, <1>9, <1>10, <1>12, <2>4, <3>2
            DEF SessionInv, Tracking, ResultIsTruthful
  <2>5. CASE ~ Finished(child')
    <3>1. /\ e.type \notin {"Error", "Success"}
          /\ e # FinishedWriting(FALSE)
          /\ child'.phase = "Verifying" =>
                child.phase = "Verifying" \/ e.type = "FinishedWriting"
      BY <1>3, <1>5, <1>6, <2>1, <2>3, <2>5, OnStatusResult
    <3>2. Unsettled'
      BY <2>2, <3>1 DEF Unsettled
    <3>3. child'.phase = "Verifying" => Finishes(heard') # {}
      BY <1>1, <2>2, <3>1 DEF Tracking
    <3> QED BY <1>4, <1>7, <1>9, <1>12, <2>5, <3>2, <3>3
            DEF SessionInv, Tracking, ResultIsTruthful
  <2> QED BY <2>4, <2>5
<1> QED BY <1>13, <1>14

LEMMA SessionStep == SessionInv /\ [Next]_vars => SessionInv'
<1> SUFFICES ASSUME SessionInv, [Next]_vars PROVE SessionInv'
  OBVIOUS
<1>1. TypeOK /\ Asking /\ Tracking
  BY DEF SessionInv
<1>2. args \in Args /\ child \in WriterState /\ heard \in Seq(Event)
      /\ (child.phase # "Writing" => child.total = child.write)
  BY <1>1 DEF TypeOK, Tracking
<1>a. CASE HerdStarts
  <2>1. Initial \in WriterState /\ Initial.phase = "Writing"
    BY SessionAssumption DEF Initial, WriterState
  <2>2. child' = Initial /\ exit' \in {"none", "error"} /\ pc' \in {"fancy", "simple"}
        /\ heard' = <<InitSuccess>> /\ handle' = TRUE
        /\ UNCHANGED <<args, refusal, consent, escalated, modal>>
    BY <1>a DEF HerdStarts, UiOpens, startVars
  <2>3. InitSuccess \in Event /\ InitSuccess.type = "InitSuccess"
    BY DEF InitSuccess, Event
  <2>4. heard' \in Seq(Event) /\ Unsettled'
    BY <2>2, <2>3 DEF Unsettled, LastHeard, FinishedWriting, InitSuccess
  <2> QED
    BY <1>1, <2>1, <2>2, <2>4 DEF SessionInv, TypeOK, Asking, EscalationIsConsented,
       Tracking, ResultIsTruthful, BreaksOnlyOnNothing, Finished
<1>b. CASE FirstTryFails
  <2>1. PICK e \in Failure \cup {"DaemonError"} : FirstRefused(e)
    BY <1>b DEF FirstTryFails
  <2>2. pc' \in {"prompt", "second_try", "failed"}
        /\ (pc' = "prompt" =>
              refusal' = "PermissionDenied" /\ args.root = "ask" /\ args.interactive)
        /\ (pc' = "second_try" => refusal' = "PermissionDenied" /\ args.root = "always")
        /\ refusal' = e /\ escalated' = (pc' = "second_try")
        /\ exit' \in {exit, "error"}
    BY <2>1 DEF FirstRefused, AfterRefusal
  <2>3. UNCHANGED <<args, heard, child, handle, modal, consent>>
    BY <1>b, <2>1 DEF FirstTryFails, FirstRefused
  <2>4. TypeOK'
    BY <1>1, <2>2, <2>3 DEF TypeOK
  <2>5. Asking'
    BY <2>2, <2>3 DEF Asking, EscalationIsConsented
  <2>6. Tracking'
    BY <1>1, <2>2, <2>3 DEF Tracking, Unsettled, LastHeard, ResultIsTruthful, Verdict,
       BreaksOnlyOnNothing
  <2> QED BY <2>4, <2>5, <2>6 DEF SessionInv
<1>c. CASE Confirm \/ SecondTryFails
  <2>1. UNCHANGED <<args, heard, child, handle, modal, refusal>>
        /\ exit' \in {exit, "error"}
    BY <1>c DEF Confirm, SecondTryFails, SecondRefused, startVars
  <2>2. Tracking'
    BY <1>1, <2>1 DEF Tracking, Unsettled, LastHeard, ResultIsTruthful, Verdict,
       BreaksOnlyOnNothing
  <2>3. /\ pc' \in {"second_try", "failed"}
        /\ consent' \in BOOLEAN /\ escalated' \in BOOLEAN
        /\ \/ UNCHANGED <<consent, escalated>>
           \/ consent' = TRUE /\ pc = "prompt"
    BY <1>c, <1>1 DEF Confirm, SecondTryFails, SecondRefused, startVars, TypeOK
  <2>4. TypeOK'
    BY <1>1, <2>1, <2>3 DEF TypeOK
  <2>5. Asking'
    BY <1>1, <2>1, <2>3 DEF Asking, EscalationIsConsented
  <2> QED BY <2>2, <2>4, <2>5 DEF SessionInv
<1>d. CASE \E e \in Event, src \in 0 .. args.input : Hears(e, src)
  BY <1>d, HearsStep
<1>e. CASE Hears(StreamEnded, 0)
  <2>1. 0 \in 0 .. args.input
    BY <1>2, SessionAssumption DEF Args
  <2> QED BY <1>e, <2>1, HearsStep
<1>f. CASE \/ SleepTimeout \/ TerminalFails
           \/ \E signal \in Signal : Killed(signal)
           \/ \E k \in Key : KeyDown(k)
  <2>1. UNCHANGED <<args, pc, refusal, consent, escalated, heard, child, handle>>
    BY <1>f DEF SleepTimeout, TerminalFails, Killed, KeyDown, startVars
  <2>2. exit' \in {exit, "bad_ratio", "error", "interrupted", "killed", "quit"}
        /\ (exit' = "bad_ratio" => exit' = exit \/ ~ IsNumber(Ratio(child)))
    BY <1>f DEF SleepTimeout, TerminalFails, Killed, Signal, KeyDown, Draw
  <2>3. modal' \in BOOLEAN
    BY <1>1, <1>f DEF SleepTimeout, TerminalFails, Killed, KeyDown, OpensModal, TypeOK
  <2>4. ~ IsNumber(Ratio(child)) => args.input = 0 \/ child.write = 0
    BY <1>2, BadRatio
  <2>5. TypeOK' /\ Asking'
    BY <1>1, <2>1, <2>2, <2>3 DEF TypeOK, Signal, Asking, EscalationIsConsented
  <2>6. Tracking'
    BY <1>1, <2>1, <2>2, <2>4 DEF Tracking, Unsettled, LastHeard, ResultIsTruthful,
       Verdict, BreaksOnlyOnNothing
  <2> QED BY <2>5, <2>6 DEF SessionInv
<1>g. CASE UNCHANGED vars
  <2>1. UNCHANGED <<args, pc, refusal, consent, escalated, heard, child, handle, modal,
                    exit>>
    BY <1>g DEF vars
  <2>2. TypeOK' /\ Asking'
    BY <1>1, <2>1 DEF TypeOK, Asking, EscalationIsConsented
  <2>3. Tracking'
    BY <1>1, <2>1 DEF Tracking, Unsettled, LastHeard, ResultIsTruthful, Verdict,
       BreaksOnlyOnNothing
  <2> QED BY <2>2, <2>3 DEF SessionInv
<1> QED
  BY <1>a, <1>b, <1>c, <1>d, <1>e, <1>f, <1>g DEF Next

-----------------------------------------------------------------------------

(* The inductive invariant of a session (try_start_burn, begin_writing and   *)
(* the two UIs) holds in every reachable state.                              *)
THEOREM SessionInvariant == Spec => []SessionInv
BY SessionInit, SessionStep, PTL DEF Spec

(* Type correctness: the panic on an unexpected status is never reached.     *)
THEOREM SessionTypeCorrect == Spec => []TypeOK
<1>1. SessionInv => TypeOK
  BY DEF SessionInv
<1> QED BY SessionInvariant, <1>1, PTL

(* try_start_burn asks for root only after a refusal for lack of permission, *)
(* and only with --root always or the user's consent.                        *)
THEOREM ConsentedEscalation == Spec => []EscalationIsConsented
<1>1. SessionInv => EscalationIsConsented
  BY DEF SessionInv, Asking
<1> QED BY SessionInvariant, <1>1, PTL

(* WriterState shows the result the herd reported, after conversations of    *)
(* any length.                                                               *)
THEOREM TruthfulResult == Spec => []ResultIsTruthful
<1>1. SessionInv => ResultIsTruthful
  BY DEF SessionInv, Tracking
<1> QED BY SessionInvariant, <1>1, PTL

(* The progress bar and the percentage break down on empty inputs, and on    *)
(* writers that stopped before they wrote, and on nothing else.              *)
THEOREM BreakdownsAreOfNothing == Spec => []BreaksOnlyOnNothing
<1>1. SessionInv => BreaksOnlyOnNothing
  BY DEF SessionInv, Tracking
<1> QED BY SessionInvariant, <1>1, PTL

=============================================================================
