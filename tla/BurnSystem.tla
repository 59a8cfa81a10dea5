------------------------------ MODULE BurnSystem -------------------------------
(***************************************************************************)
(* One burn from ui::main to the end of the processes it started: the       *)
(* session (BurnSession) over the facade, the daemons and their writers      *)
(* (HerderFacade), the second daemon started through Escalation, and the     *)
(* terminal (ui/utils.rs, logging.rs, main.rs).                              *)
(*                                                                          *)
(* What BurnSession leaves open is decided here by the facade: which         *)
(* attempts are refused, what a handle hears, and that nothing may come at   *)
(* all.  The target is only written by a herd that runs; what a writer says  *)
(* after the program ended is heard by nobody and left out.                  *)
(***************************************************************************)
EXTENDS HerdEvents, Escalation

CONSTANTS
    MaxHerds, MaxEvents, Failures, Mortal,  \* of HerderFacade
    SelfPaths,      \* names the program's file may have
    LogPath         \* the log file the daemons are given

VARIABLES
    nextId, call, client, proc, stdin, stdout, reader, host, herd, sent, entry, queue,
    receiver, received, outcome,                        \* of HerderFacade
    args, pc, refusal, consent, escalated, child, modal, exit,      \* of BurnSession
    tty,            \* the terminal: in raw mode, on the alternate screen
    ran             \* the words a shell ran as root, <<>> when none did

facadeVars == <<nextId, call, client, proc, stdin, stdout, reader, host, herd, sent,
                entry, queue, receiver, received, outcome>>
sessionVars == <<args, pc, refusal, consent, escalated, child, modal, exit>>

vars == <<facadeVars, sessionVars, tty, ran>>

F == INSTANCE HerderFacade

\* The handle is that of the call that was started, of which there is at most one.
Started == {i \in F!Id : outcome[i] = "started"}
Heard == IF Started = {} THEN <<>> ELSE received[CHOOSE i \in Started : TRUE]
HandleHeld == \E i \in F!Id : receiver[i] = "handle"

S == INSTANCE BurnSession
        WITH MaxInput <- 1, MaxHeard <- MaxEvents, heard <- Heard, handle <- HandleHeld

\* The names and the path are any: a path is not told to be other than text.
ASSUME SystemAssumption ==
    /\ MaxHerds = 2 /\ MaxBytes \in Nat /\ MaxEvents \in Nat \ {0}
    /\ Failures \subseteq Failure
    /\ Mortal \subseteq F!Daemon
    /\ SelfPaths \subseteq Seq(Char) /\ LogPath \in Seq(Char)

Terminal == [raw : BOOLEAN, alt : BOOLEAN]
Cooked == [raw |-> FALSE, alt |-> FALSE]
Raw == [raw |-> TRUE, alt |-> FALSE]
Captured == [raw |-> TRUE, alt |-> TRUE]

\* A slip: raw mode is all that TUICapture's drop puts back.
DroppedRaw(t) == [t EXCEPT !.raw = FALSE]

\* The drop of TUICapture.
Dropped(t) == [t EXCEPT !.raw = FALSE, !.alt = FALSE]

\* The panic hook of the parent.
PanicHook(t) == [t EXCEPT !.raw = FALSE]

\* The drop of the TermiosRestore of ui::main, if /dev/tty could be opened: the
\* modes are those from before the program, of the screen it knows nothing.
Restored(t) == {t, [t EXCEPT !.raw = FALSE]}

\* spawn_herder: the same program, as a daemon.
HerderCommand(self) == <<self, <<"x">>, LogPath>>

\* What it may come to run as root, with what is installed.
Escalations ==
    {RunAsRoot(installed, HerderCommand(self)) :
        installed \in SUBSET Tool \ {{}}, self \in SelfPaths}

Init ==
    /\ F!Init
    /\ S!Init /\ args.input = 1 /\ ~ args.compressed
    /\ tty = Cooked
    /\ ran = <<>>

Running == exit = "none"

-----------------------------------------------------------------------------
(* The calls of start_herd                                                   *)

\* try_start_burn calls once without and, when it comes to that, once with escalation.
Asks ==
    /\ Running
    /\ \/ pc = "first_try" /\ nextId = 0 /\ F!StartHerd("std")
       \/ pc = "second_try" /\ nextId = 1 /\ F!StartHerd("esc")
    /\ UNCHANGED <<sessionVars, tty, ran>>

\* spawn_herder, as itself or through a tool that makes it root.
Spawns ==
    /\ Running
    /\ F!SpawnDaemon
    /\ IF call.on = "std" THEN UNCHANGED ran ELSE ran' \in Escalations
    /\ UNCHANGED <<sessionVars, tty>>

\* While "Escalate using sudo?" is on the screen, inquire has it in raw mode.
Refused(e) ==
    /\ \/ pc = "first_try" /\ S!FirstRefused(e)
       \/ pc = "second_try" /\ S!SecondRefused
    /\ tty' = IF pc' = "prompt" THEN Raw ELSE tty
    /\ UNCHANGED <<args, modal, ran>>

\* A panic of the caller ends the program like an error.
SpawnFails == Running /\ F!SpawnFails /\ Refused("DaemonError")

SendsRequest ==
    /\ Running
    /\ F!SendRequest
    /\ IF call'.pc = "idle" THEN Refused("DaemonError") ELSE UNCHANGED <<sessionVars, tty, ran>>

TakesReceiver == Running /\ F!TakeReceiver /\ UNCHANGED <<sessionVars, tty, ran>>

\* What a TUICapture::new that failed leaves: it sets raw mode, the alternate screen,
\* and asks for the terminal's size, and has no Drop to run when it fails in between.
\* ui::main returns the error, about which main panics.
HalfCaptured == {PanicHook(t) : t \in UNION {Restored(s) : s \in {Cooked, Raw, Captured}}}

OpensUi ==
    /\ S!UiOpens
    /\ tty' \in IF ~ args.interactive THEN {tty}
                ELSE IF exit' = "none" THEN {Captured} ELSE HalfCaptured
    /\ UNCHANGED <<args, refusal, consent, escalated, modal, ran>>

\* The first event of the herd answers the call.
IsAnswered ==
    /\ Running
    /\ F!FirstEvent
    /\ LET e == Head(queue[call.id])
       IN  CASE e.type = "InitSuccess" -> OpensUi
             [] e.type = "Error"       -> Refused(e.error)
             [] OTHER                  -> Refused("DaemonError")

-----------------------------------------------------------------------------
(* The user interface                                                        *)

\* However ui::main is left, TUICapture and TermiosRestore are dropped, by unwinding
\* too.
TerminalFollows == tty' \in IF exit' = "none" THEN {tty} ELSE Restored(Dropped(tty))

\* A terminal that fails may also refuse to leave the alternate screen, about which
\* the drop of TUICapture panics.
TerminalGoes == tty' \in UNION {Restored(t) : t \in {Dropped(tty), PanicHook(tty)}}

Hears ==
    /\ Running
    /\ \E i \in F!Id : F!Consume(i) /\ S!Reacts(Head(queue[i]), args.input)
    /\ TerminalFollows
    /\ UNCHANGED <<args, pc, refusal, consent, escalated, modal, ran>>

\* In raw mode Ctrl-C is a key like the others; out of it a finished line gives keys.
\* However the prompt is answered, inquire puts raw mode back.
UserActs ==
    /\ UNCHANGED facadeVars
    /\ \/ S!Confirm /\ tty' = Cooked
       \/ /\ \E k \in S!Key : (k = "ctrl_c" => tty.raw) /\ S!KeyDown(k)
          /\ TerminalFollows
       \/ S!TerminalFails /\ TerminalGoes
    /\ UNCHANGED ran

\* Only a terminal that is not in raw mode makes a signal of Ctrl-C.
CtrlC ==
    /\ ~ tty.raw
    /\ UNCHANGED facadeVars
    /\ S!Killed("interrupted")
    /\ UNCHANGED <<tty, ran>>

\* SIGTERM, SIGHUP or SIGKILL, at any moment: nothing is dropped, no hook is run.
IsKilled ==
    /\ UNCHANGED facadeVars
    /\ S!Killed("killed")
    /\ UNCHANGED <<tty, ran>>

-----------------------------------------------------------------------------
(* The tasks, the daemons and the writers                                    *)

ReaderDelivers(k) ==
    /\ Running
    /\ F!ReaderDelivers(k)
    /\ UNCHANGED <<sessionVars, tty, ran>>

\* The panic of a reader task runs the hook of the whole program, which takes the
\* terminal out of raw mode under the user interface.
ReaderDies(k) ==
    /\ Running
    /\ F!ReaderDies(k)
    /\ tty' = [tty EXCEPT !.raw = FALSE]
    /\ UNCHANGED <<sessionVars, ran>>

\* BeginParams always asks for the verification.
WriterSends(i) ==
    /\ Running
    /\ F!WriterSends(i)
    /\ Last(sent'[i]) # FinishedWriting(FALSE)
    /\ UNCHANGED <<sessionVars, tty, ran>>

DaemonSpawnsWriter(k) == F!DaemonSpawnsWriter(k) /\ UNCHANGED <<sessionVars, tty, ran>>

Breaks ==
    /\ Running
    /\ (\E i \in F!Id : F!WriterPanics(i)) \/ (\E k \in F!Daemon : F!DaemonDies(k))
    /\ UNCHANGED <<sessionVars, tty, ran>>

\* A slip: the daemon waits for its writers before it returns.
DaemonQuitsWhenIdle(k) ==
    /\ ~ Running
    /\ stdin[k] = <<>>
    /\ \A i \in F!Id : host[i] = k => herd[i] # "running"
    /\ F!DaemonGoes(k)
    /\ UNCHANGED <<sessionVars, tty, ran>>

\* With the parent goes the other end of the daemon's standard input: once it has
\* read what is left, main returns, and its threads go with it.  Sooner than that,
\* the daemon that is not root is killed by kill_on_drop, where anything is dropped,
\* and the signal of Ctrl-C is that of the daemons too.
DaemonQuits(k) ==
    /\ ~ Running
    /\ \/ stdin[k] = <<>>
       \/ k = "std" /\ exit # "killed"
       \/ exit = "interrupted"
    /\ F!DaemonGoes(k)
    /\ UNCHANGED <<sessionVars, tty, ran>>

-----------------------------------------------------------------------------

CallStep == Asks \/ Spawns \/ SendsRequest \/ TakesReceiver \/ IsAnswered

\* What the program and its processes do on their own.
SystemStep ==
    \/ CallStep \/ Hears
    \/ \E k \in F!Daemon : ReaderDelivers(k) \/ DaemonSpawnsWriter(k) \/ DaemonQuits(k)
    \/ \E i \in F!Id : WriterSends(i)

Next ==
    \/ SystemStep
    \/ SpawnFails \/ Breaks \/ \E k \in F!Daemon : ReaderDies(k)
    \/ UserActs \/ CtrlC \/ IsKilled

Spec == Init /\ [][Next]_vars

\* The runtime polls its tasks, a daemon reads its input and notices its end, and
\* while somebody listens a writer comes to its final event
\* (WriterProcess!WriterEnds): as long as one of them has something to do, one of
\* them does it.  Of a user, or of a writer nobody listens to, nothing is assumed.
FairSpec == Spec /\ WF_vars(SystemStep)

-----------------------------------------------------------------------------
(* Properties                                                                *)

TypeOK ==
    /\ F!TypeOK
    /\ S!TypeOK
    /\ tty \in Terminal
    /\ ran \in Seq(Seq(Char))

(* The facade keeps the promises the user interfaces are written against:    *)
(* with its tasks, daemons and writers hidden, the system is a session.      *)
ImplementsSession == S!Spec

(* However the program ends by itself or by Ctrl-C, the terminal is out of    *)
(* raw mode.  Under the fancy UI it is left on the alternate screen where the *)
(* terminal itself failed (ui/utils.rs:18-27, 36-43), and by a Ctrl-C that    *)
(* was made a signal by the panic of a reader task (logging.rs:57); nowhere    *)
(* else.  A program that is killed cannot restore anything: SIGTERM, SIGHUP   *)
(* and SIGKILL leave the terminal as it was, raw under the fancy UI and the    *)
(* prompt.                                                                   *)
TerminalIsRestored ==
    exit \notin {"none", "killed"} =>
        /\ ~ tty.raw
        /\ tty.alt =>
              /\ pc = "fancy"
              /\ \/ exit = "error"
                 \/ exit = "interrupted" /\ \E k \in F!Daemon : reader[k] = "dead"

(* A key press alone does not interrupt a writer: the fancy UI ends at once  *)
(* only when none runs any more, unless a reader task has panicked, after     *)
(* which Ctrl-C does not reach the quit prompt (ui/fancy_ui/state.rs).        *)
WriterRuns == \E i \in F!Id : herd[i] = "running"

QuitIsSafe ==
    [][(pc = "fancy" /\ ~ modal /\ exit' \in {"quit", "interrupted"} /\ exit # exit') =>
          \/ ~ WriterRuns
          \/ exit' = "interrupted" /\ \E k \in F!Daemon : reader[k] = "dead"]_vars

(* No writer outlives the program for good, whoever runs it and whatever     *)
(* ended the program: a request still in the pipe is taken first, but nobody  *)
(* has to wait for the writing to be over (herder_daemon/mod.rs:18-27).       *)
WritersStopWithProgram == (~ Running) ~> ~ WriterRuns

(* An attempt to start comes to a result the user sees, a question, or the   *)
(* end, unless the daemon asked, or the writer's thread, broke down: then     *)
(* nobody is told (see HerderFacade!DisconnectIsNoticed).                     *)
BrokeDown(k) ==
    \/ proc[k] = "dead"
    \/ \E i \in F!Id :
          host[i] = k /\ herd[i] = "gone" /\ (sent[i] = <<>> \/ ~ IsFinal(Last(sent[i])))

SessionConcludes ==
    (pc \in {"first_try", "second_try"}) ~>
        \/ ~ Running \/ pc = "prompt" \/ S!Finished(child)
        \/ BrokeDown(IF escalated THEN "esc" ELSE "std")

(* What runs as root is this program as a daemon and nothing else, whatever   *)
(* the name of its file and whichever tool is there; and only after the       *)
(* target was refused to the user, who asked for it or agreed to it.          *)
RootRunsOnlyTheDaemon ==
    (proc["esc"] # "absent" \/ ran # <<>>) =>
        /\ ran \in {HerderCommand(self) : self \in SelfPaths}
        /\ sent[0] = <<Error("PermissionDenied")>>
        /\ args.root = "always" \/ consent

=============================================================================
