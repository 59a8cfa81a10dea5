# A TLA+ model of Caligula

Caligula burns disk images. A *parent* process asks the user what to burn where
(the setup wizard), validates the image against a hash, and starts a *herder
daemon*, a child process of the same executable that may run as root. The daemon
starts one *writer thread* per herd, which decompresses the image onto the target
and reads it back; its events travel through the daemon's standard output to the
parent, where a terminal UI or a line-based UI shows them.

This directory holds TLA+ modules translated from the Rust source, the TLC
configurations that check them on small instances, and TLAPS proofs of what
matters most for every instance. `PROJECT.json` maps each definition to the lines
of the source it stands for. Paths below are relative to `src/` of the crate.

    tlc -workers 2 -config Writer.cfg WriterProcess     # a run of the table below
    tlapm WriterProcessProofs.tla                       # the proofs of a module

## 1. Inventory

| Component | Source | State it keeps | Operations | Modelled by |
|---|---|---|---|---|
| Writer thread | `herder_daemon/writer_process/{mod,utils,xplat}.rs` | buffers, source and target positions, events sent | unmount, open, write loop, flush, verify loop, report | `WriterProcess` |
| Herd events | `herder_daemon/writer_process/ipc.rs`, `herder_daemon/ipc.rs` | none | the language of a herd's conversation | `HerdEvents`, `WriterProtocol` |
| Facade, lazy clients, daemon loop | `herder_facade/*.rs`, `herder_daemon/mod.rs` | next id, daemons, `EventDemuxMap`, channels | `start_herd`, `ensure_daemon`, `handle_event`, `take_receiver`, the daemon's loop and end | `HerderFacade`, `BurnSystem` |
| Message framing | `ipc_common.rs` | stdout's buffer, the pipe | `write_msg`, `read_msg_async` | `IpcFraming`, `MessageChannel` |
| Burn session | `ui/start.rs`, `ui/mod.rs`, `ui/writer_tracking.rs` | `WriterState`, whether root was asked for | `try_start_burn`, `begin_writing`, `on_status` | `BurnSession`, `BurnSystem` |
| Fancy and simple UI | `ui/fancy_ui`, `ui/simple_ui/mod.rs` | handle, quit prompt | one turn of each loop, key presses, the bar's ratio | `BurnSession` (layout left out) |
| Setup wizard | `ui/simple_ui/ask_*.rs`, `ui/cli.rs` | arguments, parameters so far, the list on the screen | `ask_compression`, `ask_hash`, `ask_outfile`, `confirm_write` | `SetupWizard` |
| Hash files, hash parsing | `hashfile.rs`, `hash.rs` | none | `parse_hashfile`, `find_hash_in_standard_files`, `parse_hash_input` | operators of `SetupWizard` |
| Hashing | `hash.rs`, `ask_hash.rs` | digest, buffer, error | `GenericHashing::next`, `finalize`, `do_hashing` | `Hashing` |
| Compression | `compression.rs`, `compression/` | decoder, its window, blocks decoded | detection, `decompress`, `StreamingDecoder::read` | `ImageDecoding`; detection in `SetupWizard`; failures in `WriterProcess` |
| Byte series | `byteseries.rs` | datapoints | `push`, `find_idx_below`, `interp`, `speed`, the average and the time left | `ByteSeries` |
| Devices | `device.rs`, `native.rs` | none | `enumerate_devices`, `from_dev_name`, `from_normal_file`, `try_from` | operators of `SetupWizard` (IOKit left out) |
| Privilege escalation | `escalation/` | none | choice of the tool, quoting, wrapping | `Escalation`, used by `BurnSystem` |
| Terminal capture, panic hook | `ui/utils.rs`, `tty.rs`, `logging.rs` | raw mode, alternate screen | `TUICapture::new` and drop, `TermiosRestore`'s drop, the hook | `BurnSystem` |
| Entry, logging, state directory | `main.rs`, `logging.rs`, `util.rs` | none to speak of | `handle_toplevel_error` | `SetupWizard`, `BurnSession`; log files left out |

How they interact: the wizard hands `BeginParams` to the session by a call; the
session calls the facade, which talks to the daemons in frames through two pipes
each; a reader task per daemon feeds the demultiplexer, whose channels end in the
handles the UIs hold. The daemon's writer threads share its standard output. The
panic hook is the whole program's, whichever task panics.

What makes them hard:

* *Writer*: everything about partly filled buffers. The last buffer is offered
  whole, short writes are not looked at, the buffer the target is read into keeps
  what it held, block sizes and the end of the target interfere. It must be sound
  (no verified success on a bad target), precise (no alarm on a good one), durable
  (`FinishedWriting` only after the sync) and must keep to the protocol.
* *Facade*: early events race `start_herd` for the entry of the map; entries are
  removed while events are on their way; daemons and threads die. Every event must
  reach its own channel once and in order, and calls must return.
* *Framing*: frames are cut by the pipe and by death.
* *Session*: keys, timeouts and events in one `select!`; two attempts with
  different privileges. Root only with consent; the result shown is the herd's.
* *System*: what one part takes for granted of another. A reader task that panics
  changes the terminal under the UI; the program ends while a daemon, perhaps of
  root, goes on; a path of the program's file reaches a shell of root.
* *Wizard*: arguments, prompts, prompt failures, a world that changes meanwhile.
  No burn round the validation or the confirmation.
* *Decoding*: blocks, the decoder's window and the caller's buffer overlap in every
  way; nothing to give yet is not the end.
* *Bisection*, *hashing*: boundaries, and reads of any length.

`PROJECT.json` lists 40 hazards of this kind at their lines, with the properties that
cover them, or the reason why none does.

## 2. Modules

    HerdEvents -- WriterProtocol <= WriterProcess        MessageChannel <= IpcFraming
      |   |
      |   BurnSession <=---+                             Hashing <= ImageDecoding
      |                    |
      HerderFacade ---- BurnSystem <- MCBurnSystem       ByteSeries
                           |
                       Escalation                        SetupWizard <- MCSetupWizard

    proofs: WriterProcessProofs, IpcFramingProofs, ImageDecodingProofs,
            ByteSeriesProofs, SetupWizardProofs,
            BurnSessionProofs, HerderFacadeProofs -- BurnSystemProofs
                                            (<= is implemented by, <- is extended by)

The modules meet in three abstractions. `HerdEvents!WellFormed` is the language of a
herd's conversation: `HerderFacade` and `BurnSession` take any conversation of it for
their input, and that a writer thread speaks nothing else is proved (section 4).
`MessageChannel` is a pipe of whole messages: `IpcFraming` is proved to implement it
for one writing thread, and `HerderFacade` uses its pipes as such channels. `BurnSession`
is what the user sees of any facade: `BurnSystem`, where the facade is the real one, is
proved to implement it. `Hashing` is about any stream: the decoders of `ImageDecoding`
are proved to give one.

Operators preceded by the comment "A slip:" are not part of any specification. Each
is a variant of the definition that follows it with a plausible mistake in it; the
table of mutants in `PROJECT.json` names, for each property, a slip that makes TLC
find it violated.

**WriterProcess.** `pc` is where `run()` is. Bytes are grouped in *cells*, so that
buffer, block and checkpoint sizes are small numbers with the arithmetic of the
code: `BufSize` is `min(block * BufBlocks, MaxBufSize)`. `WriteBuffer` reads as
much as the source has (`try_read_exact`), offers the *whole* buffer to the target
and advances by whatever was taken, which the code ignores; `VerifyBuffer` reads the
target into a buffer that keeps its old content where the target ends. `Rewind`
truncates, or stretches, a file to the number of bytes read. The environment may
fail any system call (`IoFails`), make a decompressor fail its constructor, which
panics the thread (`Panic`), write less than it could, and lose one cell
(`MediaFault`). Both operating systems are instances of one model: macOS unmounts
and its flush does nothing. `Unmount` waits for `diskutil` before it reads its
output: one that prints more than a pipe holds is waited for for ever (`"waiting"`), and
a report that exceeds the limit of a message panics. Devices have a fixed capacity,
files grow up to one.

**WriterProtocol** is what a herd promises on the pipe, without buffers or disks.
`Phase` and `Reported` in `WriterProcess` are the refinement mapping.

**HerderFacade.** One `start_herd` at a time (it borrows the facade mutably), cut at
its awaits; two daemons, "std" and "esc"; an entry of `EventDemuxMap` is a sequence
and who holds its receiver. `Consume` is the UI taking an event and dropping its
handle when `WriterState` is finished. A daemon in `Mortal` may die with its
threads at any moment and its threads may panic one by one; the reader task then
panics too, and the map's senders stay. The ids of calls are used up by failures. A
call can also panic: in `spawn_herder`, when the path of the program's file cannot be had
or is not text (`facade.rs:178-180`), and when its request exceeds 1024 bytes
(`RequestFails`); its outcome is then `"panicked"`, and no call follows (`MayCall`).

**IpcFraming.** A token is a length or a unit of a body. `write_msg` is three
calls on a buffer that is locked per call; a flush holds the lock while the full pipe
blocks it; a newline may pass parts on early. A message over the limit panics its
thread.

**BurnSession.** `try_start_burn` with its refusals, then either UI. The facade is
the environment; `StreamEnded` is a stream that just ends, which the type of the
handle's stream allows, though the facade never does it (section 5). A byte series
is its last datapoint.

**Escalation** has no state: which tool is taken of those installed, how the command
becomes one line for a shell (`shell_words`), how each tool wraps it, and how a POSIX
shell splits it again (`ShellWords`): one character after the other, in one of the states
of its quoting (`ShellStep`), as the recursive function `Reading`.

**BurnSystem** composes them: `F` is `HerderFacade`, `S` is `BurnSession`, with the
session's `heard` and `handle` defined from the facade's variables; a call of
`start_herd` that returns and the session's reaction to it are one step. Added are
the terminal, the words a shell ran as root (`ran`), and what happens when the program has
ended: its daemons read the end of their input, or are killed, and their threads with them
(`DaemonQuits`). The terminal, `tty`, is in raw mode under the prompt for escalation and
captured under the fancy UI. `Dropped` is the drop of `TUICapture`, `Restored` that of the
`TermiosRestore` of `ui::main`, which puts back the modes alone and does nothing when
`/dev/tty` could not be opened; `PanicHook` is the hook; `HalfCaptured` and `TerminalGoes`
are a terminal that fails at the start and later on. Setting the modes itself is taken to
work, as the drops take it. Two actions are signals: `CtrlC`, which is one only out of raw
mode, and reaches the daemons too; and `IsKilled`, a SIGTERM, SIGHUP or SIGKILL at any
moment, for which the program has no handler, so that nothing is dropped or restored.

**SetupWizard.** One action per decision of the wizard; `PromptFails` is every way a
prompt can fail (Escape, Ctrl-C, no terminal). A hash is its length and what it is
of: the content, as read through a format; that is all that detection, parsing and
comparison tell apart. Hash files are sequences of lines of the kinds that
`parse_hashfile` tells apart. Around it, devices are replugged and the image is
rewritten or removed at any step; what a path names at a moment is `device.rs`: below
`/dev` and `/sys/class/block` the device of its last part, elsewhere a file. Where the
devices cannot be enumerated, the wizard panics (`Lists`). `answered` is a history variable:
whether the last answer to the question for a hash was a hash, or Escape or "skip".

**Hashing** is one step per `next()`, reads of every length included. **ImageDecoding**
extends it with the file behind the stream: frames of blocks, the window a decoder keeps, and
`StreamingDecoder::read` cut into its calls of the decoder; `Cells` adds up the blocks
of a frame. **ByteSeries** is one step per
turn of the bisection, with pushes between searches; the estimates are operators over
what it found.

## 3. Runs

| Run | Instance | What it shows |
|---|---|---|
| `writer` | images and targets up to 4 cells of 2 values, blocks of 1 and 2, buffers of 2 and 4, both systems, three kinds of target | see below |
| `facade` | 2 herds, 2 daemons, conversations of up to 4 events, "std" may die | order, completeness, no parked channel; herds are heard out on a daemon that lives |
| `session` | conversations of up to 6 events, counts and inputs up to 2 | escalation by consent, truthful result, when the display breaks down |
| `system` | 2 calls, 2 daemons that may die, conversations of up to 5 events, two names of the program's file, one full of quotes and blanks, every set of tools | implements the session; the terminal is restored, no key interrupts a writer, no writer outlives the program, the session concludes, root runs nothing but the daemon |
| `series` | 6 datapoints (times to 4, bytes to 1), every query | the bisection's result, progress, monotone interpolation, sane estimates |
| `framing` | 1 thread, 3 messages of 1 to 3 units, the largest over the limit, a pipe of 2 tokens | in step, nothing returned is lost, implements `MessageChannel` |
| `wizard` | 2 algorithms, 1 format besides identity, 2 devices; the command lines of `MCSetupWizard` | the gates of hash and confirmation, the right bytes, a target that was agreed to, an end without a terminal |
| `decoding` | 4 formats, files of 2 frames of up to 3 blocks, images to 6 cells, windows to 2, buffers of 2 | the readers give the stream that `Hashing` is of; digest of the whole stream or none |
| `writer_too_small`, `facade_disconnect`, `session_done` | small instances of the same modules | section 5 |

`writer` checks that a verified success means an intact target as far as the
target reaches (`VerificationIsSound`), exactly what can slip through beyond its
end (`OnlyRepeatsSlipThrough`), that healthy hardware gives no alarm
(`NoFalseAlarm`), that `EndOfOutput` is only said of targets that are too small,
that `FinishedWriting` is durable on Linux, that a verified file has the image's
length, that direct I/O stays aligned, that the thread implements `WriterProtocol`, and
that it ends, or waits for `diskutil`.

Three properties of `system` name their exceptions, because the code has them, and
are violated without them. `TerminalIsRestored` exempts a program that was killed
altogether: SIGTERM, SIGHUP and SIGKILL leave the terminal as it is, raw and on the alternate
screen under the fancy UI. Of a program that ends by itself or by Ctrl-C, it says
that raw mode is always lifted, and that the alternate screen is left behind by a
terminal that fails (`TUICapture::new` half way, or its drop), and by a Ctrl-C after
the panic of a reader task. `QuitIsSafe` has that same Ctrl-C for its exception. An attempt
to start does not conclude when the daemon it asked broke down (`SessionConcludes`).

Why the bounds are enough. *Writer*: with buffers of 2 and 4 cells, images of up to 4
cover the empty image, a part of a buffer, exactly one, one and a part, and two; the
checkpoint falls due after one and after two buffers; the target is shorter than,
equal to and longer than the image at every cell and, with blocks of 2, on block
boundaries only. All but the end of
the thread is also proved for every size.
*Facade*: two herds are the least that can be mixed up, on one daemon or on two; four
events reach beyond `FinishedWriting` both when the herd goes on and when the handle
was dropped there. *Session*: six events are the longest conversation without repeated
checkpoints (`InitSuccess`, `TotalBytes`, `FinishedWriting`, `TotalBytes`, `Success`)
and one more. *System*: `try_start_burn` calls twice at most; five events are a whole
conversation; each special character of a shell occurs in a name, alone and next to
another. *Series*: six datapoints take the loop through three halvings of either parity;
ties are included. *Framing*: every frame of the larger size exceeds the pipe, so each
cut of a frame occurs. *Wizard*: a hash can be of the right or the wrong view, length and
content; two device names can be exchanged. *Decoding*: blocks are empty, shorter than,
equal to and longer than the buffer, and the window holds back a buffer or less.

`CHECK_DEADLOCK FALSE` is set wherever the program stops by itself: all modules but
`ByteSeries`.

### Fairness

* `WriterProcess`: `WF_vars(Progress)`. The thread is scheduled by the operating
  system and its system calls return, with success or an error.
* `HerderFacade`: weak fairness of the call's own steps, of each reader task, of each
  daemon's loop, of each consumer (`select!` polls the stream) and of each writer
  thread, which is what `WriterEnds` provides. No fairness of a daemon's death,
  nor of `SpawnFails`.
* `BurnSystem`: `WF_vars(SystemStep)`, all of these steps together: as long as one
  of the program's tasks, daemons or writers has something to do, one of them does it.
  Their number is bounded in a burn, so no more is needed. Nothing is assumed of
  the user, of signals, or of what breaks, with one exception: the prompt of the tool that
  makes the daemon root (sudo's, for a password) is part of that daemon's start, and
  taken to be answered, or to end in a daemon that breaks down.
* `IpcFraming`: each thread and the reader task run.
* `SetupWizard`: the wizard's own steps, and a prompt without a terminal fails. What
  a user answers, and whether, is left open.
* `BurnSession`, `ImageDecoding`, `ByteSeries` state safety only; what has to happen
  in a session is stated of the system.

## 4. Proofs

TLAPS checks these for every value of the constants that meets the modules'
assumptions: sizes, bounds and numbers of herds are natural numbers, buffers, blocks
and pipes not empty (`WriterAssumption`, `SessionAssumption`, `FacadeAssumption`,
`SeriesAssumption`, `HashingAssumption`, `FramingAssumption`); a checkpoint is not shorter
than the largest buffer (`WriterAssumption`); a file has a frame, and its cells are
numbered (`DecodingAssumption`); command lines and hash inputs have the types that `clap`
and `parse_hash_input` give them, and the names of special cases are of no algorithm,
format or device (`WizardAssumption`); words are sequences of characters, and there are two
herds, as `try_start_burn` starts two at most (`SystemAssumption`).

Every invariant and action property and every refinement that a passing run checks is
stated by a theorem; liveness is not.

*WriterProcessProofs* (`TypeCorrect`, `VerificationSound`, `MissesOnlyRepeats`,
`EndOfOutputTrue`, `Durable`, `FileLength`). None of the properties is inductive:
they speak of the last event, and what it is worth was established many steps
before. `WriterInv` adds four parts. `Control` relates positions and results to
the control point: while the source is not exhausted the target is never ahead of
it, which is why running out of output means a target smaller than the image.
`Verifying` says what the verify loop knows after each turn: the first `srcPos` cells
agree where the target has them (`Agrees`), repeat one buffer earlier where it does
not (`Repeats`), and the disk buffer holds the previous buffer of the image
(`DiskBufIsPrevious`); the last is what makes `Repeats` inductive. `Reporting` ties
the final event to the result, `Durability` the flush to `FinishedWriting`. The
step is proved per action. `DiskBufIsPrevious` was found by asking what a
verification past the end of the target compares with; it turned the soundness
property into the exact description `OnlyRepeatsSlipThrough`.

Two more invariants of that module stand on `WriterInv`. For `NoFalseAlarms`, the
converse of soundness, `Intact` says that without a mishap the target holds the image as
far as it was written, in the write loop up to the position and after it altogether;
the verify loop, which reads what is intact, then finds no difference and no end. For
`AlignedWrites`, `Aligned` says that the write loop stands on a block's boundary as long
as no write was cut short. The theorem has a hypothesis that `WriterAssumption` does not
contain, `WholeBlocks`: the bound on the buffers is a whole number of blocks, as 1 MiB
is of every power of two up to it. Without it the last buffer that fits the bound
is not aligned.

The module ends with the refinement. `ConversationsAreWellFormed`: in a herd that keeps to
`WriterProtocol`, an event sent in a phase continues a well-formed conversation, given what
the phase says of the events so far. `WriterImplementsProtocol` maps every step of the
thread to a step of the protocol or to none, under `WriterInv`;
`WriterSpeaksWellFormed` puts the two together.

*BurnSessionProofs* (`SessionTypeCorrect`, `ConsentedEscalation`, `TruthfulResult`,
`BreakdownsAreOfNothing`). `Asking` says what the prompt presupposes. `Tracking` ties the
state on the screen to the last event heard: a handle is held exactly while nothing heard
settles the result, the total is what was written once writing is over, and a state that
verifies has heard `FinishedWriting`, of which a well-formed conversation has one only, so
that no second event can overwrite the result.

*HerderFacadeProofs* (`FacadeTypeCorrect`, `NobodyParked`, `EventsConveyed`). `Calls` says who may hold a
channel at which point of a call, `Requests` and `Hosts` that a herd is asked for
once, of one daemon, and speaks through that one. `Streams` is about the order of what is
on its way: no event in a channel or a pipe comes after a final one (`Ordered`,
with what `MayFollow` proves of well-formed conversations), the first of them is the first
that was sent (`Begins`, hence the first event of a call is `InitSuccess` or an error), and
once a handle was dropped at most a final event is to come (`Settled`). The last is why
`handle_event`, which removes the entry at the first event nobody wants, never meets
a later event that would make a new entry. For `EventsConveyed`, `ConversationInv` is the invariant of the facade,
the property itself, and `Talks`: that each writer keeps to the language. `NothingLostOrReordered` is stated by positions (`Conveys`): what
was received or is queued is the beginning of what was sent, the pipe holds as many messages
of the herd as are missing, and the n-th of them is the n-th missing one. A filter of
the pipe would say the same, but nothing can be proved of `SelectSeq`; of the cardinalities,
what taking the first message or appending one makes of them can.

*SetupWizardProofs* (`NothingUnchecked`, `RightBytesChecked`, `AgreedTarget`,
`WizardTypeCorrect`). `Hashes` says
that there is no hash to check before one is asked for, one at most after, and that
whoever is past the validation has had it checked or may go without, which takes
`--hash skip`, or a user whose last answer was Escape or "skip", and no hash file; `Views`
which view and format belong together; `Choices` what the list on the screen and
the target have to do with each other. Nothing but types is assumed of command lines,
devices and contents: the theorems hold whatever changes around the wizard.
`WizardTypeCorrect` adds the types: above all, the compression is known once the hash is
asked for.

*ByteSeriesProofs* (`IndicesAreInBounds`, `BisectionIsCorrect`, `InterpStaysInside`,
`DivisionIsDefined`, `LoopMakesProgress`, `SaneEstimates`). `SeriesInv` is `TypeOK`, sorted
times and the bracket: in the loop `time[min] <= query < time[max]` with `min < max`. The
speeds take two values of `interp` apart, so that they are never negative only if `interp`,
as a function of time, never falls: between two samples, across one, before the first and
after the last.

*ImageDecodingProofs* (`HashingTypeCorrect`, `DigestIsOfTheStream`, from `HashingAssumption`
alone; `DecodingTypeCorrect`, `DecodersImplementHashing`, `DigestIsOfTheImage`). `HashingInv`:
the digest was fed the prefix of the stream that was read, and an `Ok` is only returned
at its end. `DecodingInv`: what `StreamingDecoder` holds is what it has decoded less
what it has given, so that it never gives too much and a read of nothing is the end of the
frame. `Cells` is monotone, by induction over the blocks, hence every account is of natural
numbers. That a digest is of the whole image follows from the refinement.

*IpcFramingProofs* (`FramingTypeCorrect`, `FramesImplementChannel`). `FramingInv` is about the
tokens on their way, in the buffer or in the pipe, wherever they are cut: each `Follows` from
the one before, the first is `Expected` by the reader, in the state it is in, and the last
is where `write_msg` stands (`Ends`). `InFlight` is the refinement mapping: a message is on
its way from the moment its last unit is written until it is read; that `Messages`
of two parts is the messages of the first and of the second is proved by induction over
sequences of tokens. Both theorems have the hypothesis `OneWriter`, at most one writer
thread in the daemon, as today's UI has it; with two they are false (section 5).

*BurnSystemProofs* (`SystemTypeCorrect`, `SystemImplementsSession`, `TerminalRestored`,
`NoKeyInterrupts`, `OnlyTheDaemonIsRoot`). The module instantiates the proofs of the facade and
of the session. `SystemInv` adds to their invariants how the two belong together: which
attempt of the session is which call of the facade and of which daemon, that at most one
herd was started and the session's handle is its channel, and in which modes the terminal is
at which control point of the session and after which end of it (`Screen`): a terminal that is
captured is out of raw mode only after the panic of a reader task.
`SystemImplementsSession` maps each step to one of the session: an event consumed by the
UI is one that continues a well-formed conversation, which is what the facade's invariant
promises of a channel. `QuotingIsUndone` says that `ShellWords` undoes `CommandLine`:
quoting a word takes the shell's reading from blank to blank with that word read, by
induction over its characters, and then over the words. `OnlyTheDaemonIsRoot` follows for every
tool and file name.

The induction theorems of the library take operators and cannot be used. Three modules
prove induction over the naturals instead from the least element of a set (`Least`,
from `WFMin`), and induction over sequences from that; it serves recursion written as a
recursive function. Two definitions could not be proved about as they were, and rightly: the
guards of a `CASE` overlapped, of which TLC takes the first and the logic either, in
`OpensUi` of `BurnSystem` and in the reading of a shell within quotes. Both are
disjoint now.

Only model-checked: liveness, for which fairness is out of the prover's reach
(`WriterEnds`, `HerdsAreHeardOut`, `SessionConcludes`, `WritersStopWithProgram`,
`ReturnedIsDelivered`, `HeadlessEnds`), and the three runs of section 5, which show
counterexamples.

## 5. Where code and text disagree

Three runs end in a counterexample, each to a sentence of the repository:

* `writer_too_small`: an image larger than its target can be written *and verified*
  when the part that does not fit repeats the buffer before it. The write of the
  last buffer is short, which nobody looks at, and the verification compares with
  what is left in its buffer.
* `facade_disconnect`: `start_herd` waits for ever when its daemon, or the herd's
  thread, dies before the first event. The error for it ("Unexpectedly
  disconnected from writer") needs the channel to be closed, and its sender
  stays in the map.
* `session_done`: the simple UI says "Done!" and succeeds after a failed burn.

Also met while modelling, without a run of their own:

* an empty image, or a writer that fails at once, makes the ratio of the progress
  bar 0/0, which `clamp` passes on and the gauge panics about (`widgets.rs:189-195`;
  `BreaksOnlyOnNothing` says that nothing else does);
* a hash of unknown length in `--hash-file` ends in a panic, since the signal to
  ask again is raised outside of the loop that catches it (`ask_hash.rs:150`);
* the panic of a reader task takes the terminal out of raw mode under the UI
  (`logging.rs:57`), after which Ctrl-C kills the program instead of asking;
* nothing handles a signal: a program killed by one under the fancy UI leaves the terminal
  raw and on the alternate screen (`ui/utils.rs:36-43` is a drop, which is not run then);
* what follows the first frame of a zstd file, or the first member of a gzip or bzip2 file,
  is neither hashed nor written nor verified, in silence; `zstd_streaming_decoder.rs:40-46`
  says of its reader that it expects one frame, nothing says so to the user;
* `--interactive never` is not consulted by the wizard, and a hash typed at the
  prompt is asked about again although `--hash-of` was given;
* `--out` with a path below `/dev` or `/sys/class/block` is looked up by its last part
  alone, so that `/dev/disk/x/sda` means `/dev/sda` (`device.rs:228-230`);
* `MacOSDenial` is what a missing `osascript` comes to, not declining on macOS, and the message of
  `UnixNotDetected` leaves out `run0` (`escalation/mod.rs:15`);
* two herds on one daemon could interleave the three calls of `write_msg`
  (`IpcFraming` with two threads shows it), which today's UI, with one herd per daemon,
  never does;
* the simple UI scales the position of its bar and its length differently.

## 6. Plan

Done: the modules above, in the order writer, protocol, facade, session, framing, wizard,
series, hashing, then decoders, estimates, devices, escalation, and the composed
system with the terminal; the most important behaviour, what is written and what is said
of it, first. Every component with state of its own has a module.

Every safety property that a run checks is proved. What is left to be done: an invariant of
the framing for several writer threads once `write_msg` holds a lock over its three
calls, which it does not today; the exact condition under which `HerdsAreHeardOut` holds
of a daemon that may die.

## 7. Not modelled

The digests, decoders and the encoding of messages themselves, and what the xz and lz4
libraries make of data behind a first stream (external libraries); layout, wording and
formatting; reading `/sys` and IOKit; log files and the directory they are in; the parsing
of the command line. `TargetIsAgreedTo` judges the record of a device that was made when it was
listed, or named on the command line, never what is attached when the burn begins: the model
does not relate the device the user confirmed to the one the writer opens by name later, nor
the image that was hashed to the image written. The code does not either, and both are
listed as hazards without a property.
