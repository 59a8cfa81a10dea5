------------------------------ MODULE Escalation ------------------------------
(***************************************************************************)
(* How a command comes to run as root (escalation/unix.rs, mod.rs): which   *)
(* tool is taken, how the command becomes one line for a shell, and what    *)
(* that shell makes of the line.  No state: BurnSystem spawns its second     *)
(* daemon through it.                                                       *)
(*                                                                          *)
(* A word is a sequence of characters, a line one of words with blanks       *)
(* between them; of the characters only those with a meaning to the shell    *)
(* are told apart, any other is "x".                                        *)
(***************************************************************************)
EXTENDS Sequences, SequencesExt

Char == {"x", " ", "'", "\\"}

Tool == {"sudo", "doas", "run0", "su"}

\* EscalationMethod::ALL: the first that is installed is used.
All == <<"sudo", "doas", "run0", "su">>

Detect(installed) == Head(SelectSeq(All, LAMBDA t : t \in installed))

-----------------------------------------------------------------------------
(* shell_words::quote and join                                               *)

IsPlain(word) == word # <<>> /\ \A i \in DOMAIN word : word[i] = "x"

\* A word that is not plain goes between quotes; a quote in it is put behind a
\* backslash, outside of them.
Escape(c) == IF c = "'" THEN <<"'", "\\", "'", "'">> ELSE <<c>>

\* A slip: blanks are taken care of, quotes are not.
QuoteBlanks(word) == IF IsPlain(word) THEN word ELSE <<"'">> \o word \o <<"'">>

Quote(word) ==
    IF IsPlain(word) THEN word
    ELSE <<"'">> \o FlattenSeq([i \in DOMAIN word |-> Escape(word[i])]) \o <<"'">>

\* Command: Display.  No caller sets the environment.
CommandLine(cmd) ==
    FlattenSeq([i \in DOMAIN cmd |->
                  IF i = 1 THEN Quote(cmd[i]) ELSE <<" ">> \o Quote(cmd[i])])

-----------------------------------------------------------------------------
(* wrap_command, and what the tools make of it                               *)

\* Every tool is given a shell to run the line; su by the last of its two -c.
Wrap(tool, cmd) ==
    [args |-> IF tool = "su" THEN <<"su", "root", "-c", "sh", "-c">> ELSE <<tool, "sh", "-c">>,
     line |-> CommandLine(cmd)]

\* How a POSIX shell splits a line: the words so far, the word it is in, if any,
\* and whether the next character is behind a quote or a backslash.
Between(words) == [words |-> words, open |-> FALSE, word |-> <<>>, mode |-> "bare"]

Take(s, c) ==
    [s EXCEPT !.open = TRUE, !.word = Append(@, c),
              !.mode = IF @ = "escaped" THEN "bare" ELSE @]

Close(s) == IF s.open THEN Between(Append(s.words, s.word)) ELSE s

ShellStep(s, c) ==
    IF s.mode = "escaped" \/ (s.mode = "quoted" /\ c # "'") THEN Take(s, c)
    ELSE CASE c = "'"  -> [s EXCEPT !.open = TRUE,
                                    !.mode = IF @ = "quoted" THEN "bare" ELSE "quoted"]
           [] c = "\\" -> [s EXCEPT !.open = TRUE, !.mode = "escaped"]
           [] c = " "  -> Close(s)
           [] OTHER    -> Take(s, c)

\* Where a line takes the shell that was at s.
Reading(s, line) ==
    LET at[n \in 0 .. Len(line)] == IF n = 0 THEN s ELSE ShellStep(at[n - 1], line[n])
    IN  at[Len(line)]

ShellWords(line) == Close(Reading(Between(<<>>), line)).words

\* run_escalate.  On macOS it is always sudo, after up to three attempts to
\* authenticate by other means, whose outcome does not matter.
RunAsRoot(installed, cmd) ==
    LET wrapped == Wrap(Detect(installed), cmd)
    IN  IF Last(wrapped.args) = "-c" THEN ShellWords(wrapped.line) ELSE <<>>

=============================================================================
