----------------------------- MODULE SetupWizard -----------------------------
(***************************************************************************)
(* What happens before a herd exists: do_setup_wizard (ui/simple_ui/mod.rs) *)
(* with ask_compression, ask_hash, ask_outfile and confirm_write, the hash  *)
(* files it looks into (hashfile.rs), the hashes it parses (hash.rs), the    *)
(* devices it lists (device.rs), and the way its errors leave the program   *)
(* (main.rs).                                                               *)
(*                                                                          *)
(* The wizard is one thread that waits for a user; around it devices come   *)
(* and go and the image may be written to by somebody else.  Arguments are  *)
(* chosen once.  An optional value is a set of at most one element.  A hash *)
(* is known by its length, which is that of at most one algorithm, and by   *)
(* the bytes it is of: those of the image's content as a format reads it.   *)
(***************************************************************************)
EXTENDS Naturals, Sequences, FiniteSets

CONSTANTS
    Alg,            \* the hash algorithms (HashAlg), each with a length of its own
    Format,         \* the compression formats other than Identity
    Content,        \* what the image file may hold
    Undecodable,    \* contents that no decompressor accepts
    Device,         \* names under which block devices are attached
    Inputs,         \* the hashes typed or given on the command line
    Arguments,      \* the command lines the wizard is tried with
    Plug            \* what may be attached under a name, "absent" for nothing that
                    \* can be read

Formats == Format \cup {"Identity"}

Hash == [length : Alg \cup {"odd"}, format : Formats, content : Content]

\* A line of a hash file: about another file, not to be read, or a hash.
HashLine == [kind : {"other", "malformed", "undecodable"}]
                \cup [kind : {"entry"}, hash : Hash]

\* BurnArgs, and what the paths in it lead to: the format the image's extension
\* stands for, the lines of --hash-file and of the standard files, the terminal.
BurnArgs == [extension : Formats \cup {"unknown"},
             compression : Format \cup {"ask", "auto", "none"},
             hash : {"ask", "skip", "given"},
             input : Inputs,
             hashFile : SUBSET Seq(HashLine),
             standard : Seq([alg : Alg, lines : Seq(HashLine)]),
             hashOf : {"none", "raw", "compressed"},
             out : SUBSET [under : {"/dev", "/sys/class/block", "elsewhere"},
                           name : Device \cup {"none"}],
             showAll : BOOLEAN,
             interactive : {"auto", "always", "never"},
             force : BOOLEAN,
             tty : BOOLEAN]

ASSUME WizardAssumption ==
    /\ {"odd", "none", "unknown"} \cap Alg = {}
    /\ {"Identity", "unknown", "ask", "auto", "none"} \cap Format = {}
    /\ Undecodable \subseteq Content /\ "missing" \notin Content
    /\ Inputs \subseteq [prefix : Alg \cup {"none", "unknown"}, hash : Hash]
    /\ Arguments \subseteq BurnArgs
    /\ "none" \notin Device
    /\ Plug \subseteq {"absent", "removable", "fixed", "partition"}

VARIABLES
    args,           \* BurnArgs, with what is known of the paths in it
    image,          \* what the image file holds now
    attached,       \* per device name: what is attached under it now
    pc,             \* where the wizard is, or how it ended
    compression,    \* ask_compression's result
    params,         \* BeginHashParams as far as they are known
    answered,       \* what the user last typed when asked for the hash
    checked,        \* the validation that succeeded
    showAll,        \* ask_outfile's show_all_disks
    options,        \* the devices in the list on the screen
    target,         \* the WriteTarget
    confirmed       \* what the user said yes to in confirm_write

vars == <<args, image, attached, pc, compression, params, answered, checked, showAll,
          options, target, confirmed>>

world == <<args, image, attached>>
picking == <<showAll, options>>

Ends == {"burn", "declined", "cancelled", "refused", "panicked"}

-----------------------------------------------------------------------------
(* Hashes and the files they are looked up in                                *)

\* HashAlg::detect_from_length
DetectFromLength(h) == {h.length} \cap Alg

\* parse_hash_input: the algorithms the input can be of, none for an error.
ParseHashInput(i) ==
    IF i.prefix = "none" THEN DetectFromLength(i.hash)
    ELSE {i.prefix} \cap DetectFromLength(i.hash)

\* parse_hashfile: the first line that is not about another file decides; a
\* malformed line or a hash that is not base 16 is an error, which the callers
\* treat like a file without the hash.
ParseHashFile(lines) ==
    LET decides == {i \in DOMAIN lines : /\ lines[i].kind # "other"
                                         /\ \A j \in 1..(i - 1) : lines[j].kind = "other"}
    IN  {lines[i].hash : i \in {i \in decides : lines[i].kind = "entry"}}

\* find_hash_in_standard_files: the files whose names stand for an algorithm,
\* in the order of HASH_FILES and HASH_EXTENSIONS; the first with a hash wins.
FindInStandardFiles(files) ==
    LET has(i) == ParseHashFile(files[i].lines) # {}
        wins == {i \in DOMAIN files : has(i) /\ \A j \in 1..(i - 1) : ~ has(j)}
    IN  UNION {{[alg |-> files[i].alg, expected |-> h] : h \in ParseHashFile(files[i].lines)} :
                   i \in wins}

Digest(alg, format, content) == [length |-> alg, format |-> format, content |-> content]

\* do_hashing gets to the end of the image with this decompressor.
Readable(format, content) ==
    content # "missing" /\ (format = "Identity" \/ content \notin Undecodable)

-----------------------------------------------------------------------------

Init ==
    /\ args \in Arguments
    /\ image \in Content
    /\ attached \in [Device -> Plug]
    /\ pc = "compression"
    /\ compression = "unknown"
    /\ params = {}
    /\ answered = "nothing"
    /\ checked = {}
    /\ showAll = args.showAll
    /\ options = {}
    /\ target = {}
    /\ confirmed = {}

\* What ask_compression finds before it asks.
Detected ==
    CASE args.compression \in {"ask", "auto"} -> args.extension
      [] args.compression = "none" -> "Identity"
      [] OTHER -> args.compression

AsksCompression ==
    /\ pc = "compression"
    /\ ~ args.force
    /\ args.compression = "ask" \/ Detected = "unknown"

\* Where --hash-of, or the loop that does not pass it on, leaves the question.
AsksHashOf ==
    /\ pc = "hash_of"
    /\ compression # "Identity"
    /\ \A p \in params : p.typed \/ args.hashOf = "none"

\* The program waits for an answer of the user.
Prompting ==
    \/ AsksCompression
    \/ pc \in {"use_standard", "hash_text", "list"}
    \/ AsksHashOf
    \/ pc = "confirm" /\ ~ args.force

Go(place) == pc' = place

-----------------------------------------------------------------------------
(* ask_compression                                                           *)

\* A slip: --force does not keep the program from asking nor from failing.
TakeCompressionUnforced ==
    /\ pc = "compression"
    /\ ~ AsksCompression
    /\ compression' = Detected
    /\ Go("hash")
    /\ UNCHANGED <<world, params, answered, checked, picking, target, confirmed>>

TakeCompression ==
    /\ pc = "compression"
    /\ ~ AsksCompression
    /\ compression' = IF Detected = "unknown" THEN "Identity" ELSE Detected
    /\ Go("hash")
    /\ UNCHANGED <<world, params, answered, checked, picking, target, confirmed>>

\* "Is this okay?", where "no" is the error OperationCanceled.
ConfirmCompression ==
    /\ AsksCompression /\ args.tty
    /\ Detected # "unknown"
    /\ \/ compression' = Detected /\ Go("hash")
       \/ Go("cancelled") /\ UNCHANGED compression
    /\ UNCHANGED <<world, params, answered, checked, picking, target, confirmed>>

SelectCompression ==
    /\ AsksCompression /\ args.tty
    /\ Detected = "unknown"
    /\ compression' \in Formats
    /\ Go("hash")
    /\ UNCHANGED <<world, params, answered, checked, picking, target, confirmed>>

-----------------------------------------------------------------------------
(* ask_hash                                                                  *)

Expect(h, alg, typed) ==
    params' = {[expected |-> h, alg |-> alg, typed |-> typed, view |-> "none",
                format |-> "unknown"]}

\* --hash-file: no hash in it is the end; one whose length is no algorithm's
\* makes ask_alg signal AskAgain, and there is no loop here to catch it.
UseHashFile ==
    /\ pc = "hash"
    /\ args.hashFile # {}
    /\ LET found == UNION {ParseHashFile(f) : f \in args.hashFile}
       IN  \/ found = {} /\ Go("refused") /\ UNCHANGED params
           \/ \E h \in found :
                 \/ /\ DetectFromLength(h) = {}
                    /\ Go("panicked")
                    /\ UNCHANGED params
                 \/ \E alg \in DetectFromLength(h) : Expect(h, alg, FALSE) /\ Go("hash_of")
    /\ UNCHANGED <<world, compression, answered, checked, picking, target, confirmed>>

SkipHash ==
    /\ pc = "hash"
    /\ args.hashFile = {} /\ args.hash = "skip"
    /\ Go("target")
    /\ UNCHANGED <<world, compression, params, answered, checked, picking, target, confirmed>>

UseHashArg ==
    /\ pc = "hash"
    /\ args.hashFile = {} /\ args.hash = "given"
    /\ \E alg \in ParseHashInput(args.input) : Expect(args.input.hash, alg, FALSE)
    /\ Go("hash_of")
    /\ UNCHANGED <<world, compression, answered, checked, picking, target, confirmed>>

LookForHashFiles ==
    /\ pc = "hash"
    /\ args.hashFile = {} /\ args.hash = "ask"
    /\ Go(IF FindInStandardFiles(args.standard) = {} THEN "hash_text" ELSE "use_standard")
    /\ UNCHANGED <<world, compression, params, answered, checked, picking, target, confirmed>>

AnswerUseStandard ==
    /\ pc = "use_standard" /\ args.tty
    /\ \/ \E f \in FindInStandardFiles(args.standard) :
              Expect(f.expected, f.alg, FALSE) /\ Go("hash_of")
       \/ Go("hash_text") /\ UNCHANGED params
    /\ UNCHANGED <<world, compression, answered, checked, picking, target, confirmed>>

\* ask_hash_once was given a hash that parse_hash_input understands.
Understood(i) ==
    /\ \E alg \in ParseHashInput(i) : Expect(i.hash, alg, TRUE)
    /\ Go("hash_of")

\* A slip: a hash that is not understood is taken for "skip".
TypeHashDropped ==
    /\ pc = "hash_text" /\ args.tty
    /\ \/ /\ answered' = "hash"
          /\ \E i \in Inputs :
                IF ParseHashInput(i) = {} THEN Go("target") /\ UNCHANGED params ELSE Understood(i)
       \/ answered' = "skip" /\ Go("target") /\ UNCHANGED params
    /\ UNCHANGED <<world, compression, checked, picking, target, confirmed>>

\* One turn of ask_hash_loop: a hash, which is asked for again when it is not
\* understood, or Escape and "skip", which give up the validation.  Declining to
\* say which algorithm it is asks again too, and changes nothing.
TypeHash ==
    /\ pc = "hash_text" /\ args.tty
    /\ \/ /\ answered' = "hash"
          /\ \E i \in Inputs :
                IF ParseHashInput(i) = {} THEN UNCHANGED <<pc, params>> ELSE Understood(i)
       \/ answered' = "skip" /\ Go("target") /\ UNCHANGED params
    /\ UNCHANGED <<world, compression, checked, picking, target, confirmed>>

\* A slip: the two kinds of hash are mixed up.
HasherCompressionSwapped(view) == IF view = "compressed" THEN compression ELSE "Identity"

\* ask_hasher_compression
HasherCompression(view) == IF view = "raw" THEN compression ELSE "Identity"

TakeHashOf ==
    /\ pc = "hash_of"
    /\ ~ AsksHashOf
    /\ params' = {[p EXCEPT !.view = args.hashOf,
                            !.format = IF compression = "Identity" THEN "Identity"
                                       ELSE HasherCompression(args.hashOf)] : p \in params}
    /\ Go("hashing")
    /\ UNCHANGED <<world, compression, answered, checked, picking, target, confirmed>>

AnswerHashOf ==
    /\ AsksHashOf /\ args.tty
    /\ \E view \in {"raw", "compressed"} :
          params' = {[p EXCEPT !.view = view, !.format = HasherCompression(view)] :
                         p \in params}
    /\ Go("hashing")
    /\ UNCHANGED <<world, compression, answered, checked, picking, target, confirmed>>

\* do_hashing and the comparison: the program ends unless they agree.
HashImage ==
    /\ pc = "hashing"
    /\ \E p \in params :
          \/ /\ Readable(p.format, image)
             /\ IF Digest(p.alg, p.format, image) = p.expected
                THEN checked' = {p} /\ Go("target")
                ELSE Go("refused") /\ UNCHANGED checked
          \/ Go("panicked") /\ UNCHANGED checked     \* an I/O error, a bad archive
    /\ UNCHANGED <<world, compression, params, answered, picking, target, confirmed>>

-----------------------------------------------------------------------------
(* ask_outfile and --out                                                     *)

\* WriteTarget::from_dev_name: a name without a node, or with a file in /sys that
\* cannot be read, is an error; only a partition has no removable flag of its own.
FromDevName(d) ==
    LET found(removable, type) == {[name |-> d, removable |-> removable, type |-> type]}
    IN  CASE attached[d] = "absent"    -> {}
          [] attached[d] = "partition" -> found("unknown", "Partition")
          [] OTHER                     -> found(attached[d], "Disk")

FromNormalFile(name) == [name |-> name, removable |-> "unknown", type |-> "File"]

\* WriteTarget::try_from: below /dev and /sys/class/block the last part of the path
\* is a device's name, whatever is before it; a path that ends in ".." has none.
TryFrom(path) ==
    IF path.under # "elsewhere" /\ path.name # "none"
    THEN FromDevName(path.name)
    ELSE {FromNormalFile(path.name)}

\* enumerate_devices: those that give an error are left out.
EnumerateDevices == UNION {FromDevName(d) : d \in Device}

\* enumerate_options
Listing(all) == {t \in EnumerateDevices : all \/ t.removable = "removable"}

\* A turn of ask_outfile's loop: enumerate_devices panics without /sys/class/block.
Lists(all) ==
    \/ options' = Listing(all) /\ Go("list")
    \/ Go("panicked") /\ UNCHANGED options

\* --out
UseOut ==
    /\ pc = "target"
    /\ args.out # {}
    /\ target' = UNION {TryFrom(path) : path \in args.out}
    /\ Go(IF target' = {} THEN "panicked" ELSE "params")
    /\ UNCHANGED <<world, compression, params, answered, checked, picking, confirmed>>

ShowList ==
    /\ pc = "target"
    /\ args.out = {}
    /\ Lists(showAll)
    /\ UNCHANGED <<world, compression, params, answered, checked, showAll, target, confirmed>>

SelectDevice ==
    /\ pc = "list" /\ args.tty
    /\ \E d \in options : target' = {d}
    /\ Go("params")
    /\ UNCHANGED <<world, compression, params, answered, checked, picking, confirmed>>

SelectRefresh ==
    /\ pc = "list" /\ args.tty
    /\ Lists(showAll)
    /\ UNCHANGED <<world, compression, params, answered, checked, showAll, target, confirmed>>

\* A slip: the list is made before the switch.
SelectShowAllLate ==
    /\ pc = "list" /\ args.tty
    /\ Lists(showAll)
    /\ showAll' = ~ showAll
    /\ UNCHANGED <<world, compression, params, answered, checked, target, confirmed>>

\* RetryWithShowAll and the next turn of the loop.
SelectShowAll ==
    /\ pc = "list" /\ args.tty
    /\ showAll' = ~ showAll
    /\ Lists(~ showAll)
    /\ UNCHANGED <<world, compression, params, answered, checked, target, confirmed>>

\* BeginParams::new opens the image once more, for its size.
MakeParams ==
    /\ pc = "params"
    /\ Go(IF image = "missing" THEN "panicked" ELSE "confirm")
    /\ UNCHANGED <<world, compression, params, answered, checked, picking, target, confirmed>>

-----------------------------------------------------------------------------
(* confirm_write, and the prompts that are not answered                      *)

SkipConfirm ==
    /\ pc = "confirm"
    /\ args.force
    /\ Go("burn")
    /\ UNCHANGED <<world, compression, params, answered, checked, picking, target, confirmed>>

ConfirmWrite ==
    /\ pc = "confirm" /\ args.tty
    /\ ~ args.force
    /\ \/ confirmed' = target /\ Go("burn")
       \/ UNCHANGED confirmed /\ Go("declined")
    /\ UNCHANGED <<world, compression, params, answered, checked, picking, target>>

\* A slip: ask_hash_loop takes every error for "ask again".
PromptFailsRetried ==
    /\ Prompting
    /\ Go(IF pc = "hash_text" THEN pc ELSE "cancelled")
    /\ UNCHANGED <<world, compression, params, answered, checked, picking, target, confirmed>>

\* Escape, Ctrl-C, or no terminal to ask on (inquire): an InquireError, which no
\* loop takes for Recoverable and handle_toplevel_error prints.  Escape at the
\* hash is an answer (TypeHash).
PromptFails ==
    /\ Prompting
    /\ Go("cancelled")
    /\ UNCHANGED <<world, compression, params, answered, checked, picking, target, confirmed>>

-----------------------------------------------------------------------------
(* The world                                                                 *)

\* A device is plugged in, pulled out, or replaced under its name.
Replug ==
    /\ pc \notin Ends
    /\ \E d \in Device, what \in Plug : attached' = [attached EXCEPT ![d] = what]
    /\ UNCHANGED <<args, image, pc, compression, params, answered, checked, picking, target,
                   confirmed>>

\* Somebody writes to the image, or moves it away.
RewriteImage ==
    /\ pc \notin Ends
    /\ image' \in Content \cup {"missing"}
    /\ UNCHANGED <<args, attached, pc, compression, params, answered, checked, picking, target,
                   confirmed>>

-----------------------------------------------------------------------------

Step ==
    \/ TakeCompression \/ UseHashFile \/ SkipHash \/ UseHashArg \/ LookForHashFiles
    \/ TakeHashOf \/ HashImage \/ UseOut \/ ShowList \/ MakeParams \/ SkipConfirm

Answer ==
    \/ ConfirmCompression \/ SelectCompression \/ AnswerUseStandard \/ TypeHash
    \/ AnswerHashOf \/ SelectDevice \/ SelectRefresh \/ SelectShowAll \/ ConfirmWrite

Next == Step \/ Answer \/ PromptFails \/ Replug \/ RewriteImage

Spec == Init /\ [][Next]_vars

\* The program goes on by itself, and a prompt comes back in some way; which
\* answers a user gives is left open.
FairSpec == Spec /\ WF_vars(Step) /\ WF_vars(PromptFails /\ ~ args.tty)

-----------------------------------------------------------------------------
(* Properties                                                                *)

Target == [name : Device \cup {"none"}, removable : {"removable", "fixed", "unknown"},
           type : {"Disk", "Partition", "File"}]

\* Every variable has its type, the format is known once the hash is asked for,
\* and a hash to check always comes with an algorithm of its length or one a
\* standard file's name stands for.
TypeOK ==
    /\ args \in Arguments
    /\ image \in Content \cup {"missing"}
    /\ attached \in [Device -> Plug]
    /\ pc \in Ends \cup {"compression", "hash", "use_standard", "hash_text", "hash_of",
                         "hashing", "target", "list", "params", "confirm"}
    /\ compression \in Formats \cup {"unknown"}
    /\ pc \notin {"compression", "cancelled"} => compression # "unknown"
    /\ \A p \in params :
          p \in [expected : Hash, alg : Alg, typed : BOOLEAN,
                 view : {"none", "raw", "compressed"}, format : Formats \cup {"unknown"}]
    /\ Cardinality(params) <= 1
    /\ answered \in {"nothing", "hash", "skip"}
    /\ checked \subseteq params
    /\ showAll \in BOOLEAN
    /\ options \subseteq Target
    /\ target \subseteq Target
    /\ confirmed \subseteq target

(* "Validating your input file against a hash before burning": the wizard    *)
(* gets to the burn only past a hash that agreed, unless the command line     *)
(* asks for none, with neither a hash nor a hash file, or Escape or "skip"    *)
(* was the user's last word when asked for one.  Neither --force nor a broken *)
(* hash file, a hash nobody understands or a file that was found and declined *)
(* opens another way.                                                        *)
HashGate ==
    pc = "burn" =>
        /\ checked = params
        /\ checked = {} => args.hashFile = {} /\ (args.hash = "skip" \/ answered = "skip")

(* What the check was of is what it was said to be of: a hash of the raw      *)
(* image is checked through the very format the burn will read it with, one   *)
(* of the compressed image on the bytes of the file.                          *)
ChecksTheRightBytes ==
    \A p \in checked :
        /\ p.view = "raw" => p.format = compression
        /\ p.view = "compressed" => p.format = "Identity"
        /\ p.view = "none" => compression = "Identity"

(* A disk that did not say it was removable is burnt only if the user named   *)
(* it, or picked it from a list headed "Showing all disks", through every     *)
(* refresh, switch of the list and change of what is plugged in.              *)
FixedDisksAreSetApart ==
    \A t \in target :
        (args.out = {} /\ t.removable # "removable") => showAll

(* Without --force nothing is burnt but what the user said yes to.            *)
BurnIsConfirmed == (pc = "burn" /\ ~ args.force) => confirmed = target /\ target # {}

(* What is burnt is what the user chose knowing what it was when it was       *)
(* listed or named.  That it still is that when it is opened is nowhere       *)
(* looked at again, in the code or here.                                     *)
TargetIsAgreedTo == FixedDisksAreSetApart /\ BurnIsConfirmed

(* Without a terminal the wizard ends, whatever it would have liked to ask:   *)
(* no loop takes a prompt that cannot be answered for one to repeat.          *)
HeadlessEnds == ~ args.tty ~> pc \in Ends

=============================================================================
