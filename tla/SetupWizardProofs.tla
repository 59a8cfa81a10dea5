-------------------------- MODULE SetupWizardProofs ---------------------------
(***************************************************************************)
(* Proofs about SetupWizard, for every command line, set of devices, hash   *)
(* file and content of the image: whatever the user answers and the world   *)
(* does meanwhile, nothing is burnt round the validation or the             *)
(* confirmation.  WizardInv says what is known at each point of the wizard:  *)
(* of the hash (Hashes), of what it is taken of (Views), and of the target    *)
(* (Choices).                                                               *)
(***************************************************************************)
EXTENDS SetupWizard, FiniteSetTheorems, TLAPS

\* Before a hash is known, and before it is looked at.
Asked == {"use_standard", "hash_text"}
BeforeHash == {"compression", "hash"} \cup Asked
Unchecked == BeforeHash \cup {"hash_of", "hashing"}

\* What the command line or the user must have said for there to be no hash.
MayGoWithout ==
    /\ args.hashFile = {}
    /\ args.hash = "skip" \/ answered = "skip"

Hashes ==
    /\ \A p, q \in params : p = q
    /\ pc \in BeforeHash => params = {}
    /\ pc \in Unchecked => checked = {}
    /\ pc \in Asked => args.hashFile = {}
    /\ pc \in {"target", "list", "params", "confirm", "burn"} =>
          checked = params /\ (checked = {} => MayGoWithout)

IsRight(p) ==
    /\ p.view = "raw" => p.format = compression
    /\ p.view = "compressed" => p.format = "Identity"
    /\ p.view = "none" => compression = "Identity"

\* A hash to check is a record of these fields.
IsParams(p) ==
    \E h, a, t, v, f : p = [expected |-> h, alg |-> a, typed |-> t, view |-> v, format |-> f]

\* The hash to check is now said to be of this view, read with this format.
SeenAs(view, format) ==
    params' = {[p EXCEPT !.view = view, !.format = format] : p \in params}

\* The hash to check is now said to be of this view of the image, and the
\* hasher is to read the image with this format; rightly so.
Seen(view, format) ==
    /\ SeenAs(view, format)
    /\ view = "raw" => format = compression
    /\ view = "compressed" => format = "Identity"
    /\ view = "none" /\ params # {} => compression = "Identity"

Views ==
    /\ \A p \in params : IsParams(p)
    /\ pc = "hashing" => \A p \in params : IsRight(p)
    /\ \A p \in checked : IsRight(p)

Choices ==
    /\ pc \in Unchecked \cup {"target", "list"} => target = {}
    /\ pc \in {"params", "confirm"} => target # {}
    /\ pc = "list" => \A t \in options : showAll \/ t.removable = "removable"
    /\ FixedDisksAreSetApart
    /\ BurnIsConfirmed

WizardInv == Hashes /\ Views /\ Choices

-----------------------------------------------------------------------------

\* A list has what is removable, or everything under the heading that says so.
LEMMA ListingFacts ==
    ASSUME NEW all, NEW t \in Listing(all)
    PROVE  all \/ t.removable = "removable"
BY DEF Listing

LEMMA WizardInit == Init => WizardInv
BY DEF Init, WizardInv, Hashes, Views, Choices, FixedDisksAreSetApart, BurnIsConfirmed,
   BeforeHash, Unchecked, Asked

LEMMA HashesStep == WizardInv /\ [Next]_vars => Hashes'
<1> SUFFICES ASSUME WizardInv, [Next]_vars PROVE Hashes'
  OBVIOUS
<1>1. Hashes
  BY DEF WizardInv
<1> USE DEF world, picking, Go, BeforeHash, Unchecked, Asked, Ends
<1>a. CASE TakeCompression \/ ConfirmCompression \/ SelectCompression
  BY <1>1, <1>a DEF TakeCompression, ConfirmCompression, SelectCompression,
     AsksCompression, Hashes
<1>b. CASE UseHashFile
  BY <1>1, <1>b DEF UseHashFile, Expect, Hashes
<1>c. CASE SkipHash
  BY <1>1, <1>c DEF SkipHash, Hashes, MayGoWithout
<1>d. CASE UseHashArg
  BY <1>1, <1>d DEF UseHashArg, Expect, Hashes
<1>e. CASE LookForHashFiles
  BY <1>1, <1>e DEF LookForHashFiles, Hashes
<1>f. CASE AnswerUseStandard
  BY <1>1, <1>f DEF AnswerUseStandard, Expect, Hashes
<1>g. CASE TypeHash
  BY <1>1, <1>g DEF TypeHash, Understood, Expect, Hashes, MayGoWithout
<1>h. CASE TakeHashOf \/ AnswerHashOf
  <2>1. pc = "hash_of" /\ pc' = "hashing" /\ checked' = checked
    BY <1>h DEF TakeHashOf, AnswerHashOf, AsksHashOf
  <2>2. \A p, q \in params' : p = q
    BY <1>1, <1>h DEF TakeHashOf, AnswerHashOf, Hashes
  <2> QED BY <1>1, <2>1, <2>2 DEF Hashes
<1>i. CASE HashImage
  <2>1. PICK p \in params :
           \/ checked' = {p} /\ pc' = "target"
           \/ pc' \in {"refused", "panicked"}
    BY <1>i DEF HashImage
  <2>2. params' = params /\ params = {p}
    BY <1>1, <1>i, <2>1 DEF HashImage, Hashes
  <2> QED BY <2>1, <2>2 DEF Hashes
<1>j. CASE UseOut \/ ShowList \/ SelectDevice \/ SelectRefresh \/ SelectShowAll
  BY <1>1, <1>j DEF UseOut, ShowList, SelectDevice, SelectRefresh, SelectShowAll, Lists,
     Hashes, MayGoWithout
<1>k. CASE MakeParams \/ SkipConfirm \/ ConfirmWrite
  BY <1>1, <1>k DEF MakeParams, SkipConfirm, ConfirmWrite, Hashes, MayGoWithout
<1>l. CASE PromptFails
  BY <1>1, <1>l DEF PromptFails, Hashes
<1>m. CASE Replug \/ RewriteImage \/ UNCHANGED vars
  BY <1>1, <1>m DEF Replug, RewriteImage, vars, Hashes, MayGoWithout
<1> QED BY <1>a, <1>b, <1>c, <1>d, <1>e, <1>f, <1>g, <1>h, <1>i, <1>j, <1>k, <1>l, <1>m
        DEF Next, Step, Answer

LEMMA ViewsStep == WizardInv /\ [Next]_vars => Views'
<1> SUFFICES ASSUME WizardInv, [Next]_vars PROVE Views'
  OBVIOUS
<1>1. Hashes /\ Views
  BY DEF WizardInv
<1> USE DEF world, picking, Go
<1>a. CASE TakeCompression \/ ConfirmCompression \/ SelectCompression
  <2>1. params' = {} /\ checked' = {}
    BY <1>1, <1>a DEF TakeCompression, ConfirmCompression, SelectCompression,
       AsksCompression, Hashes, BeforeHash, Unchecked
  <2> QED BY <2>1 DEF Views
<1>b. CASE UseHashFile \/ UseHashArg \/ AnswerUseStandard \/ TypeHash
  <2>1. pc \in BeforeHash /\ UNCHANGED <<checked, compression>> /\ pc' # "hashing"
        /\ (params' = params \/ \E h, alg, typed : Expect(h, alg, typed))
    BY <1>b DEF UseHashFile, UseHashArg, AnswerUseStandard, TypeHash, Understood, BeforeHash,
       Asked
  <2>2. params = {} /\ checked = {}
    BY <1>1, <2>1 DEF Hashes, Unchecked
  <2>3. \A p \in params' : IsParams(p)
    BY <2>1, <2>2 DEF Expect, IsParams
  <2> QED BY <2>1, <2>2, <2>3 DEF Views
<1>c. CASE TakeHashOf \/ AnswerHashOf
  <2>1. PICK view, format : Seen(view, format)
    <3>1. CASE TakeHashOf
      <4> DEFINE format == IF compression = "Identity" THEN "Identity"
                           ELSE HasherCompression(args.hashOf)
      <4>1. params' = {[p EXCEPT !.view = args.hashOf, !.format = format] : p \in params}
        BY <3>1 DEF TakeHashOf
      <4>2. /\ args.hashOf = "raw" => format = compression
            /\ args.hashOf = "compressed" => format = "Identity"
        BY DEF HasherCompression
      <4>3. args.hashOf = "none" => compression = "Identity"
        BY <3>1 DEF TakeHashOf, AsksHashOf
      <4>4. Seen(args.hashOf, format)
        BY <4>1, <4>2, <4>3 DEF Seen, SeenAs
      <4> QED BY <4>4, Zenon
    <3>2. CASE AnswerHashOf
      <4>1. PICK view \in {"raw", "compressed"} :
               params' = {[p EXCEPT !.view = view, !.format = HasherCompression(view)] :
                              p \in params}
        BY <3>2 DEF AnswerHashOf
      <4>2. /\ view = "raw" => HasherCompression(view) = compression
            /\ view = "compressed" => HasherCompression(view) = "Identity"
        BY DEF HasherCompression
      <4>3. Seen(view, HasherCompression(view))
        BY <4>1, <4>2 DEF Seen, SeenAs
      <4> QED BY <4>3, Zenon
    <3> QED BY <1>c, <3>1, <3>2
  <2>2. pc = "hash_of" /\ UNCHANGED <<checked, compression>>
    BY <1>c DEF TakeHashOf, AnswerHashOf, AsksHashOf
  <2>3. checked' = {}
    BY <1>1, <2>2 DEF Hashes, Unchecked
  <2>4. ASSUME NEW q \in params' PROVE IsParams(q) /\ q.view = view /\ q.format = format
    <3>1. PICK p \in params : q = [p EXCEPT !.view = view, !.format = format]
      BY <2>1 DEF Seen, SeenAs
    <3>2. PICK h, a, t, v, f :
             p = [expected |-> h, alg |-> a, typed |-> t, view |-> v, format |-> f]
      BY <1>1 DEF Views, IsParams
    <3>3. q = [expected |-> h, alg |-> a, typed |-> t, view |-> view, format |-> format]
      BY <3>1, <3>2
    <3> QED BY <3>3 DEF IsParams
  <2>5. params' # {} => params # {}
    BY <2>1 DEF Seen, SeenAs
  <2>6. \A q \in params' : IsParams(q) /\ IsRight(q)'
    BY <2>1, <2>2, <2>4, <2>5 DEF Seen, IsRight
  <2> QED BY <2>3, <2>6 DEF Views
<1>d. CASE HashImage
  <2>1. PICK p \in params : checked' \in {checked, {p}}
    BY <1>d DEF HashImage
  <2>2. pc = "hashing" /\ pc' # "hashing" /\ UNCHANGED <<params, compression>>
    BY <1>d DEF HashImage
  <2>3. \A q \in checked' : IsRight(q)
    BY <1>1, <2>1, <2>2 DEF Views
  <2> QED BY <1>1, <2>2, <2>3 DEF Views, IsRight
<1>e. ASSUME UNCHANGED <<params, checked, compression>>, pc' = "hashing" => pc = "hashing"
      PROVE  Views'
  BY <1>1, <1>e DEF Views, IsRight
<1>f. CASE SkipHash \/ LookForHashFiles \/ UseOut \/ ShowList \/ SelectDevice \/ SelectRefresh
           \/ SelectShowAll \/ MakeParams \/ SkipConfirm \/ ConfirmWrite \/ PromptFails
           \/ Replug \/ RewriteImage \/ UNCHANGED vars
  BY <1>e, <1>f DEF SkipHash, LookForHashFiles, UseOut, ShowList, SelectDevice,
     SelectRefresh, SelectShowAll, Lists, MakeParams, SkipConfirm, ConfirmWrite, PromptFails,
     Replug, RewriteImage, vars
<1> QED BY <1>a, <1>b, <1>c, <1>d, <1>f DEF Next, Step, Answer

LEMMA ChoicesStep == WizardInv /\ [Next]_vars => Choices'
<1> SUFFICES ASSUME WizardInv, [Next]_vars PROVE Choices'
  OBVIOUS
<1>1. Choices
  BY DEF WizardInv
<1> USE DEF world, picking, Go, BeforeHash, Unchecked, Asked, Ends,
            FixedDisksAreSetApart, BurnIsConfirmed
<1>a. CASE UseOut
  BY <1>1, <1>a DEF UseOut, Choices
<1>b. CASE ShowList \/ SelectRefresh \/ SelectShowAll
  <2>1. pc \in {"target", "list"} /\ target' = target /\ Lists(showAll')
    BY <1>b DEF ShowList, SelectRefresh, SelectShowAll
  <2>2. pc' = "list" => \A t \in options' : showAll' \/ t.removable = "removable"
    BY <2>1, ListingFacts DEF Lists
  <2>3. target' = {} /\ pc' \in {"list", "panicked"}
    BY <1>1, <2>1 DEF Choices, Lists
  <2> QED BY <2>2, <2>3 DEF Choices
<1>c. CASE SelectDevice
  BY <1>1, <1>c DEF SelectDevice, Choices
<1>d. CASE MakeParams
  BY <1>1, <1>d DEF MakeParams, Choices
<1>e. CASE SkipConfirm \/ ConfirmWrite
  BY <1>1, <1>e DEF SkipConfirm, ConfirmWrite, Choices
<1>f. CASE PromptFails
  BY <1>1, <1>f DEF PromptFails, Choices
<1>g. CASE Replug \/ RewriteImage \/ UNCHANGED vars
  BY <1>1, <1>g DEF Replug, RewriteImage, vars, Choices
<1>h. CASE TakeCompression \/ ConfirmCompression \/ SelectCompression \/ SkipHash
           \/ LookForHashFiles
  BY <1>1, <1>h DEF TakeCompression, ConfirmCompression, SelectCompression, SkipHash,
     LookForHashFiles, AsksCompression, Choices
<1>i. CASE UseHashFile \/ UseHashArg \/ AnswerUseStandard \/ TypeHash
  BY <1>1, <1>i DEF UseHashFile, UseHashArg, AnswerUseStandard, TypeHash, Understood, Choices
<1>j. CASE TakeHashOf \/ AnswerHashOf \/ HashImage
  BY <1>1, <1>j DEF TakeHashOf, AnswerHashOf, AsksHashOf, HashImage, Choices
<1> QED BY <1>a, <1>b, <1>c, <1>d, <1>e, <1>f, <1>g, <1>h, <1>i, <1>j DEF Next, Step, Answer

-----------------------------------------------------------------------------

(* The inductive invariant of the wizard (do_setup_wizard and all it asks)    *)
(* holds in every reachable state.                                           *)
THEOREM WizardInvariant == Spec => []WizardInv
<1>1. WizardInv /\ [Next]_vars => WizardInv'
  BY HashesStep, ViewsStep, ChoicesStep DEF WizardInv
<1> QED BY WizardInit, <1>1, PTL DEF Spec

(* ask_hash lets nobody past without a hash that agreed, unless the command   *)
(* line asks for none or the user's last answer was to skip it.              *)
THEOREM NothingUnchecked == Spec => []HashGate
<1>1. WizardInv => HashGate
  BY DEF WizardInv, Hashes, MayGoWithout, HashGate
<1> QED BY WizardInvariant, <1>1, PTL

(* The hash is compared with one of the bytes it is said to be of             *)
(* (ask_hasher_compression).                                                 *)
THEOREM RightBytesChecked == Spec => []ChecksTheRightBytes
<1>1. WizardInv => ChecksTheRightBytes
  BY DEF WizardInv, Views, IsRight, ChecksTheRightBytes
<1> QED BY WizardInvariant, <1>1, PTL

(* ask_outfile and confirm_write: a fixed disk is only burnt when the user    *)
(* named it or saw it in a list that said so, and nothing without a yes or    *)
(* --force.                                                                  *)
THEOREM AgreedTarget == Spec => []TargetIsAgreedTo
<1>1. WizardInv => TargetIsAgreedTo
  BY DEF WizardInv, Choices, TargetIsAgreedTo
<1> QED BY WizardInvariant, <1>1, PTL

-----------------------------------------------------------------------------
(* The types.  Everything is of its type because the command line, the files  *)
(* and the devices are; a hash to check is alone, and none is checked yet     *)
(* when it changes (Hashes).                                                 *)

IsTyped(p) == p \in [expected : Hash, alg : Alg, typed : BOOLEAN,
                     view : {"none", "raw", "compressed"}, format : Formats \cup {"unknown"}]

AskedTypes ==
    /\ pc \in Ends \cup {"compression", "hash", "use_standard", "hash_text", "hash_of",
                         "hashing", "target", "list", "params", "confirm"}
    /\ compression \in Formats \cup {"unknown"}
    /\ pc \notin {"compression", "cancelled"} => compression # "unknown"

WorldTypes ==
    /\ answered \in {"nothing", "hash", "skip"}
    /\ args \in Arguments
    /\ image \in Content \cup {"missing"}
    /\ attached \in [Device -> Plug]

ParamsTypes == (\A p \in params : IsTyped(p)) /\ checked \subseteq params

TargetTypes ==
    /\ showAll \in BOOLEAN
    /\ options \subseteq Target
    /\ target \subseteq Target
    /\ confirmed \subseteq target

WizardTypes == AskedTypes /\ WorldTypes /\ ParamsTypes /\ TargetTypes

LEMMA Elements ==
    ASSUME NEW S, NEW s \in Seq(S), NEW i \in DOMAIN s
    PROVE  s[i] \in S
OBVIOUS

LEMMA ParsedHash ==
    ASSUME NEW lines \in Seq(HashLine)
    PROVE  ParseHashFile(lines) \subseteq Hash
<1> SUFFICES ASSUME NEW i \in DOMAIN lines, lines[i].kind = "entry"
             PROVE  lines[i].hash \in Hash
  BY DEF ParseHashFile
<1>1. lines[i] \in HashLine
  OBVIOUS
<1> QED BY <1>1 DEF HashLine

LEMMA FoundHash ==
    ASSUME NEW files \in Seq([alg : Alg, lines : Seq(HashLine)]),
           NEW f \in FindInStandardFiles(files)
    PROVE  f.alg \in Alg /\ f.expected \in Hash
<1>1. PICK i \in DOMAIN files :
         \E h \in ParseHashFile(files[i].lines) : f = [alg |-> files[i].alg, expected |-> h]
  BY DEF FindInStandardFiles
<1>2. PICK h \in ParseHashFile(files[i].lines) : f = [alg |-> files[i].alg, expected |-> h]
  BY <1>1
<1>3. files[i] \in [alg : Alg, lines : Seq(HashLine)]
  BY Elements
<1>4. h \in Hash
  BY <1>2, <1>3, ParsedHash
<1> QED BY <1>2, <1>3, <1>4

LEMMA InputHash ==
    ASSUME NEW i \in Inputs
    PROVE  i.hash \in Hash /\ ParseHashInput(i) \subseteq Alg
BY WizardAssumption DEF ParseHashInput, DetectFromLength

LEMMA ExpectedTyped ==
    ASSUME NEW h \in Hash, NEW alg \in Alg, NEW typed \in BOOLEAN, Expect(h, alg, typed)
    PROVE  \A p \in params' : IsTyped(p)
BY DEF Expect, IsTyped

LEMMA DeviceTyped ==
    ASSUME NEW d \in Device, attached \in [Device -> Plug]
    PROVE  FromDevName(d) \subseteq Target
<1>1. attached[d] \in {"absent", "removable", "fixed", "partition"}
  BY WizardAssumption
<1> QED BY <1>1 DEF FromDevName, Target

LEMMA ListingTyped ==
    ASSUME NEW all, attached \in [Device -> Plug]
    PROVE  Listing(all) \subseteq Target
BY DeviceTyped DEF Listing, EnumerateDevices

LEMMA TypesInit == Init => WizardTypes
<1> SUFFICES ASSUME Init PROVE WizardTypes
  OBVIOUS
<1>1. args.showAll \in BOOLEAN
  BY WizardAssumption DEF Init, BurnArgs
<1> QED BY <1>1 DEF Init, WizardTypes, AskedTypes, WorldTypes, ParamsTypes, TargetTypes

\* The fields of the command line that the steps use.
LEMMA ArgumentTypes ==
    ASSUME WorldTypes
    PROVE  /\ args.extension \in Formats \cup {"unknown"}
           /\ args.compression \in Format \cup {"ask", "auto", "none"}
           /\ args.input \in Inputs
           /\ args.hashFile \subseteq Seq(HashLine)
           /\ args.standard \in Seq([alg : Alg, lines : Seq(HashLine)])
           /\ args.hashOf \in {"none", "raw", "compressed"}
           /\ args.out \subseteq [under : {"/dev", "/sys/class/block", "elsewhere"},
                                  name : Device \cup {"none"}]
<1>1. args \in BurnArgs
  BY WizardAssumption DEF WorldTypes
<1> QED BY <1>1 DEF BurnArgs

LEMMA WorldStep == WizardTypes /\ [Next]_vars => WorldTypes'
<1> SUFFICES ASSUME WizardTypes, [Next]_vars PROVE WorldTypes'
  OBVIOUS
<1>1. WorldTypes
  BY DEF WizardTypes
<1>2. CASE Replug
  BY <1>1, <1>2 DEF Replug, WorldTypes
<1>3. CASE RewriteImage
  BY <1>1, <1>3 DEF RewriteImage, WorldTypes
<1>4. CASE TypeHash
  BY <1>1, <1>4 DEF TypeHash, world, WorldTypes
<1>5. CASE (Step \/ Answer \/ PromptFails \/ UNCHANGED vars) /\ ~ TypeHash
  <2>1. UNCHANGED <<world, answered>>
    BY <1>5 DEF Step, Answer, vars, world, TakeCompression, UseHashFile, SkipHash, UseHashArg,
       LookForHashFiles, TakeHashOf, HashImage, UseOut, ShowList, MakeParams, SkipConfirm,
       ConfirmCompression, SelectCompression, AnswerUseStandard, AnswerHashOf, SelectDevice,
       SelectRefresh, SelectShowAll, ConfirmWrite, PromptFails
  <2> QED BY <1>1, <2>1 DEF world, WorldTypes
<1> QED BY <1>2, <1>3, <1>4, <1>5 DEF Next

LEMMA AskedStep == WizardTypes /\ [Next]_vars => AskedTypes'
<1> SUFFICES ASSUME WizardTypes, [Next]_vars PROVE AskedTypes'
  OBVIOUS
<1>1. AskedTypes /\ WorldTypes
  BY DEF WizardTypes
<1>2. Detected \in Formats \cup {"unknown"}
  BY <1>1, ArgumentTypes DEF Detected, Formats
<1>3. "Identity" \in Formats /\ "unknown" \notin Formats
  BY WizardAssumption DEF Formats
<1> USE DEF world, picking, Go, Ends
<1>a. CASE TakeCompression \/ ConfirmCompression \/ SelectCompression
  BY <1>1, <1>2, <1>3, <1>a DEF TakeCompression, ConfirmCompression, SelectCompression,
     AsksCompression, AskedTypes
<1>b. CASE UseHashFile \/ SkipHash \/ UseHashArg \/ LookForHashFiles \/ AnswerUseStandard
           \/ TypeHash
  BY <1>1, <1>b DEF UseHashFile, SkipHash, UseHashArg, LookForHashFiles, AnswerUseStandard,
     TypeHash, Understood, AskedTypes
<1>c. CASE TakeHashOf \/ AnswerHashOf \/ HashImage
  BY <1>1, <1>c DEF TakeHashOf, AnswerHashOf, AsksHashOf, HashImage, AskedTypes
<1>d. CASE UseOut \/ ShowList \/ SelectDevice \/ SelectRefresh \/ SelectShowAll
  BY <1>1, <1>d DEF UseOut, ShowList, SelectDevice, SelectRefresh, SelectShowAll, Lists,
     AskedTypes
<1>e. CASE MakeParams \/ SkipConfirm \/ ConfirmWrite \/ PromptFails
  BY <1>1, <1>e DEF MakeParams, SkipConfirm, ConfirmWrite, PromptFails, AskedTypes
<1>f. CASE Replug \/ RewriteImage \/ UNCHANGED vars
  BY <1>1, <1>f DEF Replug, RewriteImage, vars, AskedTypes
<1> QED BY <1>a, <1>b, <1>c, <1>d, <1>e, <1>f DEF Next, Step, Answer

LEMMA ParamsStep == WizardTypes /\ WizardInv /\ [Next]_vars => ParamsTypes'
<1> SUFFICES ASSUME WizardTypes, WizardInv, [Next]_vars PROVE ParamsTypes'
  OBVIOUS
<1>1. AskedTypes /\ WorldTypes /\ ParamsTypes /\ Hashes
  BY DEF WizardTypes, WizardInv
<1> USE DEF world, picking, Go
<1>2. ASSUME checked = {}, UNCHANGED checked, \A p \in params' : IsTyped(p)
      PROVE  ParamsTypes'
  BY <1>2 DEF ParamsTypes, IsTyped
<1>3. ASSUME UNCHANGED <<params, checked>>
      PROVE  ParamsTypes'
  BY <1>1, <1>3 DEF ParamsTypes, IsTyped
<1>a. CASE UseHashFile
  <2>1. pc \in Unchecked /\ UNCHANGED checked
    BY <1>a DEF UseHashFile, Unchecked, BeforeHash
  <2>2. CASE UNCHANGED params
    BY <1>3, <2>1, <2>2
  <2>3. CASE \E h \in UNION {ParseHashFile(f) : f \in args.hashFile} :
                 \E alg \in DetectFromLength(h) : Expect(h, alg, FALSE)
    <3>1. PICK h \in UNION {ParseHashFile(f) : f \in args.hashFile} :
                 \E alg \in DetectFromLength(h) : Expect(h, alg, FALSE)
      BY <2>3
    <3>2. h \in Hash
      BY <1>1, <3>1, ArgumentTypes, ParsedHash
    <3>3. PICK alg \in Alg : Expect(h, alg, FALSE)
      BY <3>1 DEF DetectFromLength
    <3> QED BY <1>1, <1>2, <2>1, <3>2, <3>3, ExpectedTyped DEF Hashes
  <2> QED BY <1>a, <2>2, <2>3 DEF UseHashFile
<1>b. CASE UseHashArg
  <2>1. pc \in Unchecked /\ UNCHANGED checked
    BY <1>b DEF UseHashArg, Unchecked, BeforeHash
  <2>2. PICK alg \in ParseHashInput(args.input) : Expect(args.input.hash, alg, FALSE)
    BY <1>b DEF UseHashArg
  <2>3. args.input.hash \in Hash /\ alg \in Alg
    BY <1>1, <2>2, ArgumentTypes, InputHash
  <2> QED BY <1>1, <1>2, <2>1, <2>2, <2>3, ExpectedTyped DEF Hashes
<1>c. CASE AnswerUseStandard
  <2>1. pc \in Unchecked /\ UNCHANGED checked
    BY <1>c DEF AnswerUseStandard, Unchecked, BeforeHash, Asked
  <2>2. CASE UNCHANGED params
    BY <1>3, <2>1, <2>2
  <2>3. CASE \E f \in FindInStandardFiles(args.standard) : Expect(f.expected, f.alg, FALSE)
    <3>1. PICK f \in FindInStandardFiles(args.standard) : Expect(f.expected, f.alg, FALSE)
      BY <2>3
    <3>2. f.expected \in Hash /\ f.alg \in Alg
      BY <1>1, <3>1, ArgumentTypes, FoundHash
    <3> QED BY <1>1, <1>2, <2>1, <3>1, <3>2, ExpectedTyped DEF Hashes
  <2> QED BY <1>c, <2>2, <2>3 DEF AnswerUseStandard
<1>d. CASE TypeHash
  <2>1. pc \in Unchecked /\ UNCHANGED checked
    BY <1>d DEF TypeHash, Unchecked, BeforeHash, Asked
  <2>2. CASE UNCHANGED params
    BY <1>3, <2>1, <2>2
  <2>3. CASE \E i \in Inputs : \E alg \in ParseHashInput(i) : Expect(i.hash, alg, TRUE)
    <3>1. PICK i \in Inputs : \E alg \in ParseHashInput(i) : Expect(i.hash, alg, TRUE)
      BY <2>3
    <3>2. PICK alg \in ParseHashInput(i) : Expect(i.hash, alg, TRUE)
      BY <3>1
    <3>3. i.hash \in Hash /\ alg \in Alg
      BY <3>2, InputHash
    <3> QED BY <1>1, <1>2, <2>1, <3>2, <3>3, ExpectedTyped DEF Hashes
  <2> QED BY <1>d, <2>2, <2>3 DEF TypeHash, Understood
<1>e. CASE TakeHashOf \/ AnswerHashOf
  <2>1. pc \in Unchecked /\ UNCHANGED checked
    BY <1>e DEF TakeHashOf, AnswerHashOf, AsksHashOf, Unchecked
  <2>2. PICK view \in {"none", "raw", "compressed"}, format \in Formats \cup {"unknown"} :
           SeenAs(view, format)
    <3>1. args.hashOf \in {"none", "raw", "compressed"}
      BY <1>1, ArgumentTypes
    <3>2. \A view : HasherCompression(view) \in Formats \cup {"unknown"}
      BY <1>1 DEF HasherCompression, AskedTypes, Formats
    <3>3. CASE TakeHashOf
      <4> DEFINE format == IF compression = "Identity" THEN "Identity"
                           ELSE HasherCompression(args.hashOf)
      <4>1. format \in Formats \cup {"unknown"}
        BY <3>2 DEF Formats
      <4>2. SeenAs(args.hashOf, format)
        BY <3>3 DEF TakeHashOf, SeenAs
      <4> HIDE DEF format
      <4> QED BY <3>1, <4>1, <4>2
    <3>4. CASE AnswerHashOf
      <4>1. PICK view \in {"raw", "compressed"} : SeenAs(view, HasherCompression(view))
        BY <3>4 DEF AnswerHashOf, SeenAs
      <4> QED BY <3>2, <4>1
    <3> QED BY <1>e, <3>3, <3>4
  <2>3. ASSUME NEW q \in params' PROVE IsTyped(q)
    <3>1. PICK p \in params : q = [p EXCEPT !.view = view, !.format = format]
      BY <2>2 DEF SeenAs
    <3>2. IsTyped(p)
      BY <1>1 DEF ParamsTypes
    <3> QED BY <3>1, <3>2 DEF IsTyped
  <2> QED BY <1>1, <1>2, <2>1, <2>3 DEF Hashes
<1>f. CASE HashImage
  BY <1>1, <1>f DEF HashImage, ParamsTypes, IsTyped
<1>g. CASE TakeCompression \/ ConfirmCompression \/ SelectCompression \/ SkipHash
           \/ LookForHashFiles \/ UseOut \/ ShowList \/ SelectDevice \/ SelectRefresh
           \/ SelectShowAll \/ MakeParams \/ SkipConfirm \/ ConfirmWrite \/ PromptFails
           \/ Replug \/ RewriteImage \/ UNCHANGED vars
  BY <1>3, <1>g DEF TakeCompression, ConfirmCompression, SelectCompression, SkipHash,
     LookForHashFiles, UseOut, ShowList, SelectDevice, SelectRefresh, SelectShowAll,
     MakeParams, SkipConfirm, ConfirmWrite, PromptFails, Replug, RewriteImage, vars
<1> QED BY <1>a, <1>b, <1>c, <1>d, <1>e, <1>f, <1>g DEF Next, Step, Answer

LEMMA TargetStep == WizardTypes /\ WizardInv /\ [Next]_vars => TargetTypes'
<1> SUFFICES ASSUME WizardTypes, WizardInv, [Next]_vars PROVE TargetTypes'
  OBVIOUS
<1>1. WorldTypes /\ TargetTypes /\ Choices
  BY DEF WizardTypes, WizardInv
<1>2. attached \in [Device -> Plug]
  BY <1>1 DEF WorldTypes
<1> USE DEF world, picking, Go
<1>a. CASE UseOut
  <2>1. pc = "target" /\ UNCHANGED <<picking, confirmed>>
        /\ target' = UNION {TryFrom(path) : path \in args.out}
    BY <1>a DEF UseOut
  <2>2. ASSUME NEW path \in args.out PROVE TryFrom(path) \subseteq Target
    <3>1. path.name \in Device \cup {"none"}
      BY <1>1, ArgumentTypes
    <3> QED BY <1>2, <3>1, DeviceTyped DEF TryFrom, FromNormalFile, Target
  <2>3. confirmed = {}
    BY <1>1, <2>1 DEF Choices, TargetTypes
  <2> QED BY <1>1, <2>1, <2>2, <2>3 DEF TargetTypes
<1>b. CASE ShowList \/ SelectRefresh \/ SelectShowAll
  <2>1. PICK all : options' = Listing(all) \/ options' = options
    BY <1>b DEF ShowList, SelectRefresh, SelectShowAll, Lists
  <2>2. options' \subseteq Target
    BY <1>1, <1>2, <2>1, ListingTyped DEF TargetTypes
  <2>3. showAll' \in BOOLEAN /\ UNCHANGED <<target, confirmed>>
    BY <1>1, <1>b DEF ShowList, SelectRefresh, SelectShowAll, TargetTypes
  <2> QED BY <1>1, <2>2, <2>3 DEF TargetTypes
<1>c. CASE SelectDevice
  <2>1. target = {}
    BY <1>1, <1>c DEF SelectDevice, Choices
  <2> QED BY <1>1, <1>c, <2>1 DEF SelectDevice, TargetTypes
<1>d. CASE ConfirmWrite
  BY <1>1, <1>d DEF ConfirmWrite, TargetTypes
<1>e. ASSUME UNCHANGED <<picking, target, confirmed>> PROVE TargetTypes'
  BY <1>1, <1>e DEF TargetTypes
<1>f. CASE TakeCompression \/ ConfirmCompression \/ SelectCompression \/ UseHashFile
           \/ SkipHash \/ UseHashArg \/ LookForHashFiles \/ AnswerUseStandard \/ TypeHash
           \/ TakeHashOf \/ AnswerHashOf \/ HashImage \/ MakeParams \/ SkipConfirm
           \/ PromptFails \/ Replug \/ RewriteImage \/ UNCHANGED vars
  BY <1>e, <1>f DEF TakeCompression, ConfirmCompression, SelectCompression, UseHashFile,
     SkipHash, UseHashArg, LookForHashFiles, AnswerUseStandard, TypeHash, TakeHashOf,
     AnswerHashOf, HashImage, MakeParams, SkipConfirm, PromptFails, Replug, RewriteImage, vars
<1> QED BY <1>a, <1>b, <1>c, <1>d, <1>f DEF Next, Step, Answer

(* The wizard's variables keep their types, the format is known once the hash *)
(* is asked for, and what was checked is what was to be checked.             *)
THEOREM WizardTypeCorrect == Spec => []TypeOK
<1>1. Init => WizardInv /\ WizardTypes
  BY WizardInit, TypesInit
<1>2. WizardInv /\ WizardTypes /\ [Next]_vars => WizardInv' /\ WizardTypes'
  BY HashesStep, ViewsStep, ChoicesStep, AskedStep, WorldStep, ParamsStep, TargetStep
     DEF WizardInv, WizardTypes
<1>3. WizardInv /\ WizardTypes => TypeOK
  <2> SUFFICES ASSUME WizardInv, WizardTypes PROVE TypeOK
    OBVIOUS
  <2>1. Cardinality(params) <= 1
    <3>1. \A p, q \in params : p = q
      BY DEF WizardInv, Hashes
    <3>2. CASE params = {}
      BY <3>2, FS_EmptySet
    <3>3. CASE params # {}
      <4>1. PICK p \in params : TRUE
        BY <3>3
      <4>2. params = {p}
        BY <3>1, <4>1
      <4>3. Cardinality(params) = 1
        BY <4>2, FS_Singleton, Zenon
      <4> QED BY <4>3
    <3> QED BY <3>2, <3>3
  <2> QED BY <2>1 DEF WizardTypes, AskedTypes, WorldTypes, ParamsTypes, TargetTypes,
                      IsTyped, TypeOK
<1> QED BY <1>1, <1>2, <1>3, PTL DEF Spec

=============================================================================
