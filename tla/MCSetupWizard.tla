---------------------------- MODULE MCSetupWizard ----------------------------
(***************************************************************************)
(* Small instances of SetupWizard: command lines for the questions about    *)
(* hashes, and command lines for the questions about targets.               *)
(***************************************************************************)
EXTENDS SetupWizard

H(length, format, content) == [length |-> length, format |-> format, content |-> content]

\* Of the good image, raw and compressed; with a length no algorithm has.
MCHashes == {H("sha256", "gz", "good"), H("sha256", "Identity", "good"),
             H("odd", "Identity", "good")}

MCInputs == [prefix : {"none", "sha256", "md5"}, hash : MCHashes]

Entry(h) == [kind |-> "entry", hash |-> h]
Line(kind) == [kind |-> kind]

MCHashFiles ==
    {<<>>, <<Line("malformed")>>, <<Line("other"), Line("undecodable")>>}
        \cup {<<Line("other"), Entry(h)>> : h \in MCHashes}

MCStandard ==
    {<<>>,
     <<[alg |-> "md5", lines |-> <<Line("malformed")>>],
       [alg |-> "sha256", lines |-> <<Entry(H("sha256", "Identity", "good"))>>]>>,
     <<[alg |-> "md5", lines |-> <<Entry(H("sha256", "Identity", "good"))>>]>>}

ParsedInputs == {i \in MCInputs : ParseHashInput(i) # {}}

AnyInput == CHOOSE i \in ParsedInputs : TRUE

HashArguments ==
    {a \in [extension : {"unknown", "Identity", "gz"},
            compression : {"ask", "auto", "none", "gz"},
            hash : {"ask", "skip", "given"},
            input : ParsedInputs,
            hashFile : {{}} \cup {{f} : f \in MCHashFiles},
            standard : MCStandard,
            hashOf : {"none", "raw", "compressed"},
            out : {{[under |-> "elsewhere", name |-> "sda"]}},
            showAll : {FALSE},
            interactive : {"auto", "never"},
            force : BOOLEAN,
            tty : BOOLEAN] :
        /\ a.hash # "given" => a.input = AnyInput
        /\ (a.hash # "ask" \/ a.hashFile # {}) => a.standard = <<>>
        /\ a.hashFile # {} => a.hash = "skip"
        /\ a.interactive = "never" => a.tty
        /\ a.compression # "ask" => a.extension = "gz"}

TargetArguments ==
    [extension : {"Identity"}, compression : {"auto"}, hash : {"skip"},
     input : {AnyInput}, hashFile : {{}}, standard : {<<>>}, hashOf : {"none"},
     out : {{}} \cup {{path} : path \in [under : {"/dev", "/sys/class/block", "elsewhere"},
                                    name : Device \cup {"none"}]},
     showAll : BOOLEAN, interactive : {"auto"},
     force : BOOLEAN, tty : BOOLEAN]

MCArguments == HashArguments \cup TargetArguments

=============================================================================
