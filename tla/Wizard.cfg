CONSTANTS
    Alg = {"sha256", "md5"}
    Format = {"gz"}
    Content = {"good", "bad"}
    Undecodable = {"bad"}
    Device = {"sda", "sdb"}
    Inputs <- MCInputs
    Arguments <- MCArguments
    Plug = {"absent", "removable", "fixed", "partition"}
SPECIFICATION FairSpec
INVARIANTS
    TypeOK
    HashGate
    ChecksTheRightBytes
    TargetIsAgreedTo
PROPERTY HeadlessEnds
\* The wizard ends.
CHECK_DEADLOCK FALSE
