----------------------------- MODULE MCBurnSystem ------------------------------
(* The instance of BurnSystem that is model-checked.                         *)
EXTENDS BurnSystem

\* A plain name, and one with all that a shell would make something of.
MCSelfPaths == {<<"x">>, <<"x", " ", "'", "\\">>}

MCLogPath == <<"x", " ", "x">>

=============================================================================
