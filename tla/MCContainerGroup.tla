-------------------------- MODULE MCContainerGroup --------------------------
(* Instances of ContainerGroup for TLC: module m1 declares the project p1,   *)
(* module m2 leaves its project unnamed.                                     *)
EXTENDS ContainerGroup, TLC

CONSTANTS m1, m2, p1, a1, a2, bad, b1, torn

MCVersions == m1 :> {a1, a2, bad} @@ m2 :> {b1}
MCProjectOf == [a \in {a1, a2, bad, torn} |-> p1] @@ b1 :> m2

\* Every module keeps to one form, or a1 comes in an archive and a2 as a text.
SameFile == [a \in {a1, a2, bad, torn} |-> "yaml"] @@ b1 :> "yml"
MixedFiles == [a \in {a2, bad, torn} |-> "yaml"] @@ [a \in {a1, b1} |-> "yml"]
=============================================================================
