---------------------------- MODULE MCSecretSync ----------------------------
(***************************************************************************)
(* Small instances of SecretSync for TLC.                                  *)
(***************************************************************************)
EXTENDS SecretSync, TLC

CONSTANT n1

ClusterWide == [r \in Rotators |-> None]
Namespaced  == [r \in Rotators |-> n1]

OwnNames == [r \in Rotators |-> r]

Symmetry ==
    Permutations(Rotators) \cup Permutations(Namespaces) \cup Permutations(Names) \cup
    Permutations(Types) \cup Permutations(Tokens)

=============================================================================
