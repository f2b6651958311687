-------------------------------- MODULE MCACL --------------------------------
(* Small instances of ACL for TLC. *)
EXTENDS ACL, TLC

CONSTANTS a1, a2, n1, n2, n3

MCAD == {a1, a2}
MCNode == {n1, n2, n3}
\* Authorization data and addresses are interchangeable.
Symmetric == Permutations(MCAD) \union Permutations(MCNode)
=============================================================================
