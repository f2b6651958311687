------------------------------ MODULE MCPairing ------------------------------
(***************************************************************************)
(* Pairing for TLC. Sessions and controllers are symmetric in the model.   *)
(***************************************************************************)
EXTENDS Pairing, TLC

Symmetry == Permutations(Session) \cup Permutations(Controller)

=============================================================================
