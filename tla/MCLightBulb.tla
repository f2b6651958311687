----------------------------- MODULE MCLightBulb -----------------------------
(***************************************************************************)
(* LightBulb for TLC: a writer and a subscriber are two sessions, and one  *)
(* datum is enough to be listed or not.                                    *)
(***************************************************************************)
EXTENDS LightBulb, TLC

Symmetric == Permutations(Session)

=============================================================================
