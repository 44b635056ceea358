---------------------------- MODULE MCTurnInForm ----------------------------
(* Texts are not interchangeable for TLC here: a liveness property is      *)
(* checked, and TLC's symmetry reduction is not sound for those.           *)
EXTENDS TurnInForm

=============================================================================
