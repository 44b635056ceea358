------------------------- MODULE MCAccountSecurity -------------------------
(* Two requests at a time on one account with an authenticator app and a   *)
(* passkey, enrolled or not.                                               *)
EXTENDS AccountSecurity, TLC

Symmetry == Permutations(Requests) \cup Permutations(Passwords)

=============================================================================
