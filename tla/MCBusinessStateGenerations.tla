------------------------ MODULE MCBusinessStateGenerations ------------------------
(* Sessions of one kind are interchangeable for the safety run, and so are *)
(* the generations that do not exist yet.                                  *)
EXTENDS BusinessStateGenerations, TLC

Interchangeable ==
    Permutations(Writers) \cup Permutations(Admins) \cup Permutations(Generations \ {First})

=============================================================================
