--------------------------- MODULE MCApprovalLifecycle ---------------------------
(* Few enough turn-ins for TLC; drafts, submissions and complete contents  *)
(* are each interchangeable, for the model never compares or orders them.  *)
EXTENDS ApprovalLifecycle, TLC

Interchangeable ==
    Permutations(Drafts) \cup Permutations(Entries) \cup Permutations(Complete)

=============================================================================
