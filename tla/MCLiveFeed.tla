----------------------------- MODULE MCLiveFeed -----------------------------
(* LiveFeed for TLC: clients of one user are interchangeable.              *)
EXTENDS LiveFeed, TLC

Symmetry == Permutations(Alice \ {Followed})
=============================================================================
