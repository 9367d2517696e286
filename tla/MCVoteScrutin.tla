--------------------------- MODULE MCVoteScrutin ---------------------------
(***************************************************************************)
(* Model values for VoteScrutin: requests and sénateurs are interchangeable*)
(* (a request names the rows and the key it creates; nothing orders them). *)
(***************************************************************************)
EXTENDS VoteRefinement, TLC

Symmetry == Permutations(Requests) \union Permutations(Voters) \union Permutations(Rules)
=============================================================================
