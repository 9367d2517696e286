-------------------------- MODULE MCScrutinHistory --------------------------
(***************************************************************************)
(* Model values for ScrutinHistory: as in MCVoteScrutin, requests,         *)
(* sénateurs and rules are interchangeable.                                *)
(***************************************************************************)
EXTENDS ScrutinHistory, TLC

Symmetry == Permutations(Requests) \union Permutations(Voters) \union Permutations(Rules)
=============================================================================
