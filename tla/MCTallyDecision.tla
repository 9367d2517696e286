-------------------------- MODULE MCTallyDecision --------------------------
(***************************************************************************)
(* Thresholds of nothing, of everything, of three fifths and of 56 %, of   *)
(* which 25 seats make 14.000000000000002 in doubles.                      *)
(***************************************************************************)
EXTENDS TallyDecision

MCThresholds ==
  {[num |-> n, den |-> d] : n \in {0, 1}, d \in {1}}
    \union {[num |-> 3, den |-> 5], [num |-> 56, den |-> 100]}

MCRoundsUp == {[seats |-> 25, num |-> 56, den |-> 100]}
=============================================================================
