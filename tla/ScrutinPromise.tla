--------------------------- MODULE ScrutinPromise ---------------------------
(***************************************************************************)
(* What a scrutin promises to a sénat that knows nothing of workers and    *)
(* documents: it follows its life cycle, its terms are settled before the  *)
(* first ballot, a sénateur votes once and while it is open, and the       *)
(* published result counts all the ballots.  Every operation is one step.  *)
(***************************************************************************)
EXTENDS Naturals, FiniteSets

CONSTANTS Voters, Terms, Unpublished

VARIABLES
  status,     \* the life cycle of VoteStatus
  terms,      \* secrecy, key and majority rule
  voted,      \* who has voted
  headcount,  \* how many ballots there are
  published   \* the result: who was counted and by which terms

pvars == <<status, terms, voted, headcount, published>>

\* The life cycle as EVoteStatus documents it.
LifeCycle ==
  {<<"PROJET", "OUVERT">>, <<"OUVERT", "SUSPENDU">>, <<"OUVERT", "CLOS">>,
   <<"SUSPENDU", "OUVERT">>, <<"SUSPENDU", "CLOS">>,
   <<"CLOS", "VALIDE">>, <<"CLOS", "ANNULE">>}

PInit ==
  /\ status = "PROJET"
  /\ terms \in Terms
  /\ voted = {}
  /\ headcount = 0
  /\ published = Unpublished

Advance ==
  /\ <<status, status'>> \in LifeCycle
  /\ UNCHANGED <<terms, voted, headcount, published>>

Retype ==
  /\ headcount = 0
  /\ status \in {"PROJET", "OUVERT", "SUSPENDU"}
  /\ terms' \in Terms
  /\ UNCHANGED <<status, voted, headcount, published>>

Vote(v) ==
  /\ status = "OUVERT"
  /\ v \notin voted
  /\ voted' = voted \union {v}
  /\ headcount' = headcount + 1
  /\ UNCHANGED <<status, terms, published>>

Publish ==
  /\ status \in {"CLOS", "VALIDE", "ANNULE"}
  /\ published' = [terms |-> terms, counted |-> voted]
  /\ UNCHANGED <<status, terms, voted, headcount>>

PNext == Advance \/ Retype \/ (\E v \in Voters : Vote(v)) \/ Publish

PSpec == PInit /\ [][PNext]_pvars
=============================================================================
