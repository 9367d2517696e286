--------------------------- MODULE VoteRefinement ---------------------------
(***************************************************************************)
(* VoteScrutin implements ScrutinPromise when the greffier's requests run  *)
(* alone, a sénateur has one cast in flight and no worker dies between a   *)
(* ballot and its count or between a close and its result.  A cast takes   *)
(* effect where the ballot is inserted, a change of the scrutin where the  *)
(* document is saved, the result where its row is written.  The counter is *)
(* no part of the promise: it may stay behind the ballots.                 *)
(***************************************************************************)
EXTENDS VoteScrutin

TermsOf(c) == [secret |-> c.secret, dek |-> c.dek, rule |-> c.rule]

Counted ==
  IF result = NoResult
  THEN NoResult
  ELSE [terms   |-> [TermsOf(cfg) EXCEPT !.rule = result.rule],
        counted |-> {b.voter : b \in {c \in ballots : c.id \in result.ballots}}]

Promise == INSTANCE ScrutinPromise WITH
  Terms       <- {t \in [secret: BOOLEAN, dek: Deks, rule: Rules] :
                    t.secret <=> t.dek # NoDek},
  Unpublished <- NoResult,
  status      <- cfg.status,
  terms       <- TermsOf(cfg),
  voted       <- {b.voter : b \in ballots},
  headcount   <- Cardinality(ballots),
  published   <- Counted

\* Under the discipline the detailed scrutin, with its stale copies and its
\* separate writes, behaves as if every operation were one step.
KeepsPromise == Promise!PSpec
=============================================================================
