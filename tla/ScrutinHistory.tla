--------------------------- MODULE ScrutinHistory ---------------------------
(***************************************************************************)
(* VoteScrutin with three facts of its past: whether the scrutin was ever  *)
(* closed, which ballots were in when it first was, and whether a worker   *)
(* died on its way to a result.  No action reads them; they say what       *)
(* overlapping tallies, stale saves and crashes may do to the result.      *)
(***************************************************************************)
EXTENDS VoteScrutin

VARIABLES
  shut,    \* history: CLOS has been saved
  early,   \* history: the ballots stored when it first was
  cut      \* history: a request died between its close and its result

historyVars == <<cfg, ballots, pouvoirs, result, pc, mem, shut, early, cut>>

Closed   == {"CLOS", "VALIDE", "ANNULE"}
TallyPCs == {"tally", "sum", "find", "write"}

Ids == {b.id : b \in ballots}

HInit ==
  /\ Init
  /\ shut = FALSE
  /\ early = {}
  /\ cut = FALSE

\* Only the first save of CLOS counts: later ones follow a stale reopening.
NoteClose ==
  /\ shut' = (shut \/ cfg'.status = "CLOS")
  /\ early' = IF shut' /\ ~ shut THEN Ids ELSE early

HNext ==
  \/ /\ \E r \in Requests : Cast(r) \/ Chair(r) \/ Proxy(r)
     /\ NoteClose
     /\ UNCHANGED cut
  \/ \E r \in Requests :
       /\ Crash(r)
       /\ cut' = (cut \/ pc[r] \in TallyPCs)
       /\ UNCHANGED <<shut, early>>

HSpec == HInit /\ [][HNext]_historyVars

\* Whichever of the overlapping tallies, manual tallies and exports writes last,
\* and whatever stale copy it holds, no result drops a ballot that was in at the
\* first close (tally_service.py:121, vote_controller.py:419); and a closed
\* scrutin has its result, or it is being tallied, or a worker died tallying it
\* (vote_controller.py:164): no tally gives up because others moved the scrutin.
ClosedIsTallied ==
  /\ result # NoResult => shut /\ early \subseteq result.ballots
  /\ cfg.status \in Closed =>
       \/ result # NoResult
       \/ \E r \in Requests : pc[r] \in TallyPCs
       \/ cut
=============================================================================
