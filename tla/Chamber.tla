------------------------------- MODULE Chamber -------------------------------
(***************************************************************************)
(* The séance, its agenda and its documents side by side.  The three parts *)
(* share no stored state: a request to one never reads what another        *)
(* writes.  So a behaviour follows one strand of the chamber's work from   *)
(* its initial state, and the others rest.                                 *)
(***************************************************************************)
EXTENDS SessionMeeting, Agenda, Documents

VARIABLE strand   \* which part of the work a behaviour follows

vars == <<seanceVars, agendaVars, docVars, strand>>

Strands ==
  {"sitting", "seating", "signing", "speaking", "agenda", "drafting", "publishing",
   "ruling"}

\* Bound: the seats matter only to who patches or counts them.
Init ==
  /\ SeanceInit /\ AgendaInit /\ DocInit
  /\ strand \in Strands
  /\ strand \notin {"sitting", "signing"} => seance.seats = 1

SeanceStrand ==
  \E r \in Requests :
    \/ strand \in {"sitting", "seating", "signing", "speaking"} /\ Conduct(r)
    \/ strand = "sitting" /\ Patching(r)
    \/ strand = "seating" /\ Assigning(r)
    \/ strand = "signing" /\ (Signing(r) \/ Patching(r))
    \/ strand = "speaking" /\ Speaking(r)

DocStrand ==
  \E w \in Writers :
    \/ strand \in {"drafting", "publishing"} /\ Drafting(w)
    \/ strand = "drafting" /\ Versioning(w)
    \/ strand = "publishing" /\ Publishing(w)
    \/ strand = "ruling" /\ Ruling(w)
    \/ Falters(w)

Next ==
  /\ UNCHANGED strand
  /\ \/ SeanceStrand /\ UNCHANGED <<agendaVars, docVars>>
     \/ strand = "agenda" /\ AgendaNext /\ UNCHANGED <<seanceVars, docVars>>
     \/ DocStrand /\ UNCHANGED <<seanceVars, agendaVars>>

Spec == Init /\ [][Next]_vars

\* Bounds: nothing is claimed of an agenda or of documents once an overtaken
\* copy has been written, and such a behaviour is not followed further; one
\* document at a time is enough for publications to race.
Bounded ==
  /\ ~ clashed /\ ~ muddled
  /\ strand = "publishing" => Filed \subseteq {CHOOSE d \in DocIds : TRUE}

TypeOK == SeanceTypeOK /\ AgendaTypeOK /\ DocTypeOK

\* Nobody has two rows where the code looks for one before it inserts:
\* participants (session_controller.py:215) and pending requests to speak
\* (parole_service.py:66).
OneRowEach == OneParticipant /\ OnePending

\* What the greffier decides of a request to speak (parole_service.py:116) or of
\* an amendment (document_service.py:97) is not decided again.
DecidedOnce == SpeechDecidedOnce /\ RuledOnce

\* The point under discussion and a published document are not deleted from
\* under their readers (agenda_controller.py:147, document_controller.py:170).
InUseIsKept == ActiveIsKept /\ PublishedIsKept
=============================================================================
